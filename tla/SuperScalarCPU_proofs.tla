------------------------- MODULE SuperScalarCPU_proofs -------------------------
(***************************************************************************)
(* Proofs about the superscalar CPU for every program and every size of    *)
(* its queues, register files and memories.  The operators of the queues   *)
(* come first, each with what it does to the reorder buffer and the queue  *)
(* that depend on each other; then the actions, which are compositions of  *)
(* these operators.                                                        *)
(***************************************************************************)
EXTENDS SuperScalarProperties, Arithmetic_proofs, SequenceTheorems, FiniteSetTheorems,
        WellFoundedInduction, TLAPS

PcValue == 0 .. PcMod - 1

(* What an instruction in flight carries; only a branch has a checkpoint. *)
DataOK(d) == /\ d.pc \in PcValue /\ d.ins \in Instruction
             /\ d.prd \in Physical /\ d.old \in Physical
             /\ d.ins.op \in BranchOps => d.cp \in [Register -> Physical]

(* The reorder buffer is a ring whose window is what it holds. *)
Ring(r) ==
    /\ InOrder(r)
    /\ \A i \in Index : IF InWindow(r, i)
                        THEN /\ r.slot[i].valid = TRUE /\ r.slot[i].completed \in BOOLEAN
                             /\ DataOK(r.slot[i].data)
                        ELSE r.slot[i] = EmptyEntry

Cell == [ready : BOOLEAN, value : Word]

OperandSet == [reg : Physical, ready : BOOLEAN, value : Word]

EntrySet == [valid : {TRUE}, pc : PcValue, ins : Instruction, rob : Index, prd : Physical,
             op1 : OperandSet, op2 : OperandSet, predTaken : BOOLEAN, predTarget : PcValue]

(* What the issue queue and the reorder buffer know of one another. *)
Pending(r, i) == InWindow(r, i) /\ ~r.slot[i].completed

Describes(e, d) == e.pc = d.pc /\ e.ins = d.ins /\ e.prd = d.prd

Linked(q, r) ==
    /\ q \in [IQSlot -> EntrySet \cup {FreeSlot}]
    /\ \A i \in IQSlot : q[i].valid => Pending(r, q[i].rob) /\ Describes(q[i], r.slot[q[i].rob].data)
    /\ \A s \in Index : Pending(r, s) => \E i \in IQSlot : q[i].valid /\ q[i].rob = s
    /\ \A i, j \in IQSlot : q[i].valid /\ q[j].valid /\ q[i].rob = q[j].rob => i = j

LoadStoreSet == [type : {"LOAD", "STORE"}, rob : Index, addr : Word \cup {Unknown},
                 data : Word \cup {Unknown}, executed : BOOLEAN]

StoreSet == [rob : Index, addr : Word, data : Word, ready : BOOLEAN, committed : BOOLEAN]

PredictionSet == [counter : 0 .. 3, tag : PcValue \cup {NoTag}, target : PcValue]

MachineOK ==
    /\ rom \in Programs
    /\ stage \in Stages
    /\ fetchPc \in PcValue
    /\ fd \in [valid : BOOLEAN, pc : PcValue]
    /\ redirect \in [on : BOOLEAN, pc : PcValue]
    /\ halted \in BOOLEAN /\ haltDispatched \in BOOLEAN
    /\ Ring(rob)
    /\ Linked(iq, rob)
    /\ prf \in [Physical -> Cell]
    /\ arf \in [Register -> Word]
    /\ rat \in [Register -> Physical]
    /\ freeList \in Seq(Physical)
    /\ lsq \in Seq(LoadStoreSet) /\ Len(lsq) <= LSQCapacity
    /\ storeBuffer \in Seq(StoreSet) /\ Len(storeBuffer) <= SBCapacity
    /\ dmem \in [0 .. DMemWords - 1 -> Word]
    /\ predictor \in [0 .. BPTableSize - 1 -> PredictionSet]
    /\ checkpoints \in 0 .. MaxCheckpoints

-----------------------------------------------------------------------------
(* Least and greatest elements. *)

LEMMA LeastNat ==
    ASSUME NEW S, S \subseteq Nat, S # {}
    PROVE  \E x \in S : \A y \in S : x <= y
<1>1. PICK x \in S : \A y \in S : ~ (<<y, x>> \in OpToRel(<, Nat))
  BY NatLessThanWellFounded, WFMin, Zenon
<1>2. \A y \in S : ~ (y < x)
  BY <1>1 DEF OpToRel
<1> QED
  BY <1>2

LEMMA MinIsLeast ==
    ASSUME NEW S, S \subseteq Nat, S # {}
    PROVE  Min(S) \in S /\ \A y \in S : Min(S) <= y
<1>1. PICK x \in S : \A y \in S : x <= y
  BY LeastNat
<1> QED
  BY <1>1, Zenon DEF Min

LEMMA MaxIsGreatest ==
    ASSUME NEW n \in Nat, NEW S, S \subseteq 0 .. n, S # {}
    PROVE  Max(S) \in S /\ \A y \in S : Max(S) >= y
<1> DEFINE T == {n - x : x \in S}
<1>1. T \subseteq Nat /\ T # {}
  <2>1. \A x \in S : x \in Int /\ 0 <= x /\ x <= n
    OBVIOUS
  <2>2. \A x \in S : n - x \in Nat
    BY <2>1
  <2>3. PICK x \in S : TRUE
    OBVIOUS
  <2> QED
    BY <2>2, <2>3
<1>2. PICK z \in T : \A y \in T : z <= y
  BY <1>1, LeastNat
<1>3. PICK x \in S : z = n - x
  BY <1>2
<1>4. \A y \in S : x >= y
  BY <1>2, <1>3
<1> QED
  BY <1>4, Zenon DEF Max

-----------------------------------------------------------------------------
(* Picking positions out of a queue keeps their order and loses none.       *)
UpTo(P, k) == {j \in P : j <= k}

(* The first n numbers are n. *)
LEMMA IntervalSize ==
    ASSUME NEW n \in Nat
    PROVE  IsFiniteSet(1 .. n) /\ Cardinality(1 .. n) = n
<1>1. 1 \in Int /\ n \in Int
  OBVIOUS
<1>2. IsFiniteSet(1 .. n) /\ Cardinality(1 .. n) = IF 1 > n THEN 0 ELSE n - 1 + 1
  BY <1>1, FS_Interval
<1>3. ASSUME NEW c, c = IF 1 > n THEN 0 ELSE n - 1 + 1 PROVE c = n
  BY <1>3
<1> DEFINE C == Cardinality(1 .. n)
<1>4. C = n
  <2>1. C = IF 1 > n THEN 0 ELSE n - 1 + 1
    BY <1>2
  <2> HIDE DEF C
  <2> QED
    BY <1>3, <2>1
<1> QED
  BY <1>2, <1>4

LEMMA CountPositions ==
    ASSUME NEW N \in Nat, NEW P, P \subseteq 1 .. N
    PROVE  /\ IsFiniteSet(P) /\ Cardinality(P) \in Nat
           /\ \A k \in Nat : IsFiniteSet(UpTo(P, k)) /\ Cardinality(UpTo(P, k)) \in Nat
           /\ Cardinality(UpTo(P, 0)) = 0
           /\ Cardinality(UpTo(P, N)) = Cardinality(P)
<1>0. \A j \in P : j \in Nat /\ 1 <= j /\ j <= N
  OBVIOUS
<1>1. IsFiniteSet(P)
  <2>1. IsFiniteSet(1 .. N) /\ P \in SUBSET (1 .. N)
    BY FS_Interval
  <2> QED
    BY <2>1, FS_Subset
<1>2. \A k : UpTo(P, k) \in SUBSET P
  BY DEF UpTo
<1>3. \A k \in Nat : IsFiniteSet(UpTo(P, k)) /\ Cardinality(UpTo(P, k)) \in Nat
  BY <1>1, <1>2, FS_Subset, FS_CardinalityType
<1>4. UpTo(P, 0) = {} /\ UpTo(P, N) = P
  <2>1. \A j \in P : ~(j <= 0) /\ j <= N
    BY <1>0
  <2> QED
    BY <2>1 DEF UpTo
<1> QED
  BY <1>1, <1>3, <1>4, FS_CardinalityType, FS_EmptySet

LEMMA CountStep ==
    ASSUME NEW N \in Nat, NEW P, P \subseteq 1 .. N, NEW k \in Nat
    PROVE  Cardinality(UpTo(P, k + 1)) = IF k + 1 \in P THEN Cardinality(UpTo(P, k)) + 1
                                         ELSE Cardinality(UpTo(P, k))
<1>0. \A j \in P : j \in Nat
  OBVIOUS
<1>3. IsFiniteSet(UpTo(P, k)) /\ Cardinality(UpTo(P, k)) \in Nat
  BY CountPositions
<1>1. CASE k + 1 \in P
  <2>1. UpTo(P, k + 1) = UpTo(P, k) \cup {k + 1} /\ k + 1 \notin UpTo(P, k)
    <3>1. \A j \in P : j <= k + 1 <=> j <= k \/ j = k + 1
      BY <1>0
    <3>2. ~(k + 1 <= k)
      OBVIOUS
    <3> QED
      BY <1>1, <3>1, <3>2 DEF UpTo
  <2> QED
    BY <1>3, <1>1, <2>1, FS_AddElement
<1>2. CASE k + 1 \notin P
  <2>1. UpTo(P, k + 1) = UpTo(P, k)
    <3>1. \A j \in P : j <= k + 1 <=> j <= k
      BY <1>0, <1>2
    <3> QED
      BY <3>1 DEF UpTo
  <2> QED
    BY <1>2, <2>1
<1> QED
  BY <1>1, <1>2

LEMMA NthPosition ==
    ASSUME NEW N \in Nat, NEW P, P \subseteq 1 .. N, NEW n \in 1 .. Cardinality(P)
    PROVE  \E k \in P : Cardinality(UpTo(P, k)) = n
<1> DEFINE c(k) == Cardinality(UpTo(P, k))
           T == {k \in 0 .. N : c(k) >= n}
<1>1. /\ Cardinality(P) \in Nat /\ c(0) = 0 /\ c(N) = Cardinality(P)
      /\ \A k \in Nat : c(k) \in Nat
      /\ \A k \in Nat : c(k + 1) = IF k + 1 \in P THEN c(k) + 1 ELSE c(k)
  <2>1. \A k \in Nat : c(k + 1) = IF k + 1 \in P THEN c(k) + 1 ELSE c(k)
    BY CountStep
  <2>2. \A k \in Nat : c(k) \in Nat
    BY CountPositions
  <2>3. Cardinality(P) \in Nat /\ c(0) = 0 /\ c(N) = Cardinality(P)
    BY CountPositions
  <2> QED
    BY <2>1, <2>2, <2>3
<1> HIDE DEF c
<1>2. T \subseteq Nat /\ N \in T
  BY <1>1
<1>3. PICK k \in T : \A y \in T : k <= y
  BY <1>2, LeastNat
<1>4. k \in 1 .. N /\ c(k) >= n
  BY <1>1, <1>3
<1>5. k - 1 \in Nat /\ k - 1 \in 0 .. N /\ k = (k - 1) + 1 /\ k - 1 \notin T
  BY <1>3, <1>4
<1>6. c(k - 1) < n
  BY <1>1, <1>5
<1>7. c(k) = IF k \in P THEN c(k - 1) + 1 ELSE c(k - 1)
  BY <1>1, <1>5
<1>8. k \in P /\ c(k) = n
  <2>1. c(k - 1) \in Nat /\ c(k) \in Nat
    BY <1>1, <1>4, <1>5
  <2> QED
    BY <1>4, <1>6, <1>7, <2>1
<1> QED
  BY <1>8 DEF c

LEMMA PositionsOrdered ==
    ASSUME NEW N \in Nat, NEW P, P \subseteq 1 .. N, NEW j \in P, NEW k \in P, j < k
    PROVE  Cardinality(UpTo(P, j)) < Cardinality(UpTo(P, k))
<1>1. j \in Nat /\ k \in Nat
  OBVIOUS
<1>2. /\ IsFiniteSet(UpTo(P, k)) /\ Cardinality(UpTo(P, k)) \in Nat
      /\ Cardinality(UpTo(P, j)) \in Nat
  BY <1>1, CountPositions
<1>3. UpTo(P, j) \in SUBSET UpTo(P, k) /\ UpTo(P, j) # UpTo(P, k)
  <2>1. \A i \in P : i \in Nat
    OBVIOUS
  <2>2. \A i \in P : i <= j => i <= k
    BY <2>1
  <2>3. k \in UpTo(P, k) /\ k \notin UpTo(P, j)
    BY <2>1 DEF UpTo
  <2> QED
    BY <2>2, <2>3 DEF UpTo
<1>4. /\ Cardinality(UpTo(P, j)) <= Cardinality(UpTo(P, k))
      /\ Cardinality(UpTo(P, j)) # Cardinality(UpTo(P, k))
  BY <1>2, <1>3, FS_Subset
<1> QED
  BY <1>2, <1>4

(* f[n] is the position the n-th entry of the result comes from. *)
Picks(f, P) == /\ f \in [1 .. Cardinality(P) -> P]
               /\ \A m, n \in 1 .. Cardinality(P) : m < n => f[m] < f[n]
               /\ \A k \in P : \E n \in 1 .. Cardinality(P) : f[n] = k

Picked(q, P) ==
    \E f : /\ Picks(f, P)
           /\ \A n \in 1 .. Cardinality(P) : SubQueue(q, P)[n] = q[f[n]]

LEMMA SubQueuePicks ==
    ASSUME NEW N \in Nat, NEW P, P \subseteq 1 .. N, NEW q
    PROVE  /\ Cardinality(P) \in Nat
           /\ DOMAIN SubQueue(q, P) = 1 .. Cardinality(P)
           /\ Picked(q, P)
<1> DEFINE c(k) == Cardinality(UpTo(P, k))
           C == 1 .. Cardinality(P)
           f == [n \in C |-> CHOOSE k \in P : c(k) = n]
<1>1. SubQueue(q, P) = [n \in C |-> q[f[n]]]
  BY DEF SubQueue, UpTo
<1>2. \A n \in C : f[n] \in P /\ c(f[n]) = n
  <2> TAKE n \in C
  <2>1. \E k \in P : c(k) = n
    BY NthPosition
  <2> QED
    BY <2>1
<1>0. \A k \in P : k \in Nat
  OBVIOUS
<1>3. Cardinality(P) \in Nat /\ \A k \in P : c(k) \in Nat
  BY <1>0, CountPositions
<1>4. \A j, k \in P : j < k => c(j) < c(k)
  BY PositionsOrdered
<1>5. \A k \in P : c(k) \in C
  <2> TAKE k \in P
  <2>1. UpTo(P, k) \in SUBSET P /\ k \in UpTo(P, k) /\ IsFiniteSet(P) /\ IsFiniteSet(UpTo(P, k))
    <3>1. k \in Nat
      BY <1>0
    <3>2. UpTo(P, k) \in SUBSET P /\ k \in UpTo(P, k)
      BY <3>1 DEF UpTo
    <3>3. IsFiniteSet(P) /\ IsFiniteSet(UpTo(P, k))
      BY <3>1, CountPositions
    <3> QED
      BY <3>2, <3>3
  <2>2. c(k) <= Cardinality(P)
    BY <2>1, FS_Subset
  <2>3. c(k) # 0
    BY <2>1, FS_EmptySet
  <2> QED
    BY <1>3, <2>2, <2>3
<1> HIDE DEF c
<1>6. f \in [C -> P]
  BY <1>2
<1> HIDE DEF f
<1>7. \A m, n \in C : m < n => f[m] < f[n]
  <2> SUFFICES ASSUME NEW m \in C, NEW n \in C, m < n PROVE f[m] < f[n]
    OBVIOUS
  <2>1. f[m] \in P /\ f[n] \in P /\ c(f[m]) = m /\ c(f[n]) = n /\ m \in Int /\ n \in Int
    BY <1>2
  <2>2. f[n] < f[m] => n < m
    BY <1>4, <2>1
  <2>a. f[m] \in Nat /\ f[n] \in Nat
    BY <1>0, <2>1
  <2>b. f[n] # f[m]
    BY <2>1
  <2>3. f[m] \in Nat /\ f[n] \in Nat /\ f[n] # f[m]
    BY <2>a, <2>b
  <2> HIDE DEF C
  <2> QED
    BY <2>1, <2>2, <2>3
<1>8. \A k \in P : f[c(k)] = k
  <2> TAKE k \in P
  <2>1. f[c(k)] \in P /\ c(f[c(k)]) = c(k)
    BY <1>2, <1>5
  <2>2. c(k) \in Nat /\ f[c(k)] \in Nat /\ k \in Nat
    BY <1>0, <1>3, <2>1
  <2>3. /\ f[c(k)] < k => c(f[c(k)]) < c(k)
        /\ k < f[c(k)] => c(k) < c(f[c(k)])
    BY <1>4, <2>1
  <2> QED
    BY <2>1, <2>2, <2>3
<1>9. Picks(f, P)
  BY <1>5, <1>6, <1>7, <1>8 DEF Picks
<1>10. DOMAIN SubQueue(q, P) = C /\ \A n \in C : SubQueue(q, P)[n] = q[f[n]]
  BY <1>1
<1>11. Picked(q, P)
  BY <1>9, <1>10, Zenon DEF Picked
<1> QED
  BY <1>3, <1>10, <1>11

LEMMA SubQueueTyped ==
    ASSUME NEW S, NEW q \in Seq(S), NEW P, P \subseteq DOMAIN q
    PROVE  SubQueue(q, P) \in Seq(S) /\ Len(SubQueue(q, P)) <= Len(q)
<1>1. Len(q) \in Nat /\ P \subseteq 1 .. Len(q) /\ \A k \in 1 .. Len(q) : q[k] \in S
  OBVIOUS
<1>a. Picked(q, P)
  BY <1>1, SubQueuePicks
<1>2. PICK f : /\ Picks(f, P)
               /\ \A n \in 1 .. Cardinality(P) : SubQueue(q, P)[n] = q[f[n]]
  BY <1>a, Zenon DEF Picked
<1>3. Cardinality(P) \in Nat /\ DOMAIN SubQueue(q, P) = 1 .. Cardinality(P)
  BY <1>1, SubQueuePicks
<1>4. \A n \in 1 .. Cardinality(P) : SubQueue(q, P)[n] \in S
  BY <1>1, <1>2 DEF Picks
<1>5. SubQueue(q, P) = [n \in 1 .. Cardinality(P) |-> SubQueue(q, P)[n]]
  BY <1>3 DEF SubQueue
<1>6. SubQueue(q, P) \in Seq(S)
  BY <1>3, <1>4, <1>5, IsASeq
<1>7. Cardinality(P) <= Len(q)
  <2>1. P \in SUBSET (1 .. Len(q)) /\ IsFiniteSet(1 .. Len(q)) /\ Cardinality(1 .. Len(q)) = Len(q)
    BY <1>1, IntervalSize, Zenon
  <2> QED
    BY <2>1, FS_Subset
<1> QED
  BY <1>3, <1>6, <1>7

(* All positions: the queue itself. *)
LEMMA SubQueueWhole ==
    ASSUME NEW S, NEW q \in Seq(S)
    PROVE  SubQueue(q, DOMAIN q) = q
<1> DEFINE N == Len(q)
           c(k) == Cardinality(UpTo(1 .. N, k))
<1>1. N \in Nat /\ DOMAIN q = 1 .. N /\ Cardinality(1 .. N) = N
  <2>1. N \in Nat /\ DOMAIN q = 1 .. N
    OBVIOUS
  <2>2. Cardinality(1 .. N) = N
    BY <2>1, IntervalSize, Zenon
  <2> QED
    BY <2>1, <2>2
<1>2. \A k \in 1 .. N : c(k) = k
  <2> TAKE k \in 1 .. N
  <2>1. UpTo(1 .. N, k) = 1 .. k
    BY <1>1 DEF UpTo
  <2> QED
    BY <1>1, <2>1, FS_Interval
<1>3. SubQueue(q, DOMAIN q) = [n \in 1 .. N |-> q[CHOOSE k \in 1 .. N : c(k) = n]]
  BY <1>1 DEF SubQueue, UpTo
<1> HIDE DEF c, N
<1>4. \A n \in 1 .. N : (CHOOSE k \in 1 .. N : c(k) = n) = n
  <2> TAKE n \in 1 .. N
  <2>1. \E k \in 1 .. N : c(k) = n
    BY <1>2
  <2>2. PICK m \in 1 .. N : m = (CHOOSE k \in 1 .. N : c(k) = n) /\ c(m) = n
    BY <2>1
  <2> QED
    BY <1>2, <2>2
<1>5. SubQueue(q, DOMAIN q) = [n \in 1 .. N |-> q[n]]
  BY <1>3, <1>4
<1> QED
  BY <1>1, <1>5 DEF N

-----------------------------------------------------------------------------
(* The reorder buffer, call by call. *)

LEMMA CompleteRing ==
    ASSUME NEW r, Ring(r), NEW i \in Index, InWindow(r, i)
    PROVE  LET s == Complete(r, i)
           IN  /\ Ring(s) /\ s.head = r.head /\ s.tail = r.tail /\ s.count = r.count
               /\ \A j \in Index : /\ Position(s, j) = Position(r, j)
                                   /\ InWindow(s, j) <=> InWindow(r, j)
                                   /\ s.slot[j].data = r.slot[j].data
                                   /\ Pending(s, j) <=> Pending(r, j) /\ j # i
<1> DEFINE s == Complete(r, i)
<1>1. /\ s.head = r.head /\ s.tail = r.tail /\ s.count = r.count /\ DOMAIN s.slot = Index
      /\ r.slot[i].valid = TRUE
      /\ \A j \in Index : s.slot[j] = IF j = i
                                      THEN [valid |-> TRUE, completed |-> TRUE,
                                            data |-> r.slot[i].data]
                                      ELSE r.slot[j]
  BY DEF Complete, Ring
<1>2. \A j \in Index : Position(s, j) = Position(r, j) /\ (InWindow(s, j) <=> InWindow(r, j))
  BY <1>1 DEF Position, InWindow
<1>3. InOrder(s)
  BY <1>1 DEF Ring, InOrder
<1> HIDE DEF s
<1>4. Ring(s)
  <2>1. \A j \in Index : ~InWindow(s, j) => s.slot[j] = EmptyEntry
    BY <1>1, <1>2 DEF Ring
  <2>2. \A j \in Index : InWindow(s, j) => /\ s.slot[j].valid = TRUE
                                           /\ s.slot[j].completed \in BOOLEAN
                                           /\ DataOK(s.slot[j].data)
    <3> TAKE j \in Index
    <3>1. CASE j = i
      <4>1. DataOK(r.slot[i].data)
        BY DEF Ring
      <4>2. /\ s.slot[i].valid = TRUE /\ s.slot[i].completed = TRUE
            /\ s.slot[i].data = r.slot[i].data
        BY <1>1
      <4> QED
        BY <3>1, <4>1, <4>2
    <3>2. CASE j # i
      BY <1>1, <1>2, <3>2 DEF Ring
    <3> QED
      BY <3>1, <3>2
  <2> QED
    BY <1>3, <2>1, <2>2 DEF Ring
<1>5. \A j \in Index : Pending(s, j) <=> Pending(r, j) /\ j # i
  BY <1>1, <1>2 DEF Pending
<1>6. \A j \in Index : s.slot[j].data = r.slot[j].data
  BY <1>1
<1> QED
  BY <1>1, <1>2, <1>4, <1>5, <1>6 DEF s

LEMMA AllocateRing ==
    ASSUME NEW r, Ring(r), ~Full(r), NEW d, DataOK(d)
    PROVE  LET s == Allocate(r, d)
           IN  /\ Ring(s) /\ s.head = r.head /\ s.count = r.count + 1
               /\ r.tail \in Index /\ ~InWindow(r, r.tail) /\ Position(r, r.tail) = r.count
               /\ s.slot[r.tail].data = d
               /\ \A j \in Index : /\ Position(s, j) = Position(r, j)
                                   /\ InWindow(s, j) <=> InWindow(r, j) \/ j = r.tail
                                   /\ j # r.tail => s.slot[j] = r.slot[j]
                                   /\ Pending(s, j) <=> Pending(r, j) \/ j = r.tail
<1> DEFINE s == Allocate(r, d)
<1>1. /\ ~InWindow(r, r.tail) /\ Position(r, r.tail) = r.count
      /\ InOrder(s) /\ s.count = r.count + 1 /\ s.head = r.head
      /\ \A i \in Index : /\ Position(s, i) = Position(r, i)
                          /\ InWindow(s, i) <=> InWindow(r, i) \/ i = r.tail
                          /\ i # r.tail => s.slot[i] = r.slot[i]
      /\ s.slot[r.tail] = [valid |-> TRUE, completed |-> FALSE, data |-> d]
  BY AllocateAges DEF Ring
<1>2. r.tail \in Index
  BY DEF Ring, InOrder
<1> HIDE DEF s
<1>3. Ring(s)
  <2>1. \A j \in Index : ~InWindow(s, j) => s.slot[j] = EmptyEntry
    BY <1>1, <1>2 DEF Ring
  <2>2. \A j \in Index : InWindow(s, j) => /\ s.slot[j].valid = TRUE
                                           /\ s.slot[j].completed \in BOOLEAN
                                           /\ DataOK(s.slot[j].data)
    <3> TAKE j \in Index
    <3>1. CASE j = r.tail
      <4>1. /\ s.slot[r.tail].valid = TRUE /\ s.slot[r.tail].completed = FALSE
            /\ s.slot[r.tail].data = d
        BY <1>1
      <4> QED
        BY <3>1, <4>1
    <3>2. CASE j # r.tail
      BY <1>1, <1>2, <3>2 DEF Ring
    <3> QED
      BY <3>1, <3>2
  <2> QED
    BY <1>1, <2>1, <2>2 DEF Ring
<1>4. \A j \in Index : Pending(s, j) <=> Pending(r, j) \/ j = r.tail
  BY <1>1, <1>2 DEF Pending
<1> QED
  BY <1>1, <1>2, <1>3, <1>4 DEF s

LEMMA CommitRing ==
    ASSUME NEW r, Ring(r), CanCommit(r)
    PROVE  LET s == Commit(r)
           IN  /\ Ring(s) /\ s.count = r.count - 1 /\ r.head \in Index
               /\ InWindow(r, r.head) /\ Position(r, r.head) = 0
               /\ \A j \in Index : /\ InWindow(s, j) <=> InWindow(r, j) /\ j # r.head
                                   /\ j # r.head => /\ Position(s, j) = Position(r, j) - 1
                                                    /\ s.slot[j] = r.slot[j]
                                   /\ Pending(s, j) <=> Pending(r, j)
<1> DEFINE s == Commit(r)
<1>1. /\ InWindow(r, r.head) /\ Position(r, r.head) = 0
      /\ InOrder(s) /\ s.count = r.count - 1
      /\ \A i \in Index : /\ InWindow(s, i) <=> InWindow(r, i) /\ i # r.head
                          /\ i # r.head => /\ Position(s, i) = Position(r, i) - 1
                                           /\ s.slot[i] = r.slot[i]
      /\ s.slot[r.head] = EmptyEntry
  BY CommitAges DEF Ring, CanCommit
<1>2. r.head \in Index /\ r.slot[r.head].completed
  BY DEF Ring, InOrder, CanCommit
<1> HIDE DEF s
<1>3. Ring(s)
  BY <1>1, <1>2 DEF Ring
<1>4. \A j \in Index : Pending(s, j) <=> Pending(r, j)
  BY <1>1, <1>2 DEF Pending
<1> QED
  BY <1>1, <1>2, <1>3, <1>4 DEF s

LEMMA SquashRing ==
    ASSUME NEW r, Ring(r), NEW b \in Index, InWindow(r, b)
    PROVE  LET s == SquashYoungerThan(r, b)
           IN  /\ Ring(s) /\ s.count = Position(r, b) + 1 /\ s.head = r.head
               /\ \A j \in Index :
                     /\ Position(s, j) = Position(r, j)
                     /\ InWindow(s, j) <=> InWindow(r, j) /\ Position(r, j) <= Position(r, b)
                     /\ InWindow(s, j) <=> InWindow(r, j) /\ j \notin Younger(r, b)
                     /\ InWindow(s, j) => s.slot[j] = r.slot[j]
                     /\ Pending(s, j) <=> Pending(r, j) /\ j \notin Younger(r, b)
<1> DEFINE s == SquashYoungerThan(r, b)
<1>1. /\ InOrder(s) /\ s.count = Position(r, b) + 1 /\ s.head = r.head
      /\ \A i \in Index :
            /\ Position(s, i) = Position(r, i)
            /\ InWindow(s, i) <=> InWindow(r, i) /\ Position(r, i) <= Position(r, b)
            /\ s.slot[i] = IF i \in Younger(r, b) THEN EmptyEntry ELSE r.slot[i]
  BY SquashAges DEF Ring
<1>2. \A i \in Index : Position(r, i) \in Int
  BY PositionValue DEF Ring, InOrder, Index
<1> HIDE DEF s
<1>3. \A j \in Index : InWindow(s, j) <=> InWindow(r, j) /\ j \notin Younger(r, b)
  BY <1>1, <1>2 DEF Younger
<1>4. Ring(s)
  BY <1>1, <1>3 DEF Ring
<1>5. \A j \in Index : /\ InWindow(s, j) => s.slot[j] = r.slot[j]
                       /\ Pending(s, j) <=> Pending(r, j) /\ j \notin Younger(r, b)
  BY <1>1, <1>3 DEF Pending
<1> QED
  BY <1>1, <1>3, <1>4, <1>5 DEF s

-----------------------------------------------------------------------------
(* The issue queue against a reorder buffer in which the pending slots      *)
(* change from r to s.                                                      *)
SameData(r, s) == \A j \in Index : Pending(s, j) /\ Pending(r, j) => s.slot[j].data = r.slot[j].data

LEMMA ValidEntry ==
    ASSUME NEW q, NEW r, Linked(q, r), NEW i \in IQSlot, q[i].valid
    PROVE  q[i] \in EntrySet /\ q[i].rob \in Index
<1>1. q[i] \in EntrySet
  BY DEF Linked, FreeSlot
<1> QED
  BY <1>1 DEF EntrySet

LEMMA LinkedSame ==
    ASSUME NEW q, NEW r, Linked(q, r), NEW s, SameData(r, s),
           \A j \in Index : Pending(s, j) <=> Pending(r, j)
    PROVE  Linked(q, s)
<1>1. \A i \in IQSlot : q[i].valid => q[i].rob \in Index
  BY ValidEntry
<1> QED
  BY <1>1 DEF Linked, SameData

LEMMA LinkedRemove ==
    ASSUME NEW q, NEW r, Linked(q, r), NEW s, SameData(r, s), NEW i \in IQSlot, q[i].valid,
           \A j \in Index : Pending(s, j) <=> Pending(r, j) /\ j # q[i].rob
    PROVE  Linked(RemoveSlot(q, i), s)
<1> DEFINE p == RemoveSlot(q, i)
<1>1. /\ p \in [IQSlot -> EntrySet \cup {FreeSlot}]
      /\ \A k \in IQSlot : p[k].valid <=> q[k].valid /\ k # i
      /\ \A k \in IQSlot : k # i => p[k] = q[k]
  BY DEF Linked, RemoveSlot, FreeSlot
<1>2. \A k \in IQSlot : q[k].valid => q[k].rob \in Index
  BY ValidEntry
<1> HIDE DEF p
<1>3. Linked(p, s)
  BY <1>1, <1>2 DEF Linked, SameData
<1> QED
  BY <1>3 DEF p

LEMMA LinkedSquash ==
    ASSUME NEW q, NEW r, Linked(q, r), NEW s, SameData(r, s), NEW Y,
           \A j \in Index : Pending(s, j) <=> Pending(r, j) /\ j \notin Y
    PROVE  Linked(IQSquash(q, Y), s)
<1> DEFINE p == IQSquash(q, Y)
<1>1. /\ p \in [IQSlot -> EntrySet \cup {FreeSlot}]
      /\ \A k \in IQSlot : p[k].valid <=> q[k].valid /\ q[k].rob \notin Y
      /\ \A k \in IQSlot : p[k].valid => p[k] = q[k]
  BY DEF Linked, IQSquash, FreeSlot
<1>2. \A k \in IQSlot : q[k].valid => q[k].rob \in Index
  BY ValidEntry
<1> HIDE DEF p
<1>3. Linked(p, s)
  BY <1>1, <1>2 DEF Linked, SameData
<1> QED
  BY <1>3 DEF p

LEMMA InsertSlot ==
    ASSUME NEW q, ~IQFull(q), NEW r, Linked(q, r)
    PROVE  /\ Min({i \in IQSlot : ~q[i].valid}) \in IQSlot
           /\ ~q[Min({i \in IQSlot : ~q[i].valid})].valid
<1> DEFINE S == {i \in IQSlot : ~q[i].valid}
<1>1. S \subseteq Nat /\ S # {}
  BY SizeAssumption DEF IQSlot, IQFull
<1>2. Min(S) \in S
  BY <1>1, MinIsLeast
<1> QED
  BY <1>2

LEMMA LinkedInsert ==
    ASSUME NEW q, ~IQFull(q), NEW r, Linked(q, r), NEW s, SameData(r, s),
           NEW e \in EntrySet, ~Pending(r, e.rob), Describes(e, s.slot[e.rob].data),
           \A j \in Index : Pending(s, j) <=> Pending(r, j) \/ j = e.rob
    PROVE  Linked(Insert(q, e), s)
<1> DEFINE f == Min({i \in IQSlot : ~q[i].valid})
           p == Insert(q, e)
<1>1. f \in IQSlot /\ ~q[f].valid
  BY InsertSlot
<1>2. e.valid /\ e.rob \in Index
  BY DEF EntrySet
<1>3. \A k \in IQSlot : q[k].valid => q[k].rob \in Index /\ q[k].rob # e.rob
  BY ValidEntry DEF Linked
<1>4. p = [q EXCEPT ![f] = e]
  BY DEF Insert
<1> HIDE DEF f, p
<1>5. /\ p \in [IQSlot -> EntrySet \cup {FreeSlot}]
      /\ \A k \in IQSlot : p[k] = IF k = f THEN e ELSE q[k]
  BY <1>1, <1>4 DEF Linked
<1>6. \A i \in IQSlot : p[i].valid => Pending(s, p[i].rob) /\ Describes(p[i], s.slot[p[i].rob].data)
  BY <1>1, <1>2, <1>3, <1>5 DEF Linked, SameData
<1>7. \A t \in Index : Pending(s, t) => \E i \in IQSlot : p[i].valid /\ p[i].rob = t
  <2> SUFFICES ASSUME NEW t \in Index, Pending(s, t)
               PROVE  \E i \in IQSlot : p[i].valid /\ p[i].rob = t
    OBVIOUS
  <2>1. CASE t = e.rob
    BY <1>1, <1>2, <1>5, <2>1
  <2>2. CASE t # e.rob
    <3>1. PICK i \in IQSlot : q[i].valid /\ q[i].rob = t
      BY <2>2 DEF Linked
    <3> QED
      BY <1>1, <1>5, <3>1
  <2> QED
    BY <2>1, <2>2
<1>8. \A i, j \in IQSlot : p[i].valid /\ p[j].valid /\ p[i].rob = p[j].rob => i = j
  BY <1>1, <1>2, <1>3, <1>5 DEF Linked
<1>9. Linked(p, s)
  BY <1>5, <1>6, <1>7, <1>8 DEF Linked
<1> QED
  BY <1>9 DEF p

Woken(e, p, v) == [e EXCEPT !.op1 = Waked(@, p, v), !.op2 = Waked(@, p, v)]

LEMMA WokenEntry ==
    ASSUME NEW e \in EntrySet, NEW p \in Physical, NEW v \in Word
    PROVE  /\ Woken(e, p, v) \in EntrySet /\ Woken(e, p, v).valid
           /\ Woken(e, p, v).rob = e.rob /\ Woken(e, p, v).pc = e.pc
           /\ Woken(e, p, v).ins = e.ins /\ Woken(e, p, v).prd = e.prd
           /\ Woken(e, p, v).op1 = Waked(e.op1, p, v) /\ Woken(e, p, v).op2 = Waked(e.op2, p, v)
           /\ Woken(e, p, v).predTaken = e.predTaken /\ Woken(e, p, v).predTarget = e.predTarget
<1>1. Waked(e.op1, p, v) \in OperandSet /\ Waked(e.op2, p, v) \in OperandSet
  BY DEF EntrySet, OperandSet, Waked
<1> QED
  BY <1>1 DEF EntrySet, Woken

LEMMA WakeupEntries ==
    ASSUME NEW q, NEW r, Linked(q, r), NEW p \in Physical, NEW v \in Word
    PROVE  LET w == Wakeup(q, p, v)
           IN  /\ w \in [IQSlot -> EntrySet \cup {FreeSlot}]
               /\ \A i \in IQSlot :
                     /\ w[i].valid <=> q[i].valid
                     /\ q[i].valid => /\ w[i].rob = q[i].rob /\ w[i].pc = q[i].pc
                                      /\ w[i].ins = q[i].ins /\ w[i].prd = q[i].prd
                                      /\ w[i].op1 = Waked(q[i].op1, p, v)
                                      /\ w[i].op2 = Waked(q[i].op2, p, v)
                                      /\ w[i].predTaken = q[i].predTaken
                                      /\ w[i].predTarget = q[i].predTarget
<1> DEFINE w == Wakeup(q, p, v)
<1>1. \A i \in IQSlot : q[i] \in EntrySet \cup {FreeSlot} /\ (q[i].valid => q[i] \in EntrySet)
  BY ValidEntry DEF Linked
<1>2. w = [i \in IQSlot |-> IF q[i].valid
                            THEN [q[i] EXCEPT !.op1 = Waked(@, p, v), !.op2 = Waked(@, p, v)]
                            ELSE q[i]]
  BY DEF Wakeup
<1>3. \A i \in IQSlot : q[i].valid =>
         /\ w[i] \in EntrySet /\ w[i].valid
         /\ w[i].rob = q[i].rob /\ w[i].pc = q[i].pc
         /\ w[i].ins = q[i].ins /\ w[i].prd = q[i].prd
         /\ w[i].op1 = Waked(q[i].op1, p, v) /\ w[i].op2 = Waked(q[i].op2, p, v)
         /\ w[i].predTaken = q[i].predTaken /\ w[i].predTarget = q[i].predTarget
  <2> SUFFICES ASSUME NEW i \in IQSlot, q[i].valid
               PROVE  /\ w[i] \in EntrySet /\ w[i].valid
                      /\ w[i].rob = q[i].rob /\ w[i].pc = q[i].pc
                      /\ w[i].ins = q[i].ins /\ w[i].prd = q[i].prd
                      /\ w[i].op1 = Waked(q[i].op1, p, v) /\ w[i].op2 = Waked(q[i].op2, p, v)
                      /\ w[i].predTaken = q[i].predTaken /\ w[i].predTarget = q[i].predTarget
    OBVIOUS
  <2> DEFINE e == q[i]
  <2>1. e \in EntrySet
    BY <1>1
  <2>2. w[i] = Woken(e, p, v)
    BY <1>2 DEF Woken
  <2> HIDE DEF w, e
  <2>3. /\ Woken(e, p, v) \in EntrySet /\ Woken(e, p, v).valid
        /\ Woken(e, p, v).rob = e.rob /\ Woken(e, p, v).pc = e.pc
        /\ Woken(e, p, v).ins = e.ins /\ Woken(e, p, v).prd = e.prd
        /\ Woken(e, p, v).op1 = Waked(e.op1, p, v) /\ Woken(e, p, v).op2 = Waked(e.op2, p, v)
        /\ Woken(e, p, v).predTaken = e.predTaken /\ Woken(e, p, v).predTarget = e.predTarget
    BY <2>1, WokenEntry
  <2> QED
    BY <2>2, <2>3, Zenon DEF e
<1>4. \A i \in IQSlot : ~q[i].valid => w[i] = q[i]
  BY <1>2
<1>a. \A i \in IQSlot : w[i].valid <=> q[i].valid
  BY <1>1, <1>3, <1>4
<1>5. w \in [IQSlot -> EntrySet \cup {FreeSlot}]
  <2>1. \A i \in IQSlot : w[i] \in EntrySet \cup {FreeSlot}
    BY <1>1, <1>3, <1>4
  <2> QED
    BY <1>2, <2>1
<1> HIDE DEF w
<1> QED
  BY <1>3, <1>5, <1>a DEF w

LEMMA LinkedWakeup ==
    ASSUME NEW q, NEW r, Linked(q, r), NEW p \in Physical, NEW v \in Word
    PROVE  Linked(Wakeup(q, p, v), r)
<1> DEFINE w == Wakeup(q, p, v)
<1>1. /\ w \in [IQSlot -> EntrySet \cup {FreeSlot}]
      /\ \A i \in IQSlot :
            /\ w[i].valid <=> q[i].valid
            /\ q[i].valid => w[i].rob = q[i].rob /\ w[i].pc = q[i].pc /\ w[i].ins = q[i].ins /\ w[i].prd = q[i].prd
  BY WakeupEntries
<1> HIDE DEF w
<1>2. Linked(w, r)
  BY <1>1 DEF Linked, Describes
<1> QED
  BY <1>2 DEF w

-----------------------------------------------------------------------------
(* The load/store queue and the store buffer. *)

LEMMA FindEntry ==
    ASSUME NEW S, NEW q \in Seq(S), NEW r
    PROVE  /\ FindStore(q, r) = Find(q, r)
           /\ Find(q, r) \in 0 .. Len(q)
           /\ Find(q, r) = 0 => \A k \in 1 .. Len(q) : q[k].rob # r
           /\ Find(q, r) # 0 => /\ q[Find(q, r)].rob = r
                                /\ \A k \in 1 .. Len(q) : q[k].rob = r => Find(q, r) <= k
<1> DEFINE I == {k \in 1 .. Len(q) : q[k].rob = r}
<1>1. Find(q, r) = IF I # {} THEN Min(I) ELSE 0
  BY DEF Find, SelectInSeq
<1>2. FindStore(q, r) = Find(q, r)
  BY DEF Find, FindStore
<1>3. CASE I = {}
  BY <1>1, <1>2, <1>3
<1>4. CASE I # {}
  <2>1. I \subseteq Nat
    OBVIOUS
  <2>2. Min(I) \in I /\ \A y \in I : Min(I) <= y
    BY <1>4, <2>1, MinIsLeast
  <2> QED
    BY <1>1, <1>2, <1>4, <2>2
<1> QED
  BY <1>3, <1>4

LEMMA RemoveAtEntries ==
    ASSUME NEW S, NEW q \in Seq(S), NEW i \in 1 .. Len(q)
    PROVE  /\ RemoveAt(q, i) \in Seq(S)
           /\ Len(RemoveAt(q, i)) = Len(q) - 1
           /\ \A k \in 1 .. Len(q) - 1 :
                 RemoveAt(q, i)[k] = IF k < i THEN q[k] ELSE q[k + 1]
<1> DEFINE a == SubSeq(q, 1, i - 1)
           b == SubSeq(q, i + 1, Len(q))
<1>1. /\ a \in Seq(S) /\ Len(a) = i - 1
      /\ \A k \in 1 .. i - 1 : a[k] = q[k]
  BY SubSeqProperties
<1>2. /\ b \in Seq(S) /\ Len(b) = Len(q) - i
      /\ \A k \in 1 .. Len(q) - i : b[k] = q[i + k]
  <2>1. /\ b \in Seq(S)
        /\ Len(b) = IF i + 1 <= Len(q) THEN Len(q) - (i + 1) + 1 ELSE 0
        /\ \A k \in 1 .. Len(b) : b[k] = q[i + 1 + k - 1]
    BY SubSeqProperties
  <2> HIDE DEF b
  <2> QED
    BY <2>1
<1>3. RemoveAt(q, i) = a \o b
  BY DEF RemoveAt
<1> HIDE DEF a, b
<1>4. /\ a \o b \in Seq(S) /\ Len(a \o b) = Len(q) - 1
      /\ \A k \in 1 .. Len(q) - 1 : (a \o b)[k] = IF k <= i - 1 THEN a[k] ELSE b[k - (i - 1)]
  <2>1. /\ a \o b \in Seq(S) /\ Len(a \o b) = Len(a) + Len(b)
        /\ \A k \in 1 .. Len(a) + Len(b) :
              (a \o b)[k] = IF k <= Len(a) THEN a[k] ELSE b[k - Len(a)]
    BY <1>1, <1>2, ConcatProperties
  <2>2. Len(a) + Len(b) = Len(q) - 1
    BY <1>1, <1>2
  <2> QED
    BY <1>1, <2>1, <2>2
<1>5. ASSUME NEW k \in 1 .. Len(q) - 1
      PROVE  (a \o b)[k] = IF k < i THEN q[k] ELSE q[k + 1]
  <2>1. CASE k < i
    BY <1>1, <1>4, <2>1
  <2>2. CASE ~(k < i)
    <3>1. k - (i - 1) \in 1 .. Len(q) - i /\ i + (k - (i - 1)) = k + 1
      BY <2>2
    <3> QED
      BY <1>2, <1>4, <2>2, <3>1
  <2> QED
    BY <2>1, <2>2
<1> QED
  BY <1>3, <1>4, <1>5

(* A call that finds its entry changes no other one, and leaves the slot    *)
(* and the type of that one alone.                                          *)
EntriesKept(q, t) == /\ Len(t) = Len(q)
                     /\ \A k \in 1 .. Len(q) : t[k].rob = q[k].rob

LEMMA SetAddressEntries ==
    ASSUME NEW q \in Seq(LoadStoreSet), NEW r, NEW a \in Word
    PROVE  LET t == SetAddress(q, r, a)
           IN  /\ t \in Seq(LoadStoreSet) /\ EntriesKept(q, t)
               /\ \A k \in 1 .. Len(q) :
                     IF k = Find(q, r)
                     THEN /\ t[k].type = q[k].type /\ t[k].addr = a /\ t[k].data = q[k].data
                          /\ t[k].executed <=> q[k].executed
                     ELSE t[k] = q[k]
<1> DEFINE i == Find(q, r)
           t == SetAddress(q, r, a)
<1>1. i \in 0 .. Len(q)
  BY FindEntry
<1>2. CASE i = 0
  BY <1>2 DEF SetAddress, EntriesKept
<1>3. CASE i # 0
  <2> DEFINE e == [q[i] EXCEPT !.addr = a]
  <2>1. i \in 1 .. Len(q) /\ q[i] \in LoadStoreSet
    BY <1>1, <1>3
  <2>2. /\ e \in LoadStoreSet /\ e.rob = q[i].rob /\ e.type = q[i].type /\ e.addr = a
        /\ e.data = q[i].data /\ (e.executed <=> q[i].executed)
    BY <2>1 DEF LoadStoreSet
  <2>3. t = [q EXCEPT ![i] = e]
    BY <1>3 DEF SetAddress
  <2> HIDE DEF e, t, i
  <2>4. /\ t \in Seq(LoadStoreSet) /\ Len(t) = Len(q)
        /\ \A k \in 1 .. Len(q) : t[k] = IF k = i THEN e ELSE q[k]
    BY <2>1, <2>2, <2>3, ExceptSeq
  <2> QED
    BY <2>2, <2>4 DEF EntriesKept, t, i
<1> QED
  BY <1>2, <1>3

LEMMA SetStoreDataEntries ==
    ASSUME NEW q \in Seq(LoadStoreSet), NEW r, NEW d \in Word
    PROVE  LET t == SetStoreData(q, r, d)
           IN  /\ t \in Seq(LoadStoreSet) /\ EntriesKept(q, t)
               /\ \A k \in 1 .. Len(q) :
                     IF k = Find(q, r)
                     THEN /\ t[k].type = q[k].type /\ t[k].addr = q[k].addr
                          /\ t[k].executed
                          /\ t[k].data = IF q[k].type = "STORE" THEN d ELSE q[k].data
                     ELSE t[k] = q[k]
<1> DEFINE i == Find(q, r)
           t == SetStoreData(q, r, d)
<1>1. i \in 0 .. Len(q)
  BY FindEntry
<1>2. CASE i = 0
  BY <1>2 DEF SetStoreData, EntriesKept
<1>3. CASE i # 0
  <2> DEFINE e == [q[i] EXCEPT !.executed = TRUE,
                               !.data = IF q[i].type = "STORE" THEN d ELSE q[i].data]
  <2>1. i \in 1 .. Len(q) /\ q[i] \in LoadStoreSet
    BY <1>1, <1>3
  <2>2. /\ e \in LoadStoreSet /\ e.rob = q[i].rob /\ e.type = q[i].type /\ e.addr = q[i].addr
        /\ e.data = (IF q[i].type = "STORE" THEN d ELSE q[i].data) /\ e.executed
    BY <2>1 DEF LoadStoreSet
  <2>3. t = [q EXCEPT ![i] = e]
    BY <1>3 DEF SetStoreData
  <2> HIDE DEF e, t, i
  <2>4. /\ t \in Seq(LoadStoreSet) /\ Len(t) = Len(q)
        /\ \A k \in 1 .. Len(q) : t[k] = IF k = i THEN e ELSE q[k]
    BY <2>1, <2>2, <2>3, ExceptSeq
  <2> QED
    BY <2>2, <2>4 DEF EntriesKept, t, i
<1> QED
  BY <1>2, <1>3

LEMMA CompleteLoadEntries ==
    ASSUME NEW q \in Seq(LoadStoreSet), NEW r, NEW d \in Word
    PROVE  LET t == CompleteLoad(q, r, d)
           IN  /\ t \in Seq(LoadStoreSet) /\ EntriesKept(q, t)
               /\ \A k \in 1 .. Len(q) :
                     IF k = Find(q, r)
                     THEN /\ t[k].type = q[k].type /\ t[k].addr = q[k].addr
                          /\ t[k].executed
                          /\ t[k].data = IF q[k].type = "LOAD" THEN d ELSE q[k].data
                     ELSE t[k] = q[k]
<1> DEFINE i == Find(q, r)
           t == CompleteLoad(q, r, d)
<1>1. i \in 0 .. Len(q)
  BY FindEntry
<1>2. CASE i = 0
  BY <1>2 DEF CompleteLoad, EntriesKept
<1>3. CASE i # 0
  <2> DEFINE e == [q[i] EXCEPT !.executed = TRUE,
                               !.data = IF q[i].type = "LOAD" THEN d ELSE q[i].data]
  <2>1. i \in 1 .. Len(q) /\ q[i] \in LoadStoreSet
    BY <1>1, <1>3
  <2>2. /\ e \in LoadStoreSet /\ e.rob = q[i].rob /\ e.type = q[i].type /\ e.addr = q[i].addr
        /\ e.data = (IF q[i].type = "LOAD" THEN d ELSE q[i].data) /\ e.executed
    BY <2>1 DEF LoadStoreSet
  <2>3. t = [q EXCEPT ![i] = e]
    BY <1>3 DEF CompleteLoad
  <2> HIDE DEF e, t, i
  <2>4. /\ t \in Seq(LoadStoreSet) /\ Len(t) = Len(q)
        /\ \A k \in 1 .. Len(q) : t[k] = IF k = i THEN e ELSE q[k]
    BY <2>1, <2>2, <2>3, ExceptSeq
  <2> QED
    BY <2>2, <2>4 DEF EntriesKept, t, i
<1> QED
  BY <1>2, <1>3

LEMMA SBUpdateEntries ==
    ASSUME NEW b \in Seq(StoreSet), NEW r, NEW a \in Word, NEW d \in Word
    PROVE  LET t == SBUpdate(b, r, a, d)
           IN  /\ t \in Seq(StoreSet) /\ EntriesKept(b, t)
               /\ \A k \in 1 .. Len(b) :
                     IF k = Find(b, r)
                     THEN t[k].addr = a /\ t[k].data = d /\ t[k].ready
                     ELSE t[k] = b[k]
               /\ \A k \in 1 .. Len(b) : t[k].committed <=> b[k].committed
<1> DEFINE i == Find(b, r)
           t == SBUpdate(b, r, a, d)
<1>1. i \in 0 .. Len(b) /\ FindStore(b, r) = i
  BY FindEntry
<1>2. CASE i = 0
  BY <1>1, <1>2 DEF SBUpdate, EntriesKept
<1>3. CASE i # 0
  <2> DEFINE e == [b[i] EXCEPT !.addr = a, !.data = d, !.ready = TRUE]
  <2>1. i \in 1 .. Len(b) /\ b[i] \in StoreSet
    BY <1>1, <1>3
  <2>2. /\ e \in StoreSet /\ e.rob = b[i].rob /\ e.addr = a /\ e.data = d /\ e.ready
        /\ e.committed <=> b[i].committed
    BY <2>1 DEF StoreSet
  <2>3. t = [b EXCEPT ![i] = e]
    BY <1>1, <1>3 DEF SBUpdate
  <2> HIDE DEF e, t, i
  <2>4. /\ t \in Seq(StoreSet) /\ Len(t) = Len(b)
        /\ \A k \in 1 .. Len(b) : t[k] = IF k = i THEN e ELSE b[k]
    BY <2>1, <2>2, <2>3, ExceptSeq
  <2> QED
    BY <2>2, <2>4 DEF EntriesKept, t, i
<1> QED
  BY <1>2, <1>3

LEMMA MarkCommittedEntries ==
    ASSUME NEW b \in Seq(StoreSet), NEW r
    PROVE  LET t == MarkCommitted(b, r)
           IN  /\ t \in Seq(StoreSet) /\ EntriesKept(b, t)
               /\ \A k \in 1 .. Len(b) :
                     IF k = Find(b, r)
                     THEN /\ t[k].addr = b[k].addr /\ t[k].data = b[k].data
                          /\ t[k].ready <=> b[k].ready
                          /\ t[k].committed
                     ELSE t[k] = b[k]
<1> DEFINE i == Find(b, r)
           t == MarkCommitted(b, r)
<1>1. i \in 0 .. Len(b) /\ FindStore(b, r) = i
  BY FindEntry
<1>2. CASE i = 0
  BY <1>1, <1>2 DEF MarkCommitted, EntriesKept
<1>3. CASE i # 0
  <2> DEFINE e == [b[i] EXCEPT !.committed = TRUE]
  <2>1. i \in 1 .. Len(b) /\ b[i] \in StoreSet
    BY <1>1, <1>3
  <2>2. /\ e \in StoreSet /\ e.rob = b[i].rob /\ e.addr = b[i].addr /\ e.data = b[i].data
        /\ (e.ready <=> b[i].ready) /\ e.committed
    BY <2>1 DEF StoreSet
  <2>3. t = [b EXCEPT ![i] = e]
    BY <1>1, <1>3 DEF MarkCommitted
  <2> HIDE DEF e, t, i
  <2>4. /\ t \in Seq(StoreSet) /\ Len(t) = Len(b)
        /\ \A k \in 1 .. Len(b) : t[k] = IF k = i THEN e ELSE b[k]
    BY <2>1, <2>2, <2>3, ExceptSeq
  <2> QED
    BY <2>2, <2>4 DEF EntriesKept, t, i
<1> QED
  BY <1>2, <1>3

-----------------------------------------------------------------------------
(* Words, instructions and memories. *)

LEMMA WordOf ==
    ASSUME NEW x \in Int
    PROVE  x % WordMod \in Word
BY SizeAssumption DEF Word

LEMMA PcOf ==
    ASSUME NEW x \in Int
    PROVE  x % PcMod \in PcValue
BY SizeAssumption DEF PcValue

LEMMA WordIsInt == Word \subseteq Int /\ 0 \in Word /\ Unknown \notin Word
BY SizeAssumption DEF Word, Unknown

LEMMA ZeroTyped == 0 \in PcValue /\ 0 \in Register /\ 0 \in Physical /\ Register \subseteq Physical
BY SizeAssumption DEF PcValue, Register, Physical

LEMMA NopTyped == Nop \in Instruction
BY ZeroTyped DEF Nop, Instr, Instruction, Opcode

LEMMA AluTyped ==
    ASSUME NEW ins \in Instruction, ins.op \in AluOps, NEW a \in Word, NEW b \in Word
    PROVE  AluResult(ins, a, b) \in Word
<1>1. a \in Int /\ b \in Int /\ WordMod \in Int /\ ins.imm \in Int
  BY WordIsInt, SizeAssumption DEF Instruction
<1>2. /\ (a + b) % WordMod \in Word /\ (a - b) % WordMod \in Word
      /\ ins.imm % WordMod \in Word /\ (a + ins.imm) % WordMod \in Word
  <2>1. a + b \in Int /\ a - b \in Int /\ a + ins.imm \in Int
    BY <1>1
  <2> QED
    BY <1>1, <2>1, WordOf
<1>3. WordMod - 1 - a \in Word
  BY SizeAssumption DEF Word
<1>4. BitAnd(a, b) \in Word /\ BitOr(a, b) \in Word /\ BitXor(a, b) \in Word
  BY BitwiseAssumption
<1> QED
  BY <1>2, <1>3, <1>4 DEF AluResult, AluOps, TwoSourceAlu

LEMMA AddressTyped ==
    ASSUME NEW ins \in Instruction, NEW a \in Word
    PROVE  EffectiveAddress(ins, a) \in Word
<1>1. a + ins.imm \in Int
  BY WordIsInt DEF Instruction
<1> QED
  BY <1>1, WordOf DEF EffectiveAddress

LEMMA TargetTyped ==
    ASSUME NEW ins \in Instruction, NEW pc \in PcValue
    PROVE  Target(ins, pc) \in PcValue
<1>1. pc + TargetBase + ins.imm \in Int /\ ins.imm \in Int
  BY SizeAssumption DEF Instruction, PcValue
<1> QED
  BY <1>1, PcOf DEF Target

LEMMA TakenTyped ==
    ASSUME NEW ins, ins.op \in BranchOps, NEW a, NEW b
    PROVE  Taken(ins, a, b) \in BOOLEAN
BY DEF Taken, BranchOps

LEMMA ReadTyped ==
    ASSUME NEW m \in [0 .. DMemWords - 1 -> Word], NEW x
    PROVE  Meaning!ReadData(m, x) \in Word
BY WordIsInt DEF Meaning!ReadData

LEMMA WriteTyped ==
    ASSUME NEW m \in [0 .. DMemWords - 1 -> Word], NEW x, NEW v \in Word
    PROVE  Meaning!WriteData(m, x, v) \in [0 .. DMemWords - 1 -> Word]
BY DEF Meaning!WriteData

LEMMA FetchedTyped ==
    ASSUME rom \in Programs, NEW p
    PROVE  Meaning!InstructionAt(rom, p) \in Instruction
BY ProgramsAssumption, NopTyped DEF Meaning!InstructionAt, Meaning!Nop, Nop, Meaning!Instr, Instr

LEMMA PredictionTyped ==
    ASSUME NEW bp \in [0 .. BPTableSize - 1 -> PredictionSet], NEW pc \in PcValue
    PROVE  /\ Predict(bp, pc) \in [taken : BOOLEAN, target : PcValue, hit : BOOLEAN]
           /\ \A taken \in BOOLEAN, target \in PcValue :
                 Update(bp, pc, taken, target) \in [0 .. BPTableSize - 1 -> PredictionSet]
<1>1. Hash(pc) \in 0 .. BPTableSize - 1
  <2>1. pc \div 4 \in Int /\ BPTableSize \in Nat \ {0}
    BY SizeAssumption, DivMod DEF PcValue
  <2> HIDE SizeAssumption
  <2> QED
    BY <2>1, Remainder DEF Hash
<1>2. bp[Hash(pc)] \in PredictionSet
  BY <1>1
<1>3. Predict(bp, pc) \in [taken : BOOLEAN, target : PcValue, hit : BOOLEAN]
  BY <1>2, ZeroTyped DEF Predict, PredictionSet
<1>4. ASSUME NEW taken \in BOOLEAN, NEW target \in PcValue
      PROVE  Update(bp, pc, taken, target) \in [0 .. BPTableSize - 1 -> PredictionSet]
  <2> DEFINE e == bp[Hash(pc)]
             d == IF taken
                  THEN [counter |-> IF e.counter < 3 THEN e.counter + 1 ELSE 3,
                        tag |-> pc, target |-> target]
                  ELSE [e EXCEPT !.counter = IF e.counter > 0 THEN e.counter - 1 ELSE 0]
  <2>1. Update(bp, pc, taken, target) = [bp EXCEPT ![Hash(pc)] = d]
    BY DEF Update
  <2>2. d \in PredictionSet
    <3>1. e \in PredictionSet
      BY <1>2
    <3> HIDE DEF e
    <3> QED
      BY <3>1 DEF PredictionSet
  <2> HIDE DEF d
  <2> QED
    BY <1>1, <2>1, <2>2
<1> QED
  BY <1>3, <1>4

-----------------------------------------------------------------------------
(* The first state. *)

LEMMA MachineInit == Init => MachineOK
<1> SUFFICES ASSUME Init PROVE MachineOK
  OBVIOUS
<1>1. Ring(rob)
  <2>1. /\ rob.head = 0 /\ rob.tail = 0 /\ rob.count = 0
        /\ rob.slot = [i \in Index |-> EmptyEntry] /\ 0 \in Index
    BY CapacityAssumption DEF Init, ResetRob, Index
  <2>2. InOrder(rob)
    BY CapacityAssumption, <2>1 DEF InOrder, Index
  <2>3. \A i \in Index : ~InWindow(rob, i)
    <3> TAKE i \in Index
    <3>1. Position(rob, i) \in Nat
      BY <2>1, PositionValue DEF Index
    <3> QED
      BY <2>1, <3>1 DEF InWindow
  <2> QED
    BY <2>1, <2>2, <2>3 DEF Ring
<1>2. Linked(iq, rob)
  <2>1. iq = [i \in IQSlot |-> FreeSlot] /\ ~FreeSlot.valid
    BY DEF Init, ResetIQ, FreeSlot
  <2>2. \A i \in Index : ~Pending(rob, i)
    <3> TAKE i \in Index
    <3>1. Position(rob, i) \in Nat /\ rob.count = 0
      BY CapacityAssumption, PositionValue DEF Init, ResetRob, Index
    <3> QED
      BY <3>1 DEF Pending, InWindow
  <2> QED
    BY <2>1, <2>2 DEF Linked
<1>3. freeList \in Seq(Physical)
  <2>1. PRFCount - NumRegisters \in Nat
    BY SizeAssumption
  <2>2. \A k \in 1 .. PRFCount - NumRegisters : NumRegisters + k - 1 \in Physical
    BY SizeAssumption DEF Physical
  <2> QED
    BY <2>1, <2>2, IsASeq, FreeListAssumption DEF Init, ResetFreeList
<1>4. prf \in [Physical -> Cell] /\ arf \in [Register -> Word] /\ rat \in [Register -> Physical]
  BY WordIsInt, ZeroTyped DEF Init, Cell
<1>5. predictor \in [0 .. BPTableSize - 1 -> PredictionSet]
  BY ZeroTyped DEF Init, ResetPredictor, PredictionSet, WeakNotTaken, NoTag
<1>6. dmem \in [0 .. DMemWords - 1 -> Word]
  BY WordIsInt DEF Init
<1>7. /\ lsq \in Seq(LoadStoreSet) /\ Len(lsq) <= LSQCapacity
      /\ storeBuffer \in Seq(StoreSet) /\ Len(storeBuffer) <= SBCapacity
  BY SizeAssumption DEF Init
<1>8. /\ rom \in Programs /\ stage \in Stages /\ fetchPc \in PcValue
      /\ fd \in [valid : BOOLEAN, pc : PcValue] /\ redirect \in [on : BOOLEAN, pc : PcValue]
      /\ halted \in BOOLEAN /\ haltDispatched \in BOOLEAN /\ checkpoints \in 0 .. MaxCheckpoints
  <2>1. /\ rom \in Programs /\ stage = "commit" /\ fetchPc = 0
        /\ fd = [valid |-> FALSE, pc |-> 0] /\ redirect = [on |-> FALSE, pc |-> 0]
        /\ halted = FALSE /\ haltDispatched = FALSE /\ checkpoints = 0
    BY DEF Init, Bubble, NoRedirect
  <2>2. 0 \in PcValue /\ 0 \in 0 .. MaxCheckpoints
    BY ZeroTyped, SizeAssumption
  <2> QED
    BY <2>1, <2>2 DEF Stages
<1> QED
  BY <1>1, <1>2, <1>3, <1>4, <1>5, <1>6, <1>7, <1>8 DEF MachineOK

-----------------------------------------------------------------------------
(* The stages that touch neither the reorder buffer nor a queue. *)

LEMMA IdleStages ==
    ASSUME MachineOK, NoBranchReady \/ AluIdle \/ RenameIdle
    PROVE  MachineOK'
<1>1. /\ stage' \in Stages
      /\ UNCHANGED <<rom, frontend, halted, haltDispatched, rob, iq, prf, arf,
                     renaming, memory, predictor>>
  BY DEF NoBranchReady, AluIdle, RenameIdle, Stages
<1> QED
  BY <1>1 DEF MachineOK, frontend, renaming, memory

LEMMA LaneTyped ==
    ASSUME MachineOK, NEW pc \in PcValue
    PROVE  /\ Lane(pc).pc = pc
           /\ Lane(pc).ins \in Instruction
           /\ Lane(pc).pred \in [taken : BOOLEAN, target : PcValue, hit : BOOLEAN]
<1>1. Meaning!InstructionAt(rom, pc) \in Instruction
  BY FetchedTyped DEF MachineOK
<1>2. Predict(predictor, pc) \in [taken : BOOLEAN, target : PcValue, hit : BOOLEAN]
  BY PredictionTyped DEF MachineOK
<1>3. NotPredicted \in [taken : BOOLEAN, target : PcValue, hit : BOOLEAN]
  BY ZeroTyped DEF NotPredicted
<1> QED
  BY <1>1, <1>2, <1>3 DEF Lane

LaneSet == [pc : PcValue, ins : Instruction,
            pred : [taken : BOOLEAN, target : PcValue, hit : BOOLEAN]]

LEMMA LanesTyped ==
    ASSUME MachineOK
    PROVE  /\ Lanes \in Seq(LaneSet) /\ Len(Lanes) \in {1, 2}
           /\ PredictedRedirect(Lanes) \in [on : BOOLEAN, pc : PcValue]
<1> DEFINE a == Lane(fd.pc)
           b == Lane((fd.pc + InsnBytes) % PcMod)
<1>1. fd.pc \in PcValue /\ (fd.pc + InsnBytes) % PcMod \in PcValue
  <2>1. fd.pc \in PcValue
    BY DEF MachineOK
  <2>2. fd.pc + InsnBytes \in Int
    BY <2>1 DEF PcValue, InsnBytes
  <2> QED
    BY <2>1, <2>2, PcOf
<1>2. a \in LaneSet /\ b \in LaneSet
  <2>1. \A pc \in PcValue : Lane(pc) \in LaneSet
    BY LaneTyped DEF LaneSet, Lane
  <2> QED
    BY <1>1, <2>1
<1>3. Lanes = IF Redirects(a) THEN <<a>> ELSE <<a, b>>
  BY DEF Lanes, Bundle
<1> HIDE DEF a, b
<1>4. Lanes \in Seq(LaneSet) /\ Len(Lanes) \in {1, 2}
  BY <1>2, <1>3
<1>5. Last(Lanes) \in LaneSet
  BY <1>4 DEF Last
<1>6. Last(Lanes).pred.target \in PcValue
  BY <1>5 DEF LaneSet
<1>7. redirect \in [on : BOOLEAN, pc : PcValue]
  BY DEF MachineOK
<1>8. PredictedRedirect(Lanes) \in [on : BOOLEAN, pc : PcValue]
  <2>1. CASE \E k \in DOMAIN Lanes : Redirects(Lanes[k])
    BY <1>6, <2>1 DEF PredictedRedirect
  <2>2. CASE ~\E k \in DOMAIN Lanes : Redirects(Lanes[k])
    BY <1>7, <2>2, Zenon DEF PredictedRedirect
  <2> QED
    BY <2>1, <2>2
<1> QED
  BY <1>4, <1>8

LEMMA RejectedBundle ==
    ASSUME MachineOK, BundleNotRenamed
    PROVE  MachineOK'
<1>1. redirect' \in [on : BOOLEAN, pc : PcValue]
  BY LanesTyped DEF BundleNotRenamed
<1>2. stage' \in Stages
  BY DEF BundleNotRenamed, Stages
<1> QED
  BY <1>1, <1>2 DEF MachineOK, BundleNotRenamed, renaming, memory

LEMMA FetchStage ==
    ASSUME MachineOK, Fetch
    PROVE  MachineOK'
<1>1. fetchPc \in PcValue /\ redirect \in [on : BOOLEAN, pc : PcValue]
  BY DEF MachineOK
<1>2. (fetchPc + FetchWidth * InsnBytes) % PcMod \in PcValue
  <2>1. fetchPc + FetchWidth * InsnBytes \in Int
    BY <1>1 DEF PcValue, FetchWidth, InsnBytes
  <2> QED
    BY <2>1, PcOf
<1>3. fetchPc' \in PcValue
  BY <1>1, <1>2 DEF Fetch
<1>4. fd' \in [valid : BOOLEAN, pc : PcValue]
  BY <1>1, ZeroTyped DEF Fetch, Bubble
<1>5. redirect' \in [on : BOOLEAN, pc : PcValue]
  BY ZeroTyped DEF Fetch, NoRedirect
<1>6. stage' \in Stages
  BY DEF Fetch, Stages
<1> QED
  BY <1>3, <1>4, <1>5, <1>6 DEF MachineOK, Fetch, renaming, memory

-----------------------------------------------------------------------------
(* The load/store queue while the memory unit scans the issue queue. *)

LEMMA AddressedEntries ==
    ASSUME MachineOK, NEW i \in IQSlot
    PROVE  /\ Addressed(i) \in Seq(LoadStoreSet) /\ EntriesKept(lsq, Addressed(i))
           /\ \A k \in 1 .. Len(lsq) :
                 \/ Addressed(i)[k] = lsq[k]
                 \/ \E j \in IQSlot :
                       /\ ReadyForMemory(iq[j]) /\ iq[j].ins.op = "LW"
                       /\ Find(lsq, iq[j].rob) = k
                       /\ Addressed(i)[k] = [lsq[k] EXCEPT !.addr = Address(iq[j])]
<1> DEFINE loads == {j \in 0 .. i : ReadyForMemory(iq[j]) /\ iq[j].ins.op = "LW"}
           of(k) == {j \in loads : Find(lsq, iq[j].rob) = k}
           t == Addressed(i)
<1>1. /\ i \in Nat /\ 0 .. i \subseteq IQSlot
      /\ lsq \in Seq(LoadStoreSet) /\ Linked(iq, rob)
  <2>1. IQCapacity \in Nat \ {0}
    BY SizeAssumption
  <2>2. i \in Nat /\ 0 .. i \subseteq IQSlot
    BY <2>1 DEF IQSlot
  <2> QED
    BY <2>2 DEF MachineOK
<1>2. /\ DOMAIN t = 1 .. Len(lsq)
      /\ \A k \in 1 .. Len(lsq) : t[k] = IF of(k) = {} THEN lsq[k]
                                         ELSE [lsq[k] EXCEPT !.addr = Address(iq[Max(of(k))])]
  BY <1>1 DEF Addressed
<1>3. ASSUME NEW k \in 1 .. Len(lsq), of(k) # {}
      PROVE  \E j \in IQSlot : /\ ReadyForMemory(iq[j]) /\ iq[j].ins.op = "LW"
                               /\ Find(lsq, iq[j].rob) = k
                               /\ t[k] = [lsq[k] EXCEPT !.addr = Address(iq[j])]
                               /\ t[k] \in LoadStoreSet /\ t[k].rob = lsq[k].rob
  <2> DEFINE m == Max(of(k))
  <2>1. of(k) \subseteq 0 .. i
    OBVIOUS
  <2>2. m \in of(k)
    BY <1>1, <1>3, <2>1, MaxIsGreatest
  <2>3. t[k] = [lsq[k] EXCEPT !.addr = Address(iq[m])]
    BY <1>2, <1>3
  <2>4. m \in IQSlot /\ ReadyForMemory(iq[m]) /\ iq[m].ins.op = "LW" /\ Find(lsq, iq[m].rob) = k
    BY <1>1, <2>2
  <2> HIDE DEF m, of, t
  <2>5. iq[m] \in EntrySet
    BY <1>1, <2>4, ValidEntry DEF ReadyForMemory, Ready
  <2>6. iq[m].ins \in Instruction /\ iq[m].op1.value \in Word
    BY <2>5 DEF EntrySet, OperandSet
  <2>7. Address(iq[m]) \in Word
    BY <2>6, AddressTyped DEF Address
  <2>8. lsq[k] \in LoadStoreSet
    BY <1>1
  <2>9. t[k] \in LoadStoreSet /\ t[k].rob = lsq[k].rob
    BY <2>3, <2>7, <2>8 DEF LoadStoreSet
  <2> QED
    BY <2>3, <2>4, <2>9
<1> HIDE DEF of
<1>4. \A k \in 1 .. Len(lsq) : t[k] \in LoadStoreSet /\ t[k].rob = lsq[k].rob
  BY <1>1, <1>2, <1>3
<1>5. t \in Seq(LoadStoreSet) /\ Len(t) = Len(lsq)
  <2>1. t = [k \in 1 .. Len(lsq) |-> t[k]]
    BY <1>1 DEF Addressed
  <2>2. Len(lsq) \in Nat
    BY <1>1
  <2> HIDE DEF t
  <2> QED
    BY <1>4, <2>1, <2>2, IsASeq
<1> HIDE DEF t
<1>6. \A k \in 1 .. Len(lsq) :
         \/ t[k] = lsq[k]
         \/ \E j \in IQSlot :
               /\ ReadyForMemory(iq[j]) /\ iq[j].ins.op = "LW"
               /\ Find(lsq, iq[j].rob) = k
               /\ t[k] = [lsq[k] EXCEPT !.addr = Address(iq[j])]
  BY <1>2, <1>3
<1> QED
  BY <1>4, <1>5, <1>6 DEF t, EntriesKept

LEMMA MemoryIdleStage ==
    ASSUME MachineOK, MemoryIdle
    PROVE  MachineOK'
<1>1. IQCapacity - 1 \in IQSlot
  BY SizeAssumption DEF IQSlot
<1>2. lsq' \in Seq(LoadStoreSet) /\ Len(lsq') <= LSQCapacity
  BY <1>1, AddressedEntries DEF MachineOK, MemoryIdle, EntriesKept
<1>3. stage' \in Stages
  BY DEF MemoryIdle, Stages
<1> QED
  BY <1>2, <1>3 DEF MachineOK, MemoryIdle, frontend, renaming

-----------------------------------------------------------------------------
(* An instruction executes: its entry leaves the issue queue and its slot   *)
(* of the reorder buffer is complete.                                       *)

LEMMA ExecutedEntry ==
    ASSUME MachineOK, NEW i \in IQSlot, iq[i].valid
    PROVE  /\ iq[i] \in EntrySet /\ Pending(rob, iq[i].rob)
           /\ Ring(Complete(rob, iq[i].rob))
           /\ Linked(RemoveSlot(iq, i), Complete(rob, iq[i].rob))
<1> DEFINE s == Complete(rob, iq[i].rob)
<1>1. Linked(iq, rob) /\ Ring(rob)
  BY DEF MachineOK
<1>2. iq[i] \in EntrySet /\ iq[i].rob \in Index
  BY <1>1, ValidEntry
<1>3. Pending(rob, iq[i].rob) /\ InWindow(rob, iq[i].rob)
  BY <1>1 DEF Linked, Pending
<1>4. /\ Ring(s)
      /\ \A j \in Index : /\ s.slot[j].data = rob.slot[j].data
                          /\ Pending(s, j) <=> Pending(rob, j) /\ j # iq[i].rob
  BY <1>1, <1>2, <1>3, CompleteRing
<1> HIDE DEF s
<1>5. SameData(rob, s)
  BY <1>4 DEF SameData
<1>6. Linked(RemoveSlot(iq, i), s)
  BY <1>1, <1>4, <1>5, LinkedRemove
<1> QED
  BY <1>2, <1>3, <1>4, <1>6 DEF s

LEMMA EntryFields ==
    ASSUME NEW e \in EntrySet
    PROVE  /\ e.ins \in Instruction /\ e.pc \in PcValue /\ e.rob \in Index /\ e.prd \in Physical
           /\ e.op1.value \in Word /\ e.op2.value \in Word
BY DEF EntrySet, OperandSet

LEMMA WrittenRegister ==
    ASSUME MachineOK, NEW p \in Physical, NEW v \in Word
    PROVE  [prf EXCEPT ![p] = [ready |-> TRUE, value |-> v]] \in [Physical -> Cell]
BY DEF MachineOK, Cell

LEMMA AluStage ==
    ASSUME MachineOK, ExecuteAlu
    PROVE  MachineOK'
<1>1. PICK i \in FirstSlot(ReadyAlus) :
         LET e == iq[i]
             result == AluResult(e.ins, e.op1.value, e.op2.value)
         IN  /\ prf' = [prf EXCEPT ![e.prd] = [ready |-> TRUE, value |-> result]]
             /\ iq' = Wakeup(RemoveSlot(iq, i), e.prd, result)
             /\ rob' = Complete(rob, e.rob)
             /\ UNCHANGED <<rom, frontend, halted, haltDispatched, arf, renaming, memory,
                            predictor>>
  BY DEF ExecuteAlu
<1> DEFINE e == iq[i]
           v == AluResult(e.ins, e.op1.value, e.op2.value)
<1>2. i \in IQSlot /\ iq[i].valid /\ iq[i].ins.op \in AluOps
  BY DEF FirstSlot, ReadyAlus, Ready
<1>3. e \in EntrySet /\ Ring(rob') /\ Linked(RemoveSlot(iq, i), rob')
  BY <1>1, <1>2, ExecutedEntry
<1>4. e.prd \in Physical /\ v \in Word
  BY <1>2, <1>3, EntryFields, AluTyped
<1>5. /\ prf' = [prf EXCEPT ![e.prd] = [ready |-> TRUE, value |-> v]]
      /\ iq' = Wakeup(RemoveSlot(iq, i), e.prd, v)
      /\ UNCHANGED <<rom, frontend, halted, haltDispatched, arf, renaming, memory, predictor>>
  BY <1>1
<1> HIDE DEF e, v
<1>6. Linked(iq', rob')
  BY <1>3, <1>4, <1>5, LinkedWakeup
<1>7. prf' \in [Physical -> Cell]
  BY <1>4, <1>5, WrittenRegister
<1>8. stage' \in Stages
  BY DEF ExecuteAlu, Stages
<1> QED
  BY <1>3, <1>5, <1>6, <1>7, <1>8 DEF MachineOK, frontend, renaming, memory

LEMMA ProceedingSlot ==
    ASSUME NEW i \in FirstToProceed
    PROVE  i \in IQSlot /\ iq[i].valid /\ ReadyForMemory(iq[i])
BY DEF FirstToProceed, FirstSlot, Proceeds, ReadyForMemory, Ready

(* What a load finds in the queue is a word. *)
LEMMA ForwardedWord ==
    ASSUME NEW q \in Seq(LoadStoreSet), NEW r, LoadResult(q, r).hit
    PROVE  LoadResult(q, r).data \in Word
<1> DEFINE k == Find(q, r)
           j == IF k = 0 \/ q[k].addr = Unknown THEN 0 ELSE BlockingStore(q, k)
<1>1. /\ j # 0 /\ q[j].addr # Unknown /\ q[j].data # Unknown
      /\ LoadResult(q, r).data = q[j].data
  BY DEF LoadResult
<1>2. k \in 0 .. Len(q)
  BY FindEntry
<1>3. j \in 1 .. Len(q)
  <2> DEFINE S == {0} \cup {n \in 1 .. k - 1 : /\ q[n].type = "STORE"
                                             /\ q[n].addr \in {Unknown, q[k].addr}}
  <2>1. j = Max(S) /\ k # 0
    BY <1>1 DEF BlockingStore
  <2>2. Len(q) \in Nat
    OBVIOUS
  <2>3. S \subseteq 0 .. Len(q) /\ S # {}
    BY <1>2, <2>2
  <2> HIDE DEF S, j, k
  <2>4. Max(S) \in S
    BY <2>2, <2>3, MaxIsGreatest
  <2>5. \A x \in 0 .. Len(q) : x # 0 => x \in 1 .. Len(q)
    BY <2>2
  <2> QED
    BY <1>1, <2>1, <2>3, <2>4, <2>5
<1>4. q[j] \in LoadStoreSet
  BY <1>3
<1> HIDE DEF j, k
<1> QED
  BY <1>1, <1>4 DEF LoadStoreSet

LEMMA LoadStage ==
    ASSUME MachineOK, ExecuteLoad
    PROVE  MachineOK'
<1>1. PICK i \in FirstToProceed :
         LET e == iq[i]
             found == LoadResult(Addressed(i), e.rob)
             value == IF found.hit THEN found.data ELSE Meaning!ReadData(dmem, Address(e))
         IN  /\ lsq' = CompleteLoad(Addressed(i), e.rob, value)
             /\ prf' = [prf EXCEPT ![e.prd] = [ready |-> TRUE, value |-> value]]
             /\ iq' = Wakeup(RemoveSlot(iq, i), e.prd, value)
             /\ rob' = Complete(rob, e.rob)
             /\ UNCHANGED <<rom, frontend, halted, haltDispatched, arf, renaming,
                            storeBuffer, dmem, predictor>>
  BY DEF ExecuteLoad
<1> DEFINE e == iq[i]
           found == LoadResult(Addressed(i), e.rob)
           v == IF found.hit THEN found.data ELSE Meaning!ReadData(dmem, Address(e))
<1>2. i \in IQSlot /\ iq[i].valid
  BY ProceedingSlot
<1>3. e \in EntrySet /\ Ring(rob') /\ Linked(RemoveSlot(iq, i), rob')
  BY <1>1, <1>2, ExecutedEntry
<1>4. Addressed(i) \in Seq(LoadStoreSet) /\ EntriesKept(lsq, Addressed(i))
  BY <1>2, AddressedEntries
<1>5. e.prd \in Physical
  BY <1>3, EntryFields
<1>6. v \in Word
  <2>1. found.hit => found.data \in Word
    BY <1>4, ForwardedWord
  <2>2. Meaning!ReadData(dmem, Address(e)) \in Word
    BY ReadTyped DEF MachineOK
  <2> QED
    BY <2>1, <2>2
<1>7. /\ prf' = [prf EXCEPT ![e.prd] = [ready |-> TRUE, value |-> v]]
      /\ iq' = Wakeup(RemoveSlot(iq, i), e.prd, v)
      /\ lsq' = CompleteLoad(Addressed(i), e.rob, v)
      /\ UNCHANGED <<rom, frontend, halted, haltDispatched, arf, renaming,
                     storeBuffer, dmem, predictor>>
  BY <1>1
<1> HIDE DEF e, v
<1>8. Linked(iq', rob')
  BY <1>3, <1>5, <1>6, <1>7, LinkedWakeup
<1>9. prf' \in [Physical -> Cell]
  BY <1>5, <1>6, <1>7, WrittenRegister
<1>10. lsq' \in Seq(LoadStoreSet) /\ Len(lsq') <= LSQCapacity
  BY <1>4, <1>6, <1>7, CompleteLoadEntries DEF EntriesKept, MachineOK
<1>11. stage' \in Stages
  BY DEF ExecuteLoad, Stages
<1> QED
  BY <1>3, <1>7, <1>8, <1>9, <1>10, <1>11 DEF MachineOK, frontend, renaming

LEMMA StoreStage ==
    ASSUME MachineOK, ExecuteStore
    PROVE  MachineOK'
<1>1. PICK i \in FirstToProceed :
         LET e == iq[i]
         IN  /\ lsq' = SetStoreData(SetAddress(Addressed(i), e.rob, Address(e)),
                                    e.rob, e.op2.value)
             /\ storeBuffer' = SBUpdate(storeBuffer, e.rob, Address(e), e.op2.value)
             /\ iq' = RemoveSlot(iq, i)
             /\ rob' = Complete(rob, e.rob)
             /\ UNCHANGED <<rom, frontend, halted, haltDispatched, prf, arf, renaming,
                            dmem, predictor>>
  BY DEF ExecuteStore
<1> DEFINE e == iq[i]
           a == Address(e)
           d == e.op2.value
           t == SetAddress(Addressed(i), e.rob, a)
<1>2. i \in IQSlot /\ iq[i].valid
  BY ProceedingSlot
<1>3. e \in EntrySet /\ Ring(rob') /\ Linked(iq', rob')
  BY <1>1, <1>2, ExecutedEntry
<1>4. Addressed(i) \in Seq(LoadStoreSet) /\ EntriesKept(lsq, Addressed(i))
  BY <1>2, AddressedEntries
<1>5. a \in Word /\ d \in Word
  BY <1>3, EntryFields, AddressTyped DEF Address
<1>6. /\ lsq' = SetStoreData(t, e.rob, d)
      /\ storeBuffer' = SBUpdate(storeBuffer, e.rob, a, d)
      /\ UNCHANGED <<rom, frontend, halted, haltDispatched, prf, arf, renaming,
                     dmem, predictor>>
  BY <1>1
<1> HIDE DEF e, a, d
<1>7. t \in Seq(LoadStoreSet) /\ Len(t) = Len(lsq)
  BY <1>4, <1>5, SetAddressEntries DEF EntriesKept
<1> HIDE DEF t
<1>8. lsq' \in Seq(LoadStoreSet) /\ Len(lsq') <= LSQCapacity
  BY <1>5, <1>6, <1>7, SetStoreDataEntries DEF EntriesKept, MachineOK
<1>9. storeBuffer' \in Seq(StoreSet) /\ Len(storeBuffer') <= SBCapacity
  <2>1. storeBuffer \in Seq(StoreSet) /\ Len(storeBuffer) <= SBCapacity
    BY DEF MachineOK
  <2>2. storeBuffer' \in Seq(StoreSet) /\ EntriesKept(storeBuffer, storeBuffer')
    BY <1>5, <1>6, <2>1, SBUpdateEntries
  <2> QED
    BY <2>1, <2>2 DEF EntriesKept
<1>10. stage' \in Stages
  BY DEF ExecuteStore, Stages
<1> QED
  BY <1>3, <1>6, <1>8, <1>9, <1>10 DEF MachineOK, frontend, renaming

LEMMA ReadyBranchSlot ==
    ASSUME NEW i \in FirstSlot(ReadyBranches)
    PROVE  i \in IQSlot /\ iq[i].valid /\ iq[i].ins.op \in BranchOps
BY DEF FirstSlot, ReadyBranches, ReadyBranch, Ready

LEMMA PredictedBranchStage ==
    ASSUME MachineOK, BranchAsPredicted
    PROVE  MachineOK'
<1>1. PICK i \in FirstSlot(ReadyBranches) :
         LET e == iq[i]
         IN  /\ iq' = RemoveSlot(iq, i)
             /\ predictor' = Update(predictor, e.pc, Outcome(e), Target(e.ins, e.pc))
             /\ rob' = Complete(rob, e.rob)
             /\ UNCHANGED <<rom, frontend, halted, haltDispatched, prf, arf, renaming, memory>>
  BY DEF BranchAsPredicted
<1>2. i \in IQSlot /\ iq[i].valid /\ iq[i].ins.op \in BranchOps
  BY ReadyBranchSlot
<1>3. iq[i] \in EntrySet /\ Ring(rob') /\ Linked(iq', rob')
  BY <1>1, <1>2, ExecutedEntry
<1>4. predictor' \in [0 .. BPTableSize - 1 -> PredictionSet]
  <2>1. iq[i].pc \in PcValue /\ iq[i].ins \in Instruction
    BY <1>3, EntryFields
  <2>2. Outcome(iq[i]) \in BOOLEAN /\ Target(iq[i].ins, iq[i].pc) \in PcValue
    BY <1>2, <2>1, TakenTyped, TargetTyped DEF Outcome
  <2> QED
    BY <1>1, <2>1, <2>2, PredictionTyped DEF MachineOK
<1>5. stage' \in Stages
  BY DEF BranchAsPredicted, Stages
<1> QED
  BY <1>1, <1>3, <1>4, <1>5 DEF MachineOK, frontend, renaming, memory

LEMMA YoungestFirstEntries ==
    ASSUME NEW r, Ring(r), NEW b \in Index, InWindow(r, b)
    PROVE  /\ YoungerCount(r, b) \in Nat
           /\ DOMAIN YoungestFirst(r, b) = 1 .. YoungerCount(r, b)
           /\ \A k \in 1 .. YoungerCount(r, b) :
                 /\ SlotAt(r, r.count + 1 - k) \in Younger(r, b)
                 /\ Position(r, SlotAt(r, r.count + 1 - k)) = r.count - k
                 /\ YoungestFirst(r, b)[k] = r.slot[SlotAt(r, r.count + 1 - k)].data
           /\ \A i \in Younger(r, b) :
                 /\ r.count - Position(r, i) \in 1 .. YoungerCount(r, b)
                 /\ SlotAt(r, r.count + 1 - (r.count - Position(r, i))) = i
<1> DEFINE n == YoungerCount(r, b)
           p == Position(r, b)
<1>1. /\ r.head \in Index /\ r.count \in 0 .. Capacity /\ Capacity \in Nat \ {0}
      /\ p \in Nat /\ p < r.count /\ n = r.count - p - 1
  BY CapacityAssumption, PositionValue DEF Ring, InOrder, InWindow, Index, YoungerCount
<1> HIDE DEF n, p
<1>2. n \in Nat
  BY <1>1
<1>3. ASSUME NEW k \in 1 .. n
      PROVE  /\ SlotAt(r, r.count + 1 - k) \in Younger(r, b)
             /\ Position(r, SlotAt(r, r.count + 1 - k)) = r.count - k
  <2>1. r.count + 1 - k \in 1 .. Capacity /\ r.count + 1 - k - 1 = r.count - k
    BY <1>1
  <2>2. /\ SlotAt(r, r.count + 1 - k) \in Index
        /\ Position(r, SlotAt(r, r.count + 1 - k)) = r.count - k
    BY <1>1, <2>1, SlotAtValue
  <2>3. r.count - k < r.count /\ r.count - k > p
    BY <1>1
  <2> QED
    BY <2>2, <2>3 DEF Younger, InWindow, p
<1>4. ASSUME NEW i \in Younger(r, b)
      PROVE  /\ r.count - Position(r, i) \in 1 .. n
             /\ SlotAt(r, r.count + 1 - (r.count - Position(r, i))) = i
  <2>1. i \in Index /\ Position(r, i) < r.count /\ Position(r, i) > p
    BY DEF Younger, InWindow, p
  <2>2. Position(r, i) \in Nat /\ SlotAt(r, Position(r, i) + 1) = i
    BY <1>1, <2>1, PositionValue, SlotAtPosition DEF Index
  <2>3. /\ r.count + 1 - (r.count - Position(r, i)) = Position(r, i) + 1
        /\ r.count - Position(r, i) \in 1 .. n
    BY <1>1, <2>1, <2>2
  <2> QED
    BY <2>2, <2>3
<1>5. /\ DOMAIN YoungestFirst(r, b) = 1 .. n
      /\ \A k \in 1 .. n : YoungestFirst(r, b)[k] = r.slot[SlotAt(r, r.count + 1 - k)].data
  BY DEF YoungestFirst, n
<1> QED
  BY <1>2, <1>3, <1>4, <1>5 DEF n

LEMMA SquashedTyped ==
    ASSUME NEW r, Ring(r), NEW b \in Index, InWindow(r, b)
    PROVE  SquashedRegisters(SquashedWriters(r, b)) \in Seq(Physical)
<1> DEFINE S == {r.slot[j].data : j \in Younger(r, b)}
           y == YoungestFirst(r, b)
           P == {k \in DOMAIN y : WritesRegister(y[k].ins)}
           w == SquashedWriters(r, b)
<1>1. \A d \in S : d.prd \in Physical
  BY DEF Younger, Ring, DataOK
<1>2. y \in Seq(S)
  <2>1. YoungerCount(r, b) \in Nat /\ \A k \in 1 .. YoungerCount(r, b) : y[k] \in S
    BY YoungestFirstEntries
  <2>2. y = [k \in 1 .. YoungerCount(r, b) |-> y[k]]
    BY DEF YoungestFirst
  <2> HIDE DEF y, S
  <2> QED
    BY <2>1, <2>2, IsASeq
<1>3. w = SubQueue(y, P)
  BY DEF SquashedWriters
<1> HIDE DEF S, y, w
<1>4. w \in Seq(S)
  BY <1>2, <1>3, SubQueueTyped
<1>5. SquashedRegisters(w) = [k \in 1 .. Len(w) |-> w[k].prd] /\ Len(w) \in Nat
  BY <1>4 DEF SquashedRegisters
<1>6. \A k \in 1 .. Len(w) : w[k].prd \in Physical
  BY <1>1, <1>4
<1>7. SquashedRegisters(w) \in Seq(Physical)
  BY <1>5, <1>6, IsASeq
<1> QED
  BY <1>7 DEF w

(* Once the reorder buffer has squashed, nothing is younger than the branch. *)
LEMMA NothingYounger ==
    ASSUME NEW r, Ring(r), NEW b \in Index, InWindow(r, b)
    PROVE  Younger(SquashYoungerThan(r, b), b) = {}
<1> DEFINE s == SquashYoungerThan(r, b)
<1>1. \A j \in Index : /\ Position(s, j) = Position(r, j)
                       /\ InWindow(s, j) <=> InWindow(r, j) /\ Position(r, j) <= Position(r, b)
  BY SquashRing
<1>2. \A j \in Index : Position(r, j) \in Int
  BY PositionValue DEF Ring, InOrder, Index
<1> HIDE DEF s
<1>3. \A j \in Index : ~(InWindow(s, j) /\ Position(s, j) > Position(s, b))
  BY <1>1, <1>2
<1>4. Younger(s, b) = {}
  BY <1>3 DEF Younger
<1> QED
  BY <1>4 DEF s

(* The second squash, of the load/store queue and the store buffer, finds   *)
(* nothing to remove.                                                       *)
LEMMA SquashOfNothing ==
    /\ \A q \in Seq(LoadStoreSet) : LsqSquash(q, {}) = q
    /\ \A b \in Seq(StoreSet) : SBSquash(b, {}) = b
<1>1. ASSUME NEW q \in Seq(LoadStoreSet) PROVE LsqSquash(q, {}) = q
  <2>1. {k \in DOMAIN q : q[k].rob \notin {}} = DOMAIN q
    OBVIOUS
  <2> QED
    BY <2>1, SubQueueWhole DEF LsqSquash
<1>2. ASSUME NEW b \in Seq(StoreSet) PROVE SBSquash(b, {}) = b
  <2>1. {k \in DOMAIN b : b[k].committed \/ b[k].rob \notin {}} = DOMAIN b
    OBVIOUS
  <2> QED
    BY <2>1, SubQueueWhole DEF SBSquash
<1> QED
  BY <1>1, <1>2

LEMMA RecoveryStage ==
    ASSUME MachineOK, BranchMispredicted
    PROVE  MachineOK'
<1>1. PICK i \in FirstSlot(ReadyBranches) :
         LET e == iq[i]
             completed == Complete(rob, e.rob)
             recovered == SquashYoungerThan(completed, e.rob)
             stillYounger == Younger(recovered, e.rob)
         IN  /\ predictor' = Update(predictor, e.pc, Outcome(e), Target(e.ins, e.pc))
             /\ rob' = recovered
             /\ rat' = rob.slot[e.rob].data.cp
             /\ freeList' = SquashedRegisters(SquashedWriters(completed, e.rob)) \o freeList
             /\ iq' = IQSquash(RemoveSlot(iq, i), Younger(completed, e.rob))
             /\ lsq' = LsqSquash(lsq, stillYounger)
             /\ storeBuffer' = SBSquash(storeBuffer, stillYounger)
             /\ haltDispatched' = FALSE
             /\ redirect' = [on |-> TRUE,
                             pc |-> IF Outcome(e) THEN Target(e.ins, e.pc)
                                    ELSE (e.pc + InsnBytes) % PcMod]
             /\ UNCHANGED <<rom, fetchPc, fd, halted, prf, arf, checkpoints, dmem>>
  BY DEF BranchMispredicted
<1> DEFINE e == iq[i]
           c == Complete(rob, e.rob)
           p == RemoveSlot(iq, i)
<1>2. i \in IQSlot /\ iq[i].valid /\ e.ins.op \in BranchOps
  BY ReadyBranchSlot
<1>3. e \in EntrySet /\ Pending(rob, e.rob) /\ Ring(c) /\ Linked(p, c)
  BY <1>2, ExecutedEntry
<1>4. e.ins \in Instruction /\ e.pc \in PcValue /\ e.rob \in Index
  BY <1>3, EntryFields
<1>5. Outcome(e) \in BOOLEAN /\ Target(e.ins, e.pc) \in PcValue
  BY <1>2, <1>4, TakenTyped, TargetTyped DEF Outcome
<1>6. predictor' \in [0 .. BPTableSize - 1 -> PredictionSet]
  <2>1. predictor' = Update(predictor, e.pc, Outcome(e), Target(e.ins, e.pc))
    BY <1>1
  <2> QED
    BY <1>4, <1>5, <2>1, PredictionTyped DEF MachineOK
<1>7. rat' \in [Register -> Physical]
  <2>1. rat' = rob.slot[e.rob].data.cp
    BY <1>1
  <2>2. DataOK(rob.slot[e.rob].data)
    BY <1>3, <1>4 DEF MachineOK, Ring, Pending
  <2>3. rob.slot[e.rob].data.ins = e.ins
    BY <1>2 DEF MachineOK, Linked, Describes
  <2> QED
    BY <1>2, <2>1, <2>2, <2>3 DEF DataOK
<1>8. /\ rob' = SquashYoungerThan(c, e.rob)
      /\ freeList' = SquashedRegisters(SquashedWriters(c, e.rob)) \o freeList
      /\ iq' = IQSquash(p, Younger(c, e.rob))
      /\ lsq' = LsqSquash(lsq, Younger(rob', e.rob))
      /\ storeBuffer' = SBSquash(storeBuffer, Younger(rob', e.rob))
  BY <1>1
<1>9. InWindow(c, e.rob)
  <2>1. Ring(rob) /\ InWindow(rob, e.rob)
    BY <1>3 DEF MachineOK, Pending
  <2> QED
    BY <1>4, <2>1, CompleteRing
<1>10. redirect' \in [on : BOOLEAN, pc : PcValue] /\ haltDispatched' \in BOOLEAN
  <2>1. (e.pc + InsnBytes) % PcMod \in PcValue
    <3>1. e.pc + InsnBytes \in Int
      BY <1>4 DEF PcValue, InsnBytes
    <3> QED
      BY <3>1, PcOf
  <2> QED
    BY <1>1, <1>5, <2>1
<1>11. UNCHANGED <<rom, fetchPc, fd, halted, prf, arf, checkpoints, dmem>>
  BY <1>1
<1> HIDE DEF e, c, p
<1>12. Ring(rob') /\ Linked(iq', rob')
  <2>1. /\ Ring(rob')
        /\ \A j \in Index : /\ InWindow(rob', j) => rob'.slot[j] = c.slot[j]
                            /\ Pending(rob', j) <=> Pending(c, j) /\ j \notin Younger(c, e.rob)
    BY <1>3, <1>4, <1>8, <1>9, SquashRing
  <2>2. SameData(c, rob')
    BY <2>1 DEF SameData, Pending
  <2> QED
    BY <1>3, <1>8, <2>1, <2>2, LinkedSquash
<1>13. freeList' \in Seq(Physical)
  <2>1. SquashedRegisters(SquashedWriters(c, e.rob)) \in Seq(Physical)
    BY <1>3, <1>4, <1>9, SquashedTyped
  <2> QED
    BY <1>8, <2>1, ConcatProperties DEF MachineOK
<1>14. lsq' = lsq /\ storeBuffer' = storeBuffer
  <2>1. Younger(rob', e.rob) = {}
    BY <1>3, <1>4, <1>8, <1>9, NothingYounger
  <2> QED
    BY <1>8, <2>1, SquashOfNothing DEF MachineOK
<1>15. stage' \in Stages
  BY DEF BranchMispredicted, Stages
<1> QED
  BY <1>6, <1>7, <1>10, <1>11, <1>12, <1>13, <1>14, <1>15 DEF MachineOK

-----------------------------------------------------------------------------
(* Retirement, one head after the other. *)
RetireOK(s, n) ==
    /\ Ring(s.rob) /\ Linked(iq, s.rob)
    /\ s.arf \in [Register -> Word]
    /\ s.free \in Seq(Physical)
    /\ s.checkpoints \in 0 .. MaxCheckpoints
    /\ s.lsq \in Seq(LoadStoreSet) /\ Len(s.lsq) <= LSQCapacity
    /\ s.buffer \in Seq(StoreSet) /\ Len(s.buffer) <= SBCapacity
    /\ s.stores \in 0 .. n
    /\ s.halted \in BOOLEAN

LEMMA RemovedEntry ==
    ASSUME NEW S, NEW q \in Seq(S), NEW r
    PROVE  LsqRemove(q, r) \in Seq(S) /\ Len(LsqRemove(q, r)) <= Len(q)
<1>1. Find(q, r) \in 0 .. Len(q) /\ Len(q) \in Nat
  BY FindEntry
<1>2. CASE Find(q, r) = 0
  BY <1>1, <1>2 DEF LsqRemove
<1>3. CASE Find(q, r) # 0
  <2>1. Find(q, r) \in 1 .. Len(q)
    BY <1>1, <1>3
  <2>2. RemoveAt(q, Find(q, r)) \in Seq(S) /\ Len(RemoveAt(q, Find(q, r))) = Len(q) - 1
    BY <2>1, RemoveAtEntries
  <2> QED
    BY <1>1, <1>3, <2>2 DEF LsqRemove
<1> QED
  BY <1>2, <1>3

LEMMA RetireStops ==
    ASSUME NEW s, s.halted \/ ~CanCommit(s.rob)
    PROVE  RetireHead(s) = s
BY Zenon DEF RetireHead

LEMMA RetireHeadTyped ==
    ASSUME prf \in [Physical -> Cell], NEW n \in Nat, NEW s, RetireOK(s, n)
    PROVE  RetireOK(RetireHead(s), n + 1)
<1>1. CASE s.halted \/ ~CanCommit(s.rob)
  <2> DEFINE t == RetireHead(s)
  <2>1. t = s
    BY <1>1, RetireStops
  <2>2. RetireOK(s, n + 1)
    BY DEF RetireOK
  <2>3. RetireOK(t, n + 1)
    <3> HIDE DEF t
    <3> QED
      BY <2>1, <2>2, Zenon
  <2> QED
    BY <2>3
<1>2. CASE ~(s.halted \/ ~CanCommit(s.rob))
  <2> DEFINE h == s.rob.head
             d == s.rob.slot[h].data
             t == RetireHead(s)
  <2>1. /\ t.rob = Commit(s.rob)
        /\ t.arf = IF WritesRegister(d.ins)
                   THEN [s.arf EXCEPT ![d.ins.rd] = prf[d.prd].value] ELSE s.arf
        /\ t.free = IF WritesRegister(d.ins) THEN Append(s.free, d.old) ELSE s.free
        /\ t.checkpoints = IF d.ins.op \in BranchOps /\ s.checkpoints > 0
                           THEN s.checkpoints - 1 ELSE s.checkpoints
        /\ t.lsq = LsqRemove(s.lsq, h)
        /\ t.buffer = IF d.ins.op = "SW" THEN MarkCommitted(s.buffer, h) ELSE s.buffer
        /\ t.stores = IF d.ins.op = "SW" THEN s.stores + 1 ELSE s.stores
        /\ t.halted = (d.ins.op = "HALT")
    BY <1>2 DEF RetireHead
  <2>2. CanCommit(s.rob) /\ Ring(s.rob) /\ Linked(iq, s.rob)
    BY <1>2 DEF RetireOK
  <2>3. /\ Ring(t.rob) /\ h \in Index /\ InWindow(s.rob, h)
        /\ \A j \in Index : /\ j # h => t.rob.slot[j] = s.rob.slot[j]
                            /\ Pending(t.rob, j) <=> Pending(s.rob, j)
    <3> DEFINE r == s.rob
               c == Commit(r)
    <3>1. /\ Ring(c) /\ r.head \in Index /\ InWindow(r, r.head)
          /\ \A j \in Index : /\ j # r.head => c.slot[j] = r.slot[j]
                              /\ Pending(c, j) <=> Pending(r, j)
      <4>1. CanCommit(r) /\ Ring(r)
        BY <2>2, Zenon
      <4> HIDE DEF r
      <4> QED
        BY <4>1, CommitRing
    <3>2. t.rob = c
      BY <2>1, Zenon
    <3> QED
      BY <3>1, <3>2, Zenon
  <2>4. DataOK(d)
    BY <2>2, <2>3 DEF Ring
  <2>5. Linked(iq, t.rob)
    <3>1. ~Pending(s.rob, h)
      BY <2>2 DEF CanCommit, Pending
    <3>2. SameData(s.rob, t.rob)
      BY <2>3, <3>1 DEF SameData
    <3> HIDE DEF t
    <3> QED
      BY <2>2, <2>3, <3>2, LinkedSame
  <2> HIDE DEF d, t, h
  <2>6. t.arf \in [Register -> Word]
    <3>1. d.ins.rd \in Register /\ prf[d.prd].value \in Word
      BY <2>4 DEF DataOK, Instruction, Cell
    <3> QED
      BY <2>1, <3>1 DEF RetireOK
  <2>7. t.free \in Seq(Physical)
    <3>1. d.old \in Physical /\ s.free \in Seq(Physical)
      BY <2>4 DEF DataOK, RetireOK
    <3>2. Append(s.free, d.old) \in Seq(Physical)
      BY <3>1
    <3> QED
      BY <2>1, <3>1, <3>2
  <2>8. t.checkpoints \in 0 .. MaxCheckpoints
    <3>1. s.checkpoints \in 0 .. MaxCheckpoints /\ MaxCheckpoints \in Nat
      BY SizeAssumption DEF RetireOK
    <3> QED
      BY <2>1, <3>1
  <2>9. t.lsq \in Seq(LoadStoreSet) /\ Len(t.lsq) <= LSQCapacity
    <3>1. s.lsq \in Seq(LoadStoreSet) /\ Len(s.lsq) <= LSQCapacity /\ LSQCapacity \in Nat
      BY SizeAssumption DEF RetireOK
    <3>2. t.lsq \in Seq(LoadStoreSet) /\ Len(t.lsq) <= Len(s.lsq)
      BY <2>1, <3>1, RemovedEntry
    <3> QED
      BY <3>1, <3>2
  <2>10. t.buffer \in Seq(StoreSet) /\ Len(t.buffer) <= SBCapacity
    <3>1. s.buffer \in Seq(StoreSet) /\ Len(s.buffer) <= SBCapacity
      BY DEF RetireOK
    <3>2. /\ MarkCommitted(s.buffer, h) \in Seq(StoreSet)
          /\ EntriesKept(s.buffer, MarkCommitted(s.buffer, h))
      BY <3>1, MarkCommittedEntries
    <3> QED
      BY <2>1, <3>1, <3>2 DEF EntriesKept
  <2>11. t.stores \in 0 .. n + 1 /\ t.halted \in BOOLEAN
    <3>1. s.stores \in 0 .. n
      BY DEF RetireOK
    <3> QED
      BY <2>1, <3>1
  <2>12. RetireOK(t, n + 1)
    BY <2>3, <2>5, <2>6, <2>7, <2>8, <2>9, <2>10, <2>11 DEF RetireOK
  <2> QED
    BY <2>12 DEF t
<1> QED
  BY <1>1, <1>2

DrainOK(s) == /\ s.buffer \in Seq(StoreSet) /\ Len(s.buffer) <= SBCapacity
              /\ s.mem \in [0 .. DMemWords - 1 -> Word]

LEMMA DrainTyped ==
    ASSUME NEW s, DrainOK(s)
    PROVE  DrainOK(Drain(s))
<1>1. CASE ~CanPop(s.buffer)
  BY <1>1 DEF Drain
<1>2. CASE CanPop(s.buffer)
  <2>1. /\ Drain(s).buffer = Tail(s.buffer)
        /\ Drain(s).mem = Meaning!WriteData(s.mem, Head(s.buffer).addr, Head(s.buffer).data)
    BY <1>2 DEF Drain
  <2>2. s.buffer \in Seq(StoreSet) /\ Len(s.buffer) <= SBCapacity /\ s.buffer # << >>
    BY <1>2 DEF DrainOK, CanPop
  <2>3. /\ Tail(s.buffer) \in Seq(StoreSet) /\ Len(Tail(s.buffer)) = Len(s.buffer) - 1
        /\ Head(s.buffer) \in StoreSet /\ Len(s.buffer) \in Nat /\ SBCapacity \in Nat
    BY <2>2, SizeAssumption
  <2>4. Head(s.buffer).data \in Word
    BY <2>3 DEF StoreSet
  <2>5. Meaning!WriteData(s.mem, Head(s.buffer).addr, Head(s.buffer).data)
          \in [0 .. DMemWords - 1 -> Word]
    BY <2>4, WriteTyped DEF DrainOK
  <2>6. Len(Tail(s.buffer)) <= SBCapacity
    BY <2>2, <2>3
  <2> QED
    BY <2>1, <2>3, <2>5, <2>6 DEF DrainOK
<1> QED
  BY <1>1, <1>2

LEMMA DrainedTyped ==
    ASSUME dmem \in [0 .. DMemWords - 1 -> Word], NEW retired, RetireOK(retired, 2)
    PROVE  DrainOK(Drained(retired))
<1> DEFINE s == [buffer |-> retired.buffer, mem |-> dmem]
<1>1. DrainOK(s)
  BY DEF DrainOK, RetireOK
<1>2. retired.stores \in {0, 1, 2}
  BY DEF RetireOK
<1>3. Drained(retired) = CASE retired.stores = 0 -> s
                           [] retired.stores = 1 -> Drain(s)
                           [] retired.stores = 2 -> Drain(Drain(s))
  BY DEF Drained
<1> HIDE DEF s
<1>4. DrainOK(Drain(s)) /\ DrainOK(Drain(Drain(s)))
  BY <1>1, DrainTyped
<1> QED
  BY <1>1, <1>2, <1>3, <1>4

LEMMA CommitStageKeeps ==
    ASSUME MachineOK, CommitStage
    PROVE  MachineOK'
<1> DEFINE first == [rob |-> rob, arf |-> arf, free |-> freeList,
                     checkpoints |-> checkpoints, lsq |-> lsq, buffer |-> storeBuffer,
                     stores |-> 0, halted |-> FALSE]
           retired == RetireHead(RetireHead(first))
<1>1. prf \in [Physical -> Cell] /\ dmem \in [0 .. DMemWords - 1 -> Word]
  BY DEF MachineOK
<1>2. RetireOK(first, 0)
  BY DEF MachineOK, RetireOK
<1>3. /\ rob' = retired.rob /\ arf' = retired.arf /\ freeList' = retired.free
      /\ checkpoints' = retired.checkpoints /\ lsq' = retired.lsq
      /\ storeBuffer' = Drained(retired).buffer /\ dmem' = Drained(retired).mem
      /\ halted' = retired.halted
      /\ UNCHANGED <<rom, frontend, haltDispatched, iq, prf, rat, predictor>>
  BY DEF CommitStage
<1> HIDE DEF first
<1>4. RetireOK(RetireHead(first), 1)
  BY <1>1, <1>2, RetireHeadTyped
<1>5. RetireOK(retired, 2)
  BY <1>1, <1>4, RetireHeadTyped
<1> HIDE DEF retired
<1>6. DrainOK(Drained(retired))
  BY <1>1, <1>5, DrainedTyped
<1>7. stage' \in Stages
  BY DEF CommitStage, Stages
<1> QED
  BY <1>3, <1>5, <1>6, <1>7 DEF MachineOK, RetireOK, DrainOK, frontend

-----------------------------------------------------------------------------
(* Renaming, one lane after the other. *)
BundleSet == [lane : LaneSet, rs1 : Physical, rs2 : Physical, prd : Physical, old : Physical]

RenameOK(s) == /\ s.rat \in [Register -> Physical]
               /\ s.freeList \in Seq(Physical)
               /\ s.prf \in [Physical -> Cell]
               /\ s.out \in Seq(BundleSet)

LEMMA EnoughRegisters ==
    ASSUME NEW lanes, Len(lanes) \in {1, 2}, DOMAIN lanes = 1 .. Len(lanes),
           CanRename(lanes), Len(freeList) \in Nat
    PROVE  /\ WritesRegister(lanes[1].ins) => Len(freeList) >= 1
           /\ Len(lanes) = 2 /\ WritesRegister(lanes[2].ins) =>
                 Len(freeList) >= IF WritesRegister(lanes[1].ins) THEN 2 ELSE 1
<1> DEFINE W == {k \in DOMAIN lanes : WritesRegister(lanes[k].ins)}
<1>1. Cardinality(W) <= Len(freeList)
  BY DEF CanRename
<1>2. W \in SUBSET {1, 2} /\ IsFiniteSet({1, 2})
  <2>1. IsFiniteSet({1}) /\ {1, 2} = {1} \cup {2}
    BY FS_Singleton
  <2>2. IsFiniteSet({1, 2})
    BY <2>1, FS_AddElement
  <2> QED
    BY <2>2
<1>3. IsFiniteSet(W) /\ Cardinality(W) \in Nat
  BY <1>2, FS_Subset, FS_CardinalityType
<1>4. W # {} => Len(freeList) >= 1
  BY <1>1, <1>3, FS_EmptySet
<1>5. W = {1, 2} => Len(freeList) >= 2
  <2>1. 2 \in Nat /\ {1, 2} = 1 .. 2
    OBVIOUS
  <2>2. Cardinality(1 .. 2) = 2
    BY <2>1, IntervalSize
  <2>4. Cardinality({1, 2}) = 2
    BY <2>1, <2>2, Zenon
  <2>5. Cardinality(W) <= Len(freeList)
    BY <1>1
  <2> HIDE DEF W
  <2>6. ASSUME W = {1, 2} PROVE Cardinality(W) = 2
    BY <2>4, <2>6
  <2> DEFINE n == Cardinality(W)
  <2>7. n <= Len(freeList) /\ (W = {1, 2} => n = 2)
    BY <2>5, <2>6
  <2> HIDE DEF n
  <2> QED
    BY <2>7
<1>6. 1 \in DOMAIN lanes /\ (Len(lanes) = 2 => DOMAIN lanes = {1, 2})
  OBVIOUS
<1> QED
  BY <1>4, <1>5, <1>6

LEMMA RenameTyped ==
    ASSUME NEW s, RenameOK(s), NEW l \in LaneSet,
           WritesRegister(l.ins) => Len(s.freeList) >= 1
    PROVE  LET t == Rename(s, l)
           IN  /\ RenameOK(t)
               /\ Len(t.freeList) = IF WritesRegister(l.ins) THEN Len(s.freeList) - 1
                                    ELSE Len(s.freeList)
               /\ Len(t.out) = Len(s.out) + 1
<1> DEFINE t == Rename(s, l)
           writes == WritesRegister(l.ins)
           p == Head(s.freeList)
           b == [lane |-> l, rs1 |-> s.rat[l.ins.rs1], rs2 |-> s.rat[l.ins.rs2],
                 prd |-> IF writes THEN p ELSE 0,
                 old |-> IF writes THEN OldMapping(s, l) ELSE 0]
<1>1. l.ins.rd \in Register /\ l.ins.rs1 \in Register /\ l.ins.rs2 \in Register
  BY DEF LaneSet, Instruction
<1>2. writes => /\ p \in Physical /\ Tail(s.freeList) \in Seq(Physical)
                /\ Len(Tail(s.freeList)) = Len(s.freeList) - 1
  BY DEF RenameOK
<1>3. b \in BundleSet
  BY <1>1, <1>2, ZeroTyped DEF BundleSet, OldMapping, RenameOK
<1>4. /\ t.rat = IF writes THEN [s.rat EXCEPT ![l.ins.rd] = p] ELSE s.rat
      /\ t.freeList = IF writes THEN Tail(s.freeList) ELSE s.freeList
      /\ t.prf = IF writes THEN [s.prf EXCEPT ![p] = [ready |-> FALSE, value |-> 0]] ELSE s.prf
      /\ t.out = Append(s.out, b)
  BY DEF Rename
<1>5. [ready |-> FALSE, value |-> 0] \in Cell
  BY WordIsInt DEF Cell
<1> HIDE DEF t, b, p, writes
<1>6. t.rat \in [Register -> Physical] /\ t.prf \in [Physical -> Cell]
  BY <1>1, <1>2, <1>4, <1>5 DEF RenameOK
<1>7. /\ t.freeList \in Seq(Physical)
      /\ Len(t.freeList) = IF writes THEN Len(s.freeList) - 1 ELSE Len(s.freeList)
  BY <1>2, <1>4 DEF RenameOK
<1>8. t.out \in Seq(BundleSet) /\ Len(t.out) = Len(s.out) + 1
  BY <1>3, <1>4 DEF RenameOK
<1> QED
  BY <1>6, <1>7, <1>8 DEF RenameOK, t, writes

LEMMA RenamedTyped ==
    ASSUME MachineOK, CanRename(Lanes)
    PROVE  RenameOK(Renamed(Lanes)) /\ Len(Renamed(Lanes).out) = Len(Lanes)
<1> DEFINE s == [rat |-> rat, freeList |-> freeList, prf |-> prf, out |-> << >>]
           lanes == Lanes
<1>1. lanes \in Seq(LaneSet) /\ Len(lanes) \in {1, 2}
  BY LanesTyped
<1>2. RenameOK(s) /\ Len(s.out) = 0
  BY DEF MachineOK, RenameOK
<1>3. CanRename(lanes) /\ s.freeList = freeList /\ Len(freeList) \in Nat
  BY DEF MachineOK
<1>4. /\ Len(lanes) = 1 => Renamed(lanes) = Rename(s, lanes[1])
      /\ Len(lanes) = 2 => Renamed(lanes) = Rename(Rename(s, lanes[1]), lanes[2])
  BY DEF Renamed, ForEach
<1> HIDE DEF s, lanes
<1>5. /\ WritesRegister(lanes[1].ins) => Len(freeList) >= 1
      /\ Len(lanes) = 2 /\ WritesRegister(lanes[2].ins) =>
            Len(freeList) >= IF WritesRegister(lanes[1].ins) THEN 2 ELSE 1
  BY <1>1, <1>3, EnoughRegisters
<1>6. lanes[1] \in LaneSet /\ (Len(lanes) = 2 => lanes[2] \in LaneSet)
  BY <1>1
<1> DEFINE t == Rename(s, lanes[1])
           u == Rename(t, lanes[2])
<1>7. /\ RenameOK(t) /\ Len(t.out) = 1
      /\ Len(t.freeList) = IF WritesRegister(lanes[1].ins) THEN Len(freeList) - 1
                           ELSE Len(freeList)
  <2>1. WritesRegister(lanes[1].ins) => Len(s.freeList) >= 1
    BY <1>3, <1>5
  <2>2. /\ RenameOK(t) /\ Len(t.out) = Len(s.out) + 1
        /\ Len(t.freeList) = IF WritesRegister(lanes[1].ins) THEN Len(s.freeList) - 1
                             ELSE Len(s.freeList)
    BY <1>2, <1>6, <2>1, RenameTyped
  <2> QED
    BY <1>2, <1>3, <2>2
<1> HIDE DEF t
<1>8. Len(lanes) = 2 => RenameOK(u) /\ Len(u.out) = 2
  <2>1. Len(lanes) = 2 /\ WritesRegister(lanes[2].ins) => Len(t.freeList) >= 1
    BY <1>3, <1>5, <1>7
  <2>2. CASE Len(lanes) = 2
    <3>1. RenameOK(u) /\ Len(u.out) = Len(t.out) + 1
      BY <1>6, <1>7, <2>1, <2>2, RenameTyped
    <3> QED
      BY <1>7, <3>1
  <2> QED
    BY <2>2
<1> HIDE DEF u
<1>9. /\ Len(lanes) = 1 => Renamed(lanes) = t
      /\ Len(lanes) = 2 => Renamed(lanes) = u
  BY <1>4 DEF t, u
<1> QED
  BY <1>1, <1>7, <1>8, <1>9 DEF lanes

-----------------------------------------------------------------------------
(* Dispatch, one lane after the other. *)
DispatchOK(s, n) ==
    /\ Ring(s.rob) /\ Linked(s.iq, s.rob)
    /\ s.lsq \in Seq(LoadStoreSet) /\ Len(s.lsq) <= LSQCapacity
    /\ s.buffer \in Seq(StoreSet) /\ Len(s.buffer) <= SBCapacity
    /\ s.halt \in BOOLEAN
    /\ s.taken \in 0 .. n

LEMMA DispatchedData ==
    ASSUME NEW renamed, RenameOK(renamed), NEW b \in BundleSet, NEW r \in Index
    PROVE  /\ DataOK(RobData(renamed, b))
           /\ IssueEntry(renamed, b, r) \in EntrySet
           /\ IssueEntry(renamed, b, r).rob = r
           /\ Describes(IssueEntry(renamed, b, r), RobData(renamed, b))
<1>1. /\ b.lane.pc \in PcValue /\ b.lane.ins \in Instruction
      /\ b.prd \in Physical /\ b.old \in Physical /\ b.rs1 \in Physical /\ b.rs2 \in Physical
      /\ b.lane.pred.taken \in BOOLEAN /\ b.lane.pred.target \in PcValue
  BY DEF BundleSet, LaneSet
<1>2. DataOK(RobData(renamed, b))
  BY <1>1 DEF DataOK, RobData, RenameOK
<1>3. \A p \in Physical, reads \in BOOLEAN : Operand(reads, p, renamed.prf) \in OperandSet
  BY WordIsInt DEF Operand, OperandSet, RenameOK, Cell
<1>4. ReadsRs1(b.lane.ins) \in BOOLEAN /\ ReadsRs2(b.lane.ins) \in BOOLEAN
  BY DEF ReadsRs1, ReadsRs2
<1>5. /\ Operand(ReadsRs1(b.lane.ins), b.rs1, renamed.prf) \in OperandSet
      /\ Operand(ReadsRs2(b.lane.ins), b.rs2, renamed.prf) \in OperandSet
  BY <1>1, <1>3, <1>4
<1>6. IssueEntry(renamed, b, r) \in EntrySet
  BY <1>1, <1>5 DEF IssueEntry, EntrySet
<1>7. /\ IssueEntry(renamed, b, r).rob = r
      /\ Describes(IssueEntry(renamed, b, r), RobData(renamed, b))
  BY DEF IssueEntry, RobData, Describes
<1> QED
  BY <1>2, <1>6, <1>7

LEMMA AllocatedEntries ==
    ASSUME NEW r \in Index,
           NEW q \in Seq(LoadStoreSet), Len(q) <= LSQCapacity,
           NEW b \in Seq(StoreSet), Len(b) <= SBCapacity
    PROVE  /\ \A type \in {"LOAD", "STORE"} : /\ LsqAllocate(q, type, r) \in Seq(LoadStoreSet)
                                              /\ Len(LsqAllocate(q, type, r)) <= LSQCapacity
           /\ SBAllocate(b, r) \in Seq(StoreSet) /\ Len(SBAllocate(b, r)) <= SBCapacity
<1>1. LSQCapacity \in Nat /\ SBCapacity \in Nat
  BY SizeAssumption
<1>2. \A type \in {"LOAD", "STORE"} : LsqEntry(type, r) \in LoadStoreSet
  BY DEF LsqEntry, LoadStoreSet
<1>3. StoreEntry(r) \in StoreSet
  BY WordIsInt DEF StoreEntry, StoreSet
<1> QED
  BY <1>1, <1>2, <1>3 DEF LsqAllocate, SBAllocate

LEMMA DispatchTyped ==
    ASSUME NEW renamed, RenameOK(renamed), NEW b \in BundleSet,
           NEW n \in Nat, NEW s, DispatchOK(s, n)
    PROVE  DispatchOK(Dispatch(renamed, s, b), n + 1)
<1>1. CASE s.halt
  <2>1. Dispatch(renamed, s, b) = s
    BY <1>1 DEF Dispatch
  <2> QED
    BY <2>1 DEF DispatchOK
<1>2. CASE ~s.halt /\ (Full(s.rob) \/ IQFull(s.iq))
  <2>1. Dispatch(renamed, s, b) = [s EXCEPT !.taken = @ + 1]
    BY <1>2 DEF Dispatch
  <2> DEFINE t == [s EXCEPT !.taken = @ + 1]
  <2>2. /\ t.rob = s.rob /\ t.iq = s.iq /\ t.lsq = s.lsq /\ t.buffer = s.buffer
        /\ t.halt = s.halt
    OBVIOUS
  <2>3. t.taken \in 0 .. n + 1
    BY DEF DispatchOK
  <2> HIDE DEF t
  <2>4. DispatchOK(t, n + 1)
    BY <2>2, <2>3 DEF DispatchOK
  <2> QED
    BY <2>1, <2>4 DEF t
<1>3. CASE ~s.halt /\ ~(Full(s.rob) \/ IQFull(s.iq))
  <2> DEFINE ins == b.lane.ins
             r == s.rob.tail
             a == Allocate(s.rob, RobData(renamed, b))
             e == IssueEntry(renamed, b, r)
             t == Dispatch(renamed, s, b)
  <2>1. /\ t.rob = IF CompletesAtDispatch(ins) THEN Complete(a, r) ELSE a
        /\ t.iq = IF CompletesAtDispatch(ins) THEN s.iq ELSE Insert(s.iq, e)
        /\ t.lsq = CASE ins.op = "LW" -> LsqAllocate(s.lsq, "LOAD", r)
                     [] ins.op = "SW" -> LsqAllocate(s.lsq, "STORE", r)
                     [] OTHER -> s.lsq
        /\ t.buffer = IF ins.op = "SW" THEN SBAllocate(s.buffer, r) ELSE s.buffer
        /\ t.halt = (ins.op = "HALT")
        /\ t.taken = s.taken + 1
    BY <1>3 DEF Dispatch
  <2>2. Ring(s.rob) /\ ~Full(s.rob) /\ Linked(s.iq, s.rob) /\ ~IQFull(s.iq)
    BY <1>3 DEF DispatchOK
  <2>3. r \in Index
    BY <2>2 DEF Ring, InOrder
  <2>4. /\ DataOK(RobData(renamed, b)) /\ e \in EntrySet /\ e.rob = r
        /\ Describes(e, RobData(renamed, b))
    BY <2>3, DispatchedData
  <2>5. /\ Ring(a) /\ ~InWindow(s.rob, r) /\ a.slot[r].data = RobData(renamed, b)
        /\ InWindow(a, r)
        /\ \A j \in Index : /\ j # r => a.slot[j] = s.rob.slot[j]
                            /\ Pending(a, j) <=> Pending(s.rob, j) \/ j = r
    <3> DEFINE q == s.rob
               d == RobData(renamed, b)
               c == Allocate(q, d)
    <3>1. /\ Ring(c) /\ ~InWindow(q, q.tail) /\ c.slot[q.tail].data = d
          /\ q.tail \in Index
          /\ \A j \in Index : /\ j # q.tail => c.slot[j] = q.slot[j]
                              /\ InWindow(c, j) <=> InWindow(q, j) \/ j = q.tail
                              /\ Pending(c, j) <=> Pending(q, j) \/ j = q.tail
      <4>1. Ring(q) /\ ~Full(q) /\ DataOK(d)
        BY <2>2, <2>4
      <4> HIDE DEF q, d
      <4> QED
        BY <4>1, AllocateRing
    <3> QED
      BY <3>1, Zenon
  <2>6. ~Pending(s.rob, r)
    BY <2>5 DEF Pending
  <2> HIDE DEF ins, r, a, e, t
  <2>7. Ring(t.rob) /\ Linked(t.iq, t.rob)
    <3>1. CASE CompletesAtDispatch(ins)
      <4> DEFINE c == Complete(a, r)
      <4>1. t.rob = c /\ t.iq = s.iq
        BY <2>1, <3>1
      <4>2. /\ Ring(c)
            /\ \A j \in Index : /\ c.slot[j].data = a.slot[j].data
                                /\ Pending(c, j) <=> Pending(a, j) /\ j # r
        BY <2>3, <2>5, CompleteRing
      <4> HIDE DEF c
      <4>3. \A j \in Index : Pending(c, j) <=> Pending(s.rob, j)
        BY <2>5, <2>6, <4>2
      <4>4. SameData(s.rob, c)
        BY <2>5, <2>6, <4>2 DEF SameData
      <4>5. Linked(s.iq, c)
        BY <2>2, <4>3, <4>4, LinkedSame
      <4> QED
        BY <4>1, <4>2, <4>5
    <3>2. CASE ~CompletesAtDispatch(ins)
      <4>1. t.rob = a /\ t.iq = Insert(s.iq, e)
        BY <2>1, <3>2
      <4>2. SameData(s.rob, a)
        BY <2>5, <2>6 DEF SameData
      <4>3. \A j \in Index : Pending(a, j) <=> Pending(s.rob, j) \/ j = e.rob
        BY <2>4, <2>5
      <4>4. ~Pending(s.rob, e.rob) /\ Describes(e, a.slot[e.rob].data)
        BY <2>4, <2>5, <2>6
      <4>5. Linked(Insert(s.iq, e), a)
        BY <2>2, <2>4, <4>2, <4>3, <4>4, LinkedInsert
      <4> QED
        BY <2>5, <4>1, <4>5
    <3> QED
      BY <3>1, <3>2
  <2>8. /\ t.lsq \in Seq(LoadStoreSet) /\ Len(t.lsq) <= LSQCapacity
        /\ t.buffer \in Seq(StoreSet) /\ Len(t.buffer) <= SBCapacity
    <3>1. /\ s.lsq \in Seq(LoadStoreSet) /\ Len(s.lsq) <= LSQCapacity
          /\ s.buffer \in Seq(StoreSet) /\ Len(s.buffer) <= SBCapacity
      BY DEF DispatchOK
    <3>2. /\ \A type \in {"LOAD", "STORE"} :
                /\ LsqAllocate(s.lsq, type, r) \in Seq(LoadStoreSet)
                /\ Len(LsqAllocate(s.lsq, type, r)) <= LSQCapacity
          /\ SBAllocate(s.buffer, r) \in Seq(StoreSet)
          /\ Len(SBAllocate(s.buffer, r)) <= SBCapacity
      BY <2>3, <3>1, AllocatedEntries
    <3> QED
      BY <2>1, <3>1, <3>2
  <2>9. t.halt \in BOOLEAN /\ t.taken \in 0 .. n + 1
    BY <2>1 DEF DispatchOK
  <2>10. DispatchOK(t, n + 1)
    BY <2>7, <2>8, <2>9 DEF DispatchOK
  <2> QED
    BY <2>10 DEF t
<1> QED
  BY <1>1, <1>2, <1>3

LEMMA DispatchedTyped ==
    ASSUME MachineOK, NEW renamed, RenameOK(renamed), Len(renamed.out) \in {1, 2}
    PROVE  DispatchOK(Dispatched(renamed), 2)
<1> DEFINE s == [rob |-> rob, iq |-> iq, lsq |-> lsq, buffer |-> storeBuffer,
                 halt |-> FALSE, taken |-> 0]
           out == renamed.out
<1>1. DispatchOK(s, 0)
  BY DEF DispatchOK, MachineOK
<1>2. out[1] \in BundleSet /\ (Len(out) = 2 => out[2] \in BundleSet) /\ Len(out) \in {1, 2}
  BY DEF RenameOK
<1>3. /\ Len(out) = 1 => Dispatched(renamed) = Dispatch(renamed, s, out[1])
      /\ Len(out) = 2 => Dispatched(renamed) = Dispatch(renamed, Dispatch(renamed, s, out[1]), out[2])
  BY DEF Dispatched, ForEach
<1> HIDE DEF s, out
<1> DEFINE t == Dispatch(renamed, s, out[1])
           u == Dispatch(renamed, t, out[2])
<1>4. DispatchOK(t, 1)
  BY <1>1, <1>2, DispatchTyped
<1>5. DispatchOK(t, 2)
  BY <1>4 DEF DispatchOK
<1> HIDE DEF t
<1>6. Len(out) = 2 => DispatchOK(u, 2)
  BY <1>2, <1>4, DispatchTyped
<1> QED
  BY <1>2, <1>3, <1>5, <1>6 DEF t

LEMMA RenameStage ==
    ASSUME MachineOK, RenameAndDispatch
    PROVE  MachineOK'
<1> DEFINE renamed == Renamed(Lanes)
           dispatched == Dispatched(renamed)
<1>1. /\ redirect' = PredictedRedirect(Lanes)
      /\ rat' = renamed.rat /\ freeList' = renamed.freeList /\ prf' = renamed.prf
      /\ rob' = dispatched.rob /\ iq' = dispatched.iq /\ lsq' = dispatched.lsq
      /\ storeBuffer' = dispatched.buffer /\ haltDispatched' = dispatched.halt
      /\ checkpoints' = Min({MaxCheckpoints, checkpoints + dispatched.taken})
      /\ UNCHANGED <<rom, fetchPc, fd, halted, arf, dmem, predictor>>
  BY DEF RenameAndDispatch
<1>2. Len(Lanes) \in {1, 2} /\ redirect' \in [on : BOOLEAN, pc : PcValue]
  BY <1>1, LanesTyped
<1>3. RenameOK(renamed) /\ Len(renamed.out) \in {1, 2}
  BY <1>2, RenamedTyped DEF RenameAndDispatch
<1> HIDE DEF renamed
<1>4. DispatchOK(dispatched, 2)
  BY <1>3, DispatchedTyped
<1> HIDE DEF dispatched
<1>5. checkpoints' \in 0 .. MaxCheckpoints
  <2> DEFINE S == {MaxCheckpoints, checkpoints + dispatched.taken}
  <2>0. MaxCheckpoints \in Nat
    BY SizeAssumption
  <2>1. MaxCheckpoints \in Nat /\ checkpoints + dispatched.taken \in Nat
    <3>1. checkpoints \in Nat /\ dispatched.taken \in Nat
      BY <1>4, <2>0 DEF MachineOK, DispatchOK
    <3> QED
      BY <2>0, <3>1
  <2>2. S \subseteq Nat /\ S # {} /\ MaxCheckpoints \in S
    BY <2>1
  <2>3. checkpoints' = Min(S)
    BY <1>1
  <2> HIDE DEF S
  <2>4. Min(S) \in S /\ Min(S) <= MaxCheckpoints
    BY <2>2, MinIsLeast
  <2>5. Min(S) \in Nat
    BY <2>2, <2>4
  <2> QED
    BY <2>0, <2>3, <2>4, <2>5
<1>6. stage' \in Stages
  BY DEF RenameAndDispatch, Stages
<1> QED
  BY <1>1, <1>2, <1>3, <1>4, <1>5, <1>6 DEF MachineOK, RenameOK, DispatchOK

-----------------------------------------------------------------------------
LEMMA MachineStep == MachineOK /\ [Next]_vars => MachineOK'
<1> SUFFICES ASSUME MachineOK, [Next]_vars PROVE MachineOK'
  OBVIOUS
<1>1. CASE CommitStage
  BY <1>1, CommitStageKeeps
<1>2. CASE MemoryIdle
  BY <1>2, MemoryIdleStage
<1>3. CASE ExecuteLoad
  BY <1>3, LoadStage
<1>4. CASE ExecuteStore
  BY <1>4, StoreStage
<1>5. CASE NoBranchReady \/ AluIdle \/ RenameIdle
  BY <1>5, IdleStages
<1>6. CASE BranchAsPredicted
  BY <1>6, PredictedBranchStage
<1>7. CASE BranchMispredicted
  BY <1>7, RecoveryStage
<1>8. CASE ExecuteAlu
  BY <1>8, AluStage
<1>9. CASE BundleNotRenamed
  BY <1>9, RejectedBundle
<1>10. CASE RenameAndDispatch
  BY <1>10, RenameStage
<1>11. CASE Fetch
  BY <1>11, FetchStage
<1>12. CASE UNCHANGED vars
  BY <1>12 DEF vars, MachineOK, frontend, renaming, memory
<1> QED
  BY <1>1, <1>2, <1>3, <1>4, <1>5, <1>6, <1>7, <1>8, <1>9, <1>10, <1>11, <1>12 DEF Next

(* The state of the CPU keeps the shape MachineOK describes, for every      *)
(* program and every size of the queues and of the register file.           *)
THEOREM MachineHolds == Spec => []MachineOK
BY MachineInit, MachineStep, PTL DEF Spec

(* No variable ever leaves its type: no queue outgrows its capacity, no     *)
(* register number its file and no word or PC its width.                    *)
THEOREM TypesHold == Spec => []TypeOK
<1>1. MachineOK => TypeOK
  <2> SUFFICES ASSUME MachineOK PROVE TypeOK
    OBVIOUS
  <2>1. /\ DOMAIN rob.slot = Index
        /\ rob.head \in Index /\ rob.tail \in Index /\ rob.count \in 0 .. Capacity
    BY DEF MachineOK, Ring, InOrder
  <2>2. DOMAIN iq = IQSlot
    BY DEF MachineOK, Linked
  <2>3. \A k \in DOMAIN freeList : freeList[k] \in Physical
    BY DEF MachineOK
  <2>4. \A i \in DOMAIN predictor : predictor[i].counter \in 0 .. 3
    BY DEF MachineOK, PredictionSet
  <2> QED
    BY <2>1, <2>2, <2>3, <2>4 DEF MachineOK, TypeOK, PcValue, Cell
<1> QED
  BY <1>1, MachineHolds, PTL

(* The instructions that still have to execute are those of the issue       *)
(* queue, each in one slot: this is what a commit, a completion, a dispatch *)
(* that fills a queue half way through a bundle and a squash have to keep.  *)
THEOREM IssueQueueMirrors == Spec => []IqMirrorsRob
<1>1. MachineOK => IqMirrorsRob
  BY DEF MachineOK, Linked, IqMirrorsRob, Pending, Describes, InFlight, Data
<1> QED
  BY <1>1, MachineHolds, PTL

-----------------------------------------------------------------------------
(* The memory queues against the reorder buffer.  A queue tracks the        *)
(* instructions in flight that have one of some opcodes, in program order,  *)
(* behind n entries whose instruction has retired.                          *)
Tracks(q, n, r, ops) ==
    /\ n \in 0 .. Len(q)
    /\ \A k \in 1 .. Len(q) : q[k].rob \in Index /\ (InWindow(r, q[k].rob) <=> k > n)
    /\ \A k \in 1 .. Len(q) : k > n => r.slot[q[k].rob].data.ins.op \in ops
    /\ \A s \in Index : InWindow(r, s) /\ r.slot[s].data.ins.op \in ops =>
          \E k \in 1 .. Len(q) : k > n /\ q[k].rob = s
    /\ \A j, k \in 1 .. Len(q) : n < j /\ j < k => Position(r, q[j].rob) < Position(r, q[k].rob)

LEMMA TrackedOnce ==
    ASSUME NEW S, NEW q \in Seq(S), NEW n \in Nat, NEW r, NEW ops, Ring(r), Tracks(q, n, r, ops),
           NEW j \in 1 .. Len(q), NEW k \in 1 .. Len(q), n < k, q[j].rob = q[k].rob
    PROVE  j = k
<1>1. n < j
  BY DEF Tracks
<1>2. Position(r, q[j].rob) \in Int
  BY PositionValue DEF Tracks, Ring, InOrder, Index
<1> QED
  BY <1>1, <1>2 DEF Tracks

(* The first match is the entry of an instruction in flight. *)
LEMMA TrackedFind ==
    ASSUME NEW S, NEW q \in Seq(S), NEW n \in Nat, NEW r, NEW ops, Ring(r), Tracks(q, n, r, ops),
           NEW s \in Index, InWindow(r, s)
    PROVE  IF r.slot[s].data.ins.op \in ops
           THEN Find(q, s) \in 1 .. Len(q) /\ Find(q, s) > n /\ q[Find(q, s)].rob = s
           ELSE Find(q, s) = 0
<1> DEFINE i == Find(q, s)
<1>1. /\ i \in 0 .. Len(q)
      /\ i = 0 => \A k \in 1 .. Len(q) : q[k].rob # s
      /\ i # 0 => q[i].rob = s
  BY FindEntry
<1> HIDE DEF i
<1>2. CASE r.slot[s].data.ins.op \in ops
  <2>1. PICK k \in 1 .. Len(q) : k > n /\ q[k].rob = s
    BY <1>2 DEF Tracks
  <2>2. i \in 1 .. Len(q) /\ q[i].rob = s
    BY <1>1, <2>1
  <2>3. i > n
    BY <2>2 DEF Tracks
  <2> QED
    BY <1>2, <2>2, <2>3 DEF i
<1>3. CASE r.slot[s].data.ins.op \notin ops
  <2>1. i # 0 => i \in 1 .. Len(q) /\ q[i].rob = s
    BY <1>1
  <2>2. i # 0 => i > n
    BY <2>1 DEF Tracks
  <2>3. i = 0
    BY <1>3, <2>1, <2>2 DEF Tracks
  <2> QED
    BY <1>3, <2>3 DEF i
<1> QED
  BY <1>2, <1>3

(* A change that keeps the window, the order and the instructions. *)
LEMMA TracksKept ==
    ASSUME NEW S, NEW q \in Seq(S), NEW t \in Seq(S), EntriesKept(q, t),
           NEW n \in Nat, NEW r, NEW ops, Tracks(q, n, r, ops), NEW s,
           \A j \in Index : /\ Position(s, j) = Position(r, j)
                            /\ InWindow(s, j) <=> InWindow(r, j)
                            /\ s.slot[j].data = r.slot[j].data
    PROVE  Tracks(t, n, s, ops)
<1>1. Len(t) = Len(q) /\ \A k \in 1 .. Len(q) : t[k].rob = q[k].rob /\ q[k].rob \in Index
  BY DEF Tracks, EntriesKept
<1>2. \A k \in 1 .. Len(q) : InWindow(s, q[k].rob) <=> k > n
  BY <1>1 DEF Tracks
<1>3. \A k \in 1 .. Len(q) : k > n => s.slot[q[k].rob].data.ins.op \in ops
  BY <1>1 DEF Tracks
<1>4. \A i \in Index : InWindow(s, i) /\ s.slot[i].data.ins.op \in ops =>
          \E k \in 1 .. Len(q) : k > n /\ q[k].rob = i
  BY DEF Tracks
<1>5. \A j, k \in 1 .. Len(q) : n < j /\ j < k => Position(s, q[j].rob) < Position(s, q[k].rob)
  BY <1>1 DEF Tracks
<1>6. n \in 0 .. Len(q)
  BY DEF Tracks
<1> QED
  BY <1>1, <1>2, <1>3, <1>4, <1>5, <1>6 DEF Tracks

(* The queue is never longer than the reorder buffer is full. *)
LEMMA TrackedFit ==
    ASSUME NEW S, NEW q \in Seq(S), NEW r, NEW ops, Ring(r), Tracks(q, 0, r, ops)
    PROVE  Len(q) <= r.count
<1> DEFINE D == 1 .. Len(q)
           W == 0 .. r.count - 1
           f == [k \in D |-> Position(r, q[k].rob)]
<1>1. r.count \in Nat /\ r.head \in Index /\ Len(q) \in Nat
  BY CapacityAssumption DEF Ring, InOrder
<1>2. \A k \in D : Position(r, q[k].rob) \in W
  BY <1>1, PositionValue DEF Tracks, InWindow, Index
<1>3. f \in [D -> W]
  BY <1>2
<1>4. \A j, k \in D : f[j] = f[k] => j = k
  <2> SUFFICES ASSUME NEW j \in D, NEW k \in D, f[j] = f[k] PROVE j = k
    OBVIOUS
  <2>1. Position(r, q[j].rob) \in Int /\ Position(r, q[j].rob) = Position(r, q[k].rob)
    BY <1>1, <1>2
  <2>2. ~(j < k) /\ ~(k < j)
    BY <2>1 DEF Tracks
  <2> QED
    BY <1>1, <2>2
<1>5. f \in Injection(D, W)
  <2> HIDE DEF f, D, W
  <2> QED
    BY <1>3, <1>4 DEF Injection, IsInjective
<1>6. IsFiniteSet(D) /\ Cardinality(D) = Len(q) /\ IsFiniteSet(W) /\ Cardinality(W) = r.count
  <2>1. /\ IsFiniteSet(D) /\ Cardinality(D) = IF 1 > Len(q) THEN 0 ELSE Len(q) - 1 + 1
        /\ IsFiniteSet(W)
        /\ Cardinality(W) = IF 0 > r.count - 1 THEN 0 ELSE r.count - 1 - 0 + 1
    <3>1. 1 \in Int /\ Len(q) \in Int /\ 0 \in Int /\ r.count - 1 \in Int
      BY <1>1
    <3> QED
      BY <3>1, FS_Interval
  <2> HIDE DEF D, W
  <2> QED
    BY <1>1, <2>1
<1> HIDE DEF D, W, f
<1>7. Cardinality(D) <= Cardinality(W)
  BY <1>5, <1>6, FS_Injection
<1> QED
  BY <1>6, <1>7

(* Dispatch: the new instruction is the youngest. *)
LEMMA TracksAllocated ==
    ASSUME NEW S, NEW q \in Seq(S), NEW r, NEW ops, Tracks(q, 0, r, ops),
           Ring(r), ~Full(r), NEW d, DataOK(d),
           NEW t \in Seq(S),
           IF d.ins.op \in ops
           THEN /\ Len(t) = Len(q) + 1 /\ t[Len(q) + 1].rob = r.tail
                /\ \A k \in 1 .. Len(q) : t[k].rob = q[k].rob
           ELSE EntriesKept(q, t)
    PROVE  Tracks(t, 0, Allocate(r, d), ops)
<1> DEFINE s == Allocate(r, d)
<1>1. /\ r.tail \in Index /\ ~InWindow(r, r.tail) /\ Position(r, r.tail) = r.count
      /\ s.slot[r.tail].data = d
      /\ \A j \in Index : /\ Position(s, j) = Position(r, j)
                          /\ InWindow(s, j) <=> InWindow(r, j) \/ j = r.tail
                          /\ j # r.tail => s.slot[j] = r.slot[j]
  BY AllocateRing
<1> HIDE DEF s
<1>2. /\ Len(q) \in Nat /\ Len(t) \in Nat
      /\ \A k \in 1 .. Len(q) : /\ q[k].rob \in Index /\ InWindow(r, q[k].rob)
                                /\ r.slot[q[k].rob].data.ins.op \in ops
                                /\ q[k].rob # r.tail
  BY <1>1 DEF Tracks
<1>3. \A k \in 1 .. Len(q) : /\ t[k].rob = q[k].rob /\ InWindow(s, t[k].rob)
                             /\ s.slot[t[k].rob].data.ins.op \in ops
                             /\ Position(s, t[k].rob) = Position(r, q[k].rob)
                             /\ Position(s, t[k].rob) < r.count
  <2> SUFFICES ASSUME NEW k \in 1 .. Len(q)
               PROVE  /\ t[k].rob = q[k].rob /\ InWindow(s, t[k].rob)
                      /\ s.slot[t[k].rob].data.ins.op \in ops
                      /\ Position(s, t[k].rob) = Position(r, q[k].rob)
                      /\ Position(s, t[k].rob) < r.count
    OBVIOUS
  <2>1. t[k].rob = q[k].rob
    BY DEF EntriesKept
  <2>2. q[k].rob \in Index /\ q[k].rob # r.tail /\ InWindow(r, q[k].rob)
    BY <1>2
  <2>3. Position(r, q[k].rob) < r.count
    BY <2>2 DEF InWindow
  <2> QED
    BY <1>1, <1>2, <2>1, <2>2, <2>3
<1>4. \A i \in Index : InWindow(r, i) /\ r.slot[i].data.ins.op \in ops =>
         \E k \in 1 .. Len(q) : q[k].rob = i
  BY DEF Tracks
<1>5. \A j, k \in 1 .. Len(q) : j < k => Position(r, q[j].rob) < Position(r, q[k].rob)
  BY DEF Tracks
<1>6. CASE d.ins.op \notin ops
  <2>1. Len(t) = Len(q)
    BY <1>6 DEF EntriesKept
  <2>2. \A i \in Index : InWindow(s, i) /\ s.slot[i].data.ins.op \in ops =>
           \E k \in 1 .. Len(t) : k > 0 /\ t[k].rob = i
    BY <1>1, <1>2, <1>3, <1>4, <1>6, <2>1
  <2>3. s = Allocate(r, d)
    BY DEF s
  <2> QED
    BY <1>2, <1>3, <1>5, <2>1, <2>2, <2>3 DEF Tracks
<1>7. CASE d.ins.op \in ops
  <2>1. Len(t) = Len(q) + 1 /\ t[Len(t)].rob = r.tail
    BY <1>2, <1>7
  <2>2. \A i \in Index : InWindow(s, i) /\ s.slot[i].data.ins.op \in ops =>
           \E k \in 1 .. Len(t) : k > 0 /\ t[k].rob = i
    BY <1>1, <1>2, <1>3, <1>4, <2>1
  <2>3. \A k \in 1 .. Len(t) : k \in 1 .. Len(q) \/ k = Len(t)
    BY <1>2, <2>1
  <2>4. \A k \in 1 .. Len(t) : t[k].rob \in Index /\ (InWindow(s, t[k].rob) <=> k > 0)
    BY <1>1, <1>2, <1>3, <2>1, <2>3
  <2>5. \A k \in 1 .. Len(t) : s.slot[t[k].rob].data.ins.op \in ops
    BY <1>1, <1>3, <1>7, <2>1, <2>3
  <2>6. \A j, k \in 1 .. Len(t) : j < k => Position(s, t[j].rob) < Position(s, t[k].rob)
    <3> SUFFICES ASSUME NEW j \in 1 .. Len(t), NEW k \in 1 .. Len(t), j < k
                 PROVE  Position(s, t[j].rob) < Position(s, t[k].rob)
      OBVIOUS
    <3>1. j \in 1 .. Len(q)
      BY <1>2, <2>1
    <3>2. CASE k \in 1 .. Len(q)
      BY <1>3, <1>5, <3>1, <3>2
    <3>3. CASE k = Len(t)
      BY <1>1, <1>3, <2>1, <3>1, <3>3
    <3> QED
      BY <2>3, <3>2, <3>3
  <2>7. s = Allocate(r, d)
    BY DEF s
  <2> QED
    BY <1>2, <2>2, <2>4, <2>5, <2>6, <2>7 DEF Tracks
<1> QED
  BY <1>6, <1>7

(* Retirement: the entry of the head is the first that is still in flight.  *)
LEMMA TracksCommitted ==
    ASSUME NEW S, NEW q \in Seq(S), NEW n \in Nat, NEW r, NEW ops, Tracks(q, n, r, ops),
           Ring(r), CanCommit(r)
    PROVE  IF r.slot[r.head].data.ins.op \in ops
           THEN /\ Find(q, r.head) = n + 1 /\ n + 1 \in 1 .. Len(q)
                /\ Tracks(q, n + 1, Commit(r), ops)
           ELSE /\ Find(q, r.head) = 0
                /\ Tracks(q, n, Commit(r), ops)
<1> DEFINE s == Commit(r)
           h == r.head
<1>1. /\ Ring(s) /\ h \in Index /\ InWindow(r, h) /\ Position(r, h) = 0
      /\ \A j \in Index : /\ InWindow(s, j) <=> InWindow(r, j) /\ j # h
                          /\ j # h => /\ Position(s, j) = Position(r, j) - 1
                                      /\ s.slot[j] = r.slot[j]
  BY CommitRing
<1> HIDE DEF s, h
<1>2. /\ Len(q) \in Nat /\ n \in 0 .. Len(q)
      /\ \A k \in 1 .. Len(q) : /\ q[k].rob \in Index /\ (InWindow(r, q[k].rob) <=> k > n)
                                /\ k > n => r.slot[q[k].rob].data.ins.op \in ops
  BY DEF Tracks
<1>3. \A i \in Index : Position(r, i) \in Nat
  BY PositionValue DEF Ring, InOrder, Index
<1>4. CASE r.slot[h].data.ins.op \in ops
  <2>1. Find(q, h) \in 1 .. Len(q) /\ Find(q, h) > n /\ q[Find(q, h)].rob = h
    BY <1>1, <1>4, TrackedFind
  <2>2. n + 1 \in 1 .. Len(q)
    BY <1>2, <2>1
  <2>3. Find(q, h) = n + 1
    <3> SUFFICES ASSUME n + 1 < Find(q, h) PROVE FALSE
      BY <1>2, <2>1
    <3>1. Position(r, q[n + 1].rob) < Position(r, q[Find(q, h)].rob)
      BY <2>1, <2>2 DEF Tracks
    <3>2. Position(r, q[n + 1].rob) \in Nat
      BY <1>2, <1>3, <2>2
    <3> QED
      BY <1>1, <2>1, <3>1, <3>2
  <2>4. \A k \in 1 .. Len(q) : q[k].rob = h <=> k = n + 1
    <3>1. q[n + 1].rob = h
      BY <2>1, <2>3
    <3>2. \A k \in 1 .. Len(q) : q[k].rob = h => k = n + 1
      BY <2>2, <3>1, TrackedOnce
    <3> QED
      BY <3>1, <3>2
  <2>5. \A k \in 1 .. Len(q) : /\ q[k].rob \in Index /\ (InWindow(s, q[k].rob) <=> k > n + 1)
                               /\ k > n + 1 => s.slot[q[k].rob].data.ins.op \in ops
    BY <1>1, <1>2, <2>4
  <2>6. \A i \in Index : InWindow(s, i) /\ s.slot[i].data.ins.op \in ops =>
           \E k \in 1 .. Len(q) : k > n + 1 /\ q[k].rob = i
    <3> SUFFICES ASSUME NEW i \in Index, InWindow(s, i), s.slot[i].data.ins.op \in ops
                 PROVE  \E k \in 1 .. Len(q) : k > n + 1 /\ q[k].rob = i
      OBVIOUS
    <3>1. InWindow(r, i) /\ i # h /\ r.slot[i].data.ins.op \in ops
      BY <1>1
    <3>2. PICK k \in 1 .. Len(q) : k > n /\ q[k].rob = i
      BY <3>1 DEF Tracks
    <3> QED
      BY <1>2, <2>4, <3>1, <3>2
  <2>7. \A j, k \in 1 .. Len(q) : n + 1 < j /\ j < k => Position(s, q[j].rob) < Position(s, q[k].rob)
    <3> SUFFICES ASSUME NEW j \in 1 .. Len(q), NEW k \in 1 .. Len(q), n + 1 < j, j < k
                 PROVE  Position(s, q[j].rob) < Position(s, q[k].rob)
      OBVIOUS
    <3>1. Position(r, q[j].rob) < Position(r, q[k].rob)
      BY <1>2 DEF Tracks
    <3>2. q[j].rob # h /\ q[k].rob # h /\ q[j].rob \in Index /\ q[k].rob \in Index
      BY <1>2, <2>4
    <3>3. /\ Position(s, q[j].rob) = Position(r, q[j].rob) - 1
          /\ Position(s, q[k].rob) = Position(r, q[k].rob) - 1
      BY <1>1, <3>2
    <3> QED
      BY <1>3, <3>1, <3>2, <3>3
  <2>8. Tracks(q, n + 1, s, ops)
    BY <1>2, <2>2, <2>5, <2>6, <2>7 DEF Tracks
  <2> QED
    BY <1>4, <2>2, <2>3, <2>8 DEF s, h
<1>5. CASE r.slot[h].data.ins.op \notin ops
  <2>1. Find(q, h) = 0
    BY <1>1, <1>5, TrackedFind
  <2>2. \A k \in 1 .. Len(q) : k > n => q[k].rob # h
    BY <1>2, <1>5
  <2>3. \A k \in 1 .. Len(q) : /\ q[k].rob \in Index /\ (InWindow(s, q[k].rob) <=> k > n)
                               /\ k > n => s.slot[q[k].rob].data.ins.op \in ops
    BY <1>1, <1>2, <2>2
  <2>4. \A i \in Index : InWindow(s, i) /\ s.slot[i].data.ins.op \in ops =>
           \E k \in 1 .. Len(q) : k > n /\ q[k].rob = i
    BY <1>1 DEF Tracks
  <2>5. \A j, k \in 1 .. Len(q) : n < j /\ j < k => Position(s, q[j].rob) < Position(s, q[k].rob)
    <3> SUFFICES ASSUME NEW j \in 1 .. Len(q), NEW k \in 1 .. Len(q), n < j, j < k
                 PROVE  Position(s, q[j].rob) < Position(s, q[k].rob)
      OBVIOUS
    <3>1. Position(r, q[j].rob) < Position(r, q[k].rob)
      BY DEF Tracks
    <3>2. q[j].rob # h /\ q[k].rob # h /\ q[j].rob \in Index /\ q[k].rob \in Index
      BY <1>2, <2>2
    <3>3. /\ Position(s, q[j].rob) = Position(r, q[j].rob) - 1
          /\ Position(s, q[k].rob) = Position(r, q[k].rob) - 1
      BY <1>1, <3>2
    <3> QED
      BY <1>3, <3>1, <3>2, <3>3
  <2>6. Tracks(q, n, s, ops)
    BY <1>2, <2>3, <2>4, <2>5 DEF Tracks
  <2> QED
    BY <1>5, <2>1, <2>6 DEF s, h
<1> QED
  BY <1>4, <1>5 DEF h

(* The first entry leaves the queue when its instruction has retired. *)
LEMMA TracksTail ==
    ASSUME NEW S, NEW q \in Seq(S), NEW n \in Nat, NEW r, NEW ops, Tracks(q, n + 1, r, ops),
           NEW t \in Seq(S), Len(t) = Len(q) - 1, \A k \in 1 .. Len(q) - 1 : t[k] = q[k + 1]
    PROVE  Tracks(t, n, r, ops)
<1>1. /\ Len(q) \in Nat /\ n + 1 \in 0 .. Len(q) /\ n \in 0 .. Len(t)
      /\ \A k \in 1 .. Len(t) : k + 1 \in 1 .. Len(q) /\ t[k] = q[k + 1] /\ k \in Nat
      /\ \A k \in 1 .. Len(t) : k + 1 > n + 1 <=> k > n
  BY DEF Tracks
<1>2. \A i \in Index : InWindow(r, i) /\ r.slot[i].data.ins.op \in ops =>
         \E k \in 1 .. Len(t) : k > n /\ t[k].rob = i
  <2> SUFFICES ASSUME NEW i \in Index, InWindow(r, i), r.slot[i].data.ins.op \in ops
               PROVE  \E k \in 1 .. Len(t) : k > n /\ t[k].rob = i
    OBVIOUS
  <2>1. PICK k \in 1 .. Len(q) : k > n + 1 /\ q[k].rob = i
    BY DEF Tracks
  <2>2. k - 1 \in 1 .. Len(t) /\ k - 1 > n /\ (k - 1) + 1 = k
    BY <1>1, <2>1
  <2>3. t[k - 1].rob = i
    BY <1>1, <2>1, <2>2
  <2> QED
    BY <2>2, <2>3
<1>3. \A j, k \in 1 .. Len(t) : n < j /\ j < k => Position(r, t[j].rob) < Position(r, t[k].rob)
  <2> SUFFICES ASSUME NEW j \in 1 .. Len(t), NEW k \in 1 .. Len(t), n < j, j < k
               PROVE  Position(r, t[j].rob) < Position(r, t[k].rob)
    OBVIOUS
  <2>1. j + 1 \in 1 .. Len(q) /\ k + 1 \in 1 .. Len(q) /\ n + 1 < j + 1 /\ j + 1 < k + 1
    BY <1>1
  <2>2. Position(r, q[j + 1].rob) < Position(r, q[k + 1].rob)
    BY <2>1 DEF Tracks
  <2> QED
    BY <1>1, <2>2
<1>4. \A k \in 1 .. Len(t) : /\ t[k].rob \in Index /\ (InWindow(r, t[k].rob) <=> k > n)
                             /\ k > n => r.slot[t[k].rob].data.ins.op \in ops
  BY <1>1 DEF Tracks
<1> QED
  BY <1>1, <1>2, <1>3, <1>4 DEF Tracks

(* Recovery, when nothing it squashes is tracked. *)
LEMMA TracksSquashed ==
    ASSUME NEW S, NEW q \in Seq(S), NEW r, NEW ops, Tracks(q, 0, r, ops),
           Ring(r), NEW b \in Index, InWindow(r, b),
           \A i \in Younger(r, b) : r.slot[i].data.ins.op \notin ops
    PROVE  Tracks(q, 0, SquashYoungerThan(r, b), ops)
<1> DEFINE s == SquashYoungerThan(r, b)
<1>1. \A j \in Index : /\ Position(s, j) = Position(r, j)
                       /\ InWindow(s, j) <=> InWindow(r, j) /\ j \notin Younger(r, b)
                       /\ InWindow(s, j) => s.slot[j] = r.slot[j]
  BY SquashRing
<1> HIDE DEF s
<1>2. Tracks(q, 0, s, ops)
  BY <1>1 DEF Tracks
<1> QED
  BY <1>2 DEF s

(* What an entry of the load/store queue has is what its instruction has    *)
(* done: nothing is known of a store before it executes, and everything of  *)
(* an instruction that has.                                                 *)
MemoryOp(type) == IF type = "LOAD" THEN "LW" ELSE "SW"

Progress(q, r) ==
    \A k \in 1 .. Len(q) :
        /\ r.slot[q[k].rob].data.ins.op = MemoryOp(q[k].type)
        /\ q[k].executed <=> ~Pending(r, q[k].rob)
        /\ IF q[k].executed THEN q[k].addr # Unknown /\ q[k].data # Unknown
           ELSE q[k].data = Unknown /\ (q[k].type = "STORE" => q[k].addr = Unknown)

(* Store j stops the search of entry i. *)
Blocks(q, i, j) == q[j].type = "STORE" /\ q[j].addr \in {Unknown, q[i].addr}

Sees(q) ==
    \A i \in 1 .. Len(q) : q[i].type = "LOAD" /\ q[i].executed =>
        \A j \in 1 .. i - 1 :
            Blocks(q, i, j) /\ (\A k \in 1 .. i - 1 : j < k => ~Blocks(q, i, k)) =>
                q[j].addr = q[i].addr /\ q[j].data = q[i].data

LsqOK(q, r) == Tracks(q, 0, r, {"LW", "SW"}) /\ Progress(q, r) /\ Sees(q)

(* The store buffer while n retired stores are still in it. *)
BufferOK(b, n, r) == /\ Tracks(b, n, r, {"SW"})
                     /\ \A k \in 1 .. Len(b) : b[k].committed <=> k <= n

MemoryOK == LsqOK(lsq, rob) /\ BufferOK(storeBuffer, 0, rob)

LEMMA BlockingStoreValue ==
    ASSUME NEW q \in Seq(LoadStoreSet), NEW i \in 1 .. Len(q)
    PROVE  LET j == BlockingStore(q, i)
           IN  /\ j \in 0 .. i - 1
               /\ j # 0 => Blocks(q, i, j)
               /\ \A k \in 1 .. i - 1 : Blocks(q, i, k) => k <= j
<1> DEFINE C == {j \in 1 .. i - 1 : Blocks(q, i, j)}
           S == {0} \cup C
<1>1. BlockingStore(q, i) = Max(S)
  BY DEF BlockingStore, Blocks
<1>2. i - 1 \in Nat /\ S \subseteq 0 .. i - 1 /\ S # {}
  OBVIOUS
<1> HIDE DEF C
<1>3. Max(S) \in S /\ \A k \in S : Max(S) >= k
  BY <1>2, MaxIsGreatest
<1>4. \A k \in 1 .. i - 1 : Blocks(q, i, k) => k \in S
  BY DEF C
<1>5. \A k \in C : Blocks(q, i, k)
  BY DEF C
<1> HIDE DEF S
<1>6. Max(S) # 0 => Max(S) \in C
  BY <1>3 DEF S
<1>7. Max(S) \in 0 .. i - 1
  BY <1>2, <1>3
<1> QED
  BY <1>1, <1>3, <1>4, <1>5, <1>6, <1>7

(* What is asked of the queues follows. *)
LEMMA MemoryQueuesFollow ==
    ASSUME MachineOK, MemoryOK
    PROVE  MemoryQueuesMirrorRob /\ LoadsSeeOlderStores /\ CommittedStoresReachMemory
<1>1. /\ lsq \in Seq(LoadStoreSet) /\ storeBuffer \in Seq(StoreSet)
      /\ DOMAIN lsq = 1 .. Len(lsq) /\ DOMAIN storeBuffer = 1 .. Len(storeBuffer)
  BY DEF MachineOK
<1>2. ASSUME NEW S, NEW q \in Seq(S), NEW ops, Tracks(q, 0, rob, ops)
      PROVE  Mirrors(q, ops)
  <2>1. {q[k].rob : k \in DOMAIN q} = {r \in Index : InFlight(r) /\ Data(r).ins.op \in ops}
    BY <1>2 DEF Tracks, InFlight, Data
  <2>2. \A j, k \in DOMAIN q : j < k => Older(q[j].rob, q[k].rob)
    BY <1>2 DEF Tracks, Older
  <2> QED
    BY <2>1, <2>2 DEF Mirrors
<1>3. MemoryQueuesMirrorRob
  BY <1>1, <1>2 DEF MemoryOK, LsqOK, BufferOK, MemoryQueuesMirrorRob
<1>4. CommittedStoresReachMemory
  BY <1>1 DEF MemoryOK, BufferOK, CommittedStoresReachMemory
<1>5. LoadsSeeOlderStores
  <2> SUFFICES ASSUME NEW i \in 1 .. Len(lsq), lsq[i].type = "LOAD", lsq[i].executed,
                      BlockingStore(lsq, i) # 0
               PROVE  /\ lsq[BlockingStore(lsq, i)].addr = lsq[i].addr
                      /\ lsq[BlockingStore(lsq, i)].data = lsq[i].data
    BY <1>1 DEF LoadsSeeOlderStores
  <2> DEFINE j == BlockingStore(lsq, i)
  <2>1. /\ j \in 1 .. i - 1 /\ Blocks(lsq, i, j)
        /\ \A k \in 1 .. i - 1 : Blocks(lsq, i, k) => k <= j
    BY <1>1, BlockingStoreValue
  <2> HIDE DEF j
  <2>2. \A k \in 1 .. i - 1 : j < k => ~Blocks(lsq, i, k)
    BY <2>1
  <2>3. lsq[j].addr = lsq[i].addr /\ lsq[j].data = lsq[i].data
    BY <2>1, <2>2 DEF MemoryOK, LsqOK, Sees
  <2> QED
    BY <2>3 DEF j
<1> QED
  BY <1>3, <1>4, <1>5

LEMMA FindKept ==
    ASSUME NEW S, NEW q \in Seq(S), NEW t \in Seq(S), EntriesKept(q, t), NEW r
    PROVE  Find(t, r) = Find(q, r)
<1>1. /\ Find(q, r) \in 0 .. Len(q)
      /\ Find(q, r) = 0 => \A k \in 1 .. Len(q) : q[k].rob # r
      /\ Find(q, r) # 0 => /\ q[Find(q, r)].rob = r
                           /\ \A k \in 1 .. Len(q) : q[k].rob = r => Find(q, r) <= k
  BY FindEntry
<1>2. /\ Find(t, r) \in 0 .. Len(t)
      /\ Find(t, r) = 0 => \A k \in 1 .. Len(t) : t[k].rob # r
      /\ Find(t, r) # 0 => /\ t[Find(t, r)].rob = r
                           /\ \A k \in 1 .. Len(t) : t[k].rob = r => Find(t, r) <= k
  BY FindEntry
<1>3. Len(t) = Len(q) /\ Len(q) \in Nat /\ \A k \in 1 .. Len(q) : t[k].rob = q[k].rob
  BY DEF EntriesKept
<1> QED
  BY <1>1, <1>2, <1>3

(* Neither a store nor an executed load changes. *)
LEMMA SeesKept ==
    ASSUME NEW q \in Seq(LoadStoreSet), NEW t \in Seq(LoadStoreSet), EntriesKept(q, t), Sees(q),
           \A k \in 1 .. Len(q) :
              /\ t[k].type = q[k].type
              /\ t[k].executed <=> q[k].executed
              /\ q[k].type = "STORE" \/ q[k].executed => t[k].addr = q[k].addr /\ t[k].data = q[k].data
    PROVE  Sees(t)
<1>1. Len(t) = Len(q) /\ Len(q) \in Nat
  BY DEF EntriesKept
<1>2. ASSUME NEW i \in 1 .. Len(t), t[i].type = "LOAD", t[i].executed
      PROVE  /\ q[i].type = "LOAD" /\ q[i].executed
             /\ t[i].addr = q[i].addr /\ t[i].data = q[i].data
             /\ \A j \in 1 .. i - 1 : j \in 1 .. Len(q) /\ (Blocks(t, i, j) <=> Blocks(q, i, j))
  <2>1. /\ q[i].type = "LOAD" /\ q[i].executed
        /\ t[i].addr = q[i].addr /\ t[i].data = q[i].data
    BY <1>1, <1>2
  <2>2. \A j \in 1 .. i - 1 : j \in 1 .. Len(q)
    BY <1>1
  <2>3. \A j \in 1 .. i - 1 : Blocks(t, i, j) <=> Blocks(q, i, j)
    BY <2>1, <2>2 DEF Blocks
  <2> QED
    BY <2>1, <2>2, <2>3
<1>3. ASSUME NEW i \in 1 .. Len(t), t[i].type = "LOAD", t[i].executed,
             NEW j \in 1 .. i - 1, Blocks(t, i, j),
             \A k \in 1 .. i - 1 : j < k => ~Blocks(t, i, k)
      PROVE  t[j].addr = t[i].addr /\ t[j].data = t[i].data
  <2>1. i \in 1 .. Len(q) /\ q[i].type = "LOAD" /\ q[i].executed
    BY <1>1, <1>2, <1>3
  <2>2. Blocks(q, i, j) /\ \A k \in 1 .. i - 1 : j < k => ~Blocks(q, i, k)
    BY <1>2, <1>3
  <2>3. q[j].addr = q[i].addr /\ q[j].data = q[i].data
    BY <2>1, <2>2 DEF Sees
  <2>4. j \in 1 .. Len(q) /\ q[j].type = "STORE"
    BY <1>2, <1>3, <2>2 DEF Blocks
  <2>5. t[j].addr = q[j].addr /\ t[j].data = q[j].data
    BY <2>4
  <2>6. t[i].addr = q[i].addr /\ t[i].data = q[i].data
    BY <1>2, <1>3
  <2> QED
    BY <2>3, <2>5, <2>6
<1> QED
  BY <1>3 DEF Sees

(* Something else than a load or a store completes. *)
LEMMA OtherCompletes ==
    ASSUME NEW q \in Seq(LoadStoreSet), NEW b \in Seq(StoreSet), NEW r, Ring(r),
           LsqOK(q, r), BufferOK(b, 0, r),
           NEW i \in Index, InWindow(r, i), r.slot[i].data.ins.op \notin {"LW", "SW"}
    PROVE  LsqOK(q, Complete(r, i)) /\ BufferOK(b, 0, Complete(r, i))
<1> DEFINE s == Complete(r, i)
<1>1. \A j \in Index : /\ Position(s, j) = Position(r, j)
                       /\ InWindow(s, j) <=> InWindow(r, j)
                       /\ s.slot[j].data = r.slot[j].data
                       /\ Pending(s, j) <=> Pending(r, j) /\ j # i
  BY CompleteRing
<1> HIDE DEF s
<1>2. EntriesKept(q, q) /\ EntriesKept(b, b)
  BY DEF EntriesKept
<1>3. Tracks(q, 0, s, {"LW", "SW"}) /\ Tracks(b, 0, s, {"SW"})
  <2>1. Tracks(q, 0, r, {"LW", "SW"}) /\ Tracks(b, 0, r, {"SW"})
    BY DEF LsqOK, BufferOK
  <2>2. Tracks(q, 0, s, {"LW", "SW"})
    BY <1>1, <1>2, <2>1, TracksKept
  <2>3. Tracks(b, 0, s, {"SW"})
    BY <1>1, <1>2, <2>1, TracksKept
  <2> QED
    BY <2>2, <2>3
<1>4. \A k \in 1 .. Len(q) : q[k].rob \in Index /\ q[k].rob # i
  BY DEF LsqOK, Tracks
<1>5. Progress(q, s)
  BY <1>1, <1>4 DEF LsqOK, Progress
<1> QED
  BY <1>3, <1>5 DEF LsqOK, BufferOK, s

(* Recovery, when nothing it squashes is a load or a store. *)
LEMMA OthersSquashed ==
    ASSUME NEW q \in Seq(LoadStoreSet), NEW b \in Seq(StoreSet), NEW r, Ring(r),
           LsqOK(q, r), BufferOK(b, 0, r), NEW i \in Index, InWindow(r, i),
           \A j \in Younger(r, i) : r.slot[j].data.ins.op \notin {"LW", "SW"}
    PROVE  LsqOK(q, SquashYoungerThan(r, i)) /\ BufferOK(b, 0, SquashYoungerThan(r, i))
<1> DEFINE s == SquashYoungerThan(r, i)
<1>1. /\ \A j \in Index : /\ InWindow(s, j) => s.slot[j] = r.slot[j]
                          /\ InWindow(s, j) <=> InWindow(r, j) /\ j \notin Younger(r, i)
  BY SquashRing
<1>2. Tracks(q, 0, s, {"LW", "SW"}) /\ Tracks(b, 0, s, {"SW"})
  <2>1. Tracks(q, 0, r, {"LW", "SW"}) /\ Tracks(b, 0, r, {"SW"})
    BY DEF LsqOK, BufferOK
  <2>2. Tracks(q, 0, s, {"LW", "SW"})
    BY <2>1, TracksSquashed
  <2>3. Tracks(b, 0, s, {"SW"})
    BY <2>1, TracksSquashed
  <2> QED
    BY <2>2, <2>3
<1> HIDE DEF s
<1>3. \A k \in 1 .. Len(q) : q[k].rob \in Index /\ InWindow(s, q[k].rob)
  BY <1>2 DEF Tracks
<1>4. Progress(q, s)
  BY <1>1, <1>3 DEF LsqOK, Progress, Pending
<1> QED
  BY <1>2, <1>4 DEF LsqOK, BufferOK, s

(* The scan changes addresses of loads that have not executed. *)
LEMMA ScannedQueue ==
    ASSUME MachineOK, MemoryOK, NEW i \in IQSlot
    PROVE  LET t == Addressed(i)
           IN  /\ t \in Seq(LoadStoreSet) /\ EntriesKept(lsq, t) /\ LsqOK(t, rob)
               /\ Proceeds(i) /\ iq[i].ins.op = "LW" => t[Find(t, iq[i].rob)].addr # Unknown
<1> DEFINE t == Addressed(i)
<1>1. /\ t \in Seq(LoadStoreSet) /\ EntriesKept(lsq, t)
      /\ \A k \in 1 .. Len(lsq) :
            \/ t[k] = lsq[k]
            \/ \E j \in IQSlot :
                  /\ ReadyForMemory(iq[j]) /\ iq[j].ins.op = "LW"
                  /\ Find(lsq, iq[j].rob) = k
                  /\ t[k] = [lsq[k] EXCEPT !.addr = Address(iq[j])]
  BY AddressedEntries
<1>2. /\ lsq \in Seq(LoadStoreSet) /\ Linked(iq, rob) /\ Ring(rob)
      /\ Tracks(lsq, 0, rob, {"LW", "SW"}) /\ Progress(lsq, rob) /\ Sees(lsq)
  BY DEF MachineOK, MemoryOK, LsqOK
<1>3. ASSUME NEW k \in 1 .. Len(lsq), t[k] # lsq[k]
      PROVE  /\ lsq[k].type = "LOAD" /\ ~lsq[k].executed
             /\ t[k].type = lsq[k].type /\ (t[k].executed <=> lsq[k].executed)
             /\ t[k].data = lsq[k].data /\ t[k].addr # Unknown
  <2> HIDE DEF t
  <2>1. PICK j \in IQSlot : /\ ReadyForMemory(iq[j]) /\ iq[j].ins.op = "LW"
                            /\ Find(lsq, iq[j].rob) = k
                            /\ t[k] = [lsq[k] EXCEPT !.addr = Address(iq[j])]
    BY <1>1, <1>3
  <2>2. iq[j].valid
    BY <2>1 DEF ReadyForMemory, Ready
  <2>3. Pending(rob, iq[j].rob) /\ rob.slot[iq[j].rob].data.ins.op = "LW" /\ iq[j] \in EntrySet
    BY <1>2, <2>1, <2>2, ValidEntry DEF Linked, Describes
  <2>4. lsq[k].rob = iq[j].rob
    BY <1>2, <2>1, FindEntry
  <2>5. lsq[k].type = "LOAD" /\ ~lsq[k].executed
    <3>1. MemoryOp(lsq[k].type) = "LW" /\ (lsq[k].executed <=> ~Pending(rob, lsq[k].rob))
      BY <1>2, <2>3, <2>4 DEF Progress
    <3> QED
      BY <2>3, <2>4, <3>1 DEF MemoryOp
  <2>6. Address(iq[j]) \in Word
    BY <2>3, EntryFields, AddressTyped DEF Address
  <2>7. lsq[k] \in LoadStoreSet
    BY <1>2
  <2>8. /\ t[k].type = lsq[k].type /\ (t[k].executed <=> lsq[k].executed)
        /\ t[k].data = lsq[k].data /\ t[k].addr = Address(iq[j])
    BY <2>1, <2>7 DEF LoadStoreSet
  <2> QED
    BY <2>5, <2>6, <2>8, WordIsInt
<1>4. Proceeds(i) /\ iq[i].ins.op = "LW" => t[Find(t, iq[i].rob)].addr # Unknown
  <2> SUFFICES ASSUME Proceeds(i), iq[i].ins.op = "LW"
               PROVE  t[Find(t, iq[i].rob)].addr # Unknown
    OBVIOUS
  <2> DEFINE k == Find(lsq, iq[i].rob)
             loads == {j \in 0 .. i : ReadyForMemory(iq[j]) /\ iq[j].ins.op = "LW"}
             of == {j \in loads : Find(lsq, iq[j].rob) = k}
  <2>1. iq[i].valid /\ ReadyForMemory(iq[i])
    BY DEF Proceeds, ReadyForMemory, Ready
  <2>2. /\ iq[i].rob \in Index /\ InWindow(rob, iq[i].rob)
        /\ rob.slot[iq[i].rob].data.ins.op = "LW"
    BY <1>2, <2>1, ValidEntry DEF Linked, Describes, Pending
  <2>3. k \in 1 .. Len(lsq)
    BY <1>2, <2>2, TrackedFind
  <2>4. i \in Nat /\ i \in 0 .. i
    BY DEF IQSlot
  <2>5. of # {}
    BY <2>1, <2>4
  <2>6. t[k] = [lsq[k] EXCEPT !.addr = Address(iq[Max(of)])]
    BY <1>2, <2>3, <2>5 DEF Addressed
  <2>7. Max(of) \in of
    <3>1. of \subseteq 0 .. i
      OBVIOUS
    <3> HIDE DEF of
    <3> QED
      BY <2>4, <2>5, <3>1, MaxIsGreatest
  <2>8. iq[Max(of)] \in EntrySet
    <3>1. \A j \in 0 .. i : j \in IQSlot
      BY SizeAssumption DEF IQSlot
    <3>2. Max(of) \in IQSlot /\ ReadyForMemory(iq[Max(of)])
      BY <2>7, <3>1
    <3> QED
      BY <1>2, <3>2, ValidEntry DEF ReadyForMemory, Ready
  <2>9. Address(iq[Max(of)]) # Unknown
    BY <2>8, EntryFields, AddressTyped, WordIsInt DEF Address
  <2>10. lsq[k] \in LoadStoreSet
    BY <1>2, <2>3
  <2>11. t[k].addr # Unknown
    <3> HIDE DEF of, k, t
    <3> QED
      BY <2>6, <2>9, <2>10 DEF LoadStoreSet
  <2>12. Find(t, iq[i].rob) = k
    BY <1>1, <1>2, FindKept
  <2> QED
    BY <2>11, <2>12
<1> HIDE DEF t
<1>5. Tracks(t, 0, rob, {"LW", "SW"})
  BY <1>1, <1>2, TracksKept
<1>6. \A k \in 1 .. Len(lsq) :
         /\ t[k].type = lsq[k].type
         /\ t[k].executed <=> lsq[k].executed
         /\ lsq[k].type = "STORE" \/ lsq[k].executed => t[k].addr = lsq[k].addr /\ t[k].data = lsq[k].data
         /\ t[k].data = lsq[k].data
  BY <1>3
<1>7. Sees(t)
  BY <1>1, <1>2, <1>6, SeesKept
<1>8. Progress(t, rob)
  BY <1>1, <1>2, <1>6 DEF Progress, EntriesKept
<1> QED
  BY <1>1, <1>4, <1>5, <1>7, <1>8 DEF LsqOK, t

(* The store buffer when an instruction completes. *)
LEMMA BufferCompletes ==
    ASSUME NEW b \in Seq(StoreSet), NEW r, Ring(r), BufferOK(b, 0, r),
           NEW s \in Index, InWindow(r, s),
           NEW t \in Seq(StoreSet), EntriesKept(b, t),
           \A k \in 1 .. Len(b) : t[k].committed <=> b[k].committed
    PROVE  BufferOK(t, 0, Complete(r, s))
<1>1. \A j \in Index : /\ Position(Complete(r, s), j) = Position(r, j)
                       /\ InWindow(Complete(r, s), j) <=> InWindow(r, j)
                       /\ Complete(r, s).slot[j].data = r.slot[j].data
  BY CompleteRing
<1>2. Tracks(b, 0, r, {"SW"})
  BY DEF BufferOK
<1>3. Tracks(t, 0, Complete(r, s), {"SW"})
  BY <1>1, <1>2, TracksKept
<1> QED
  BY <1>3 DEF BufferOK, EntriesKept

(* The one entry that changes when instruction s completes. *)
LEMMA OneCompletes ==
    ASSUME NEW q \in Seq(LoadStoreSet), NEW r, Ring(r), LsqOK(q, r),
           NEW s \in Index, Pending(r, s), r.slot[s].data.ins.op \in {"LW", "SW"},
           NEW t \in Seq(LoadStoreSet), EntriesKept(q, t),
           \A k \in 1 .. Len(q) :
              IF k = Find(q, s)
              THEN t[k].type = q[k].type /\ t[k].executed /\ t[k].addr # Unknown /\ t[k].data # Unknown
              ELSE t[k] = q[k]
    PROVE  /\ Find(q, s) \in 1 .. Len(q) /\ q[Find(q, s)].rob = s
           /\ MemoryOp(q[Find(q, s)].type) = r.slot[s].data.ins.op
           /\ ~q[Find(q, s)].executed
           /\ Tracks(t, 0, Complete(r, s), {"LW", "SW"}) /\ Progress(t, Complete(r, s))
<1> DEFINE i == Find(q, s)
           c == Complete(r, s)
<1>1. /\ Tracks(q, 0, r, {"LW", "SW"}) /\ Progress(q, r) /\ InWindow(r, s)
  BY DEF LsqOK, Pending
<1>2. i \in 1 .. Len(q) /\ q[i].rob = s
  BY <1>1, TrackedFind
<1>3. \A k \in 1 .. Len(q) : /\ q[k].rob \in Index /\ InWindow(r, q[k].rob)
                             /\ q[k].rob = s => k = i
  <2>1. \A k \in 1 .. Len(q) : q[k].rob \in Index /\ InWindow(r, q[k].rob)
    BY <1>1 DEF Tracks
  <2>2. ASSUME NEW k \in 1 .. Len(q), q[k].rob = s PROVE k = i
    <3>1. 0 < i
      BY <1>2
    <3> QED
      BY <1>1, <1>2, <2>2, <3>1, TrackedOnce
  <2> QED
    BY <2>1, <2>2
<1>4. \A j \in Index : /\ Position(c, j) = Position(r, j)
                       /\ InWindow(c, j) <=> InWindow(r, j)
                       /\ c.slot[j].data = r.slot[j].data
                       /\ Pending(c, j) <=> Pending(r, j) /\ j # s
  BY <1>1, CompleteRing
<1> HIDE DEF i, c
<1>5. Tracks(t, 0, c, {"LW", "SW"})
  BY <1>1, <1>4, TracksKept
<1>6. MemoryOp(q[i].type) = r.slot[s].data.ins.op /\ ~q[i].executed
  BY <1>1, <1>2 DEF Progress
<1>7. Progress(t, c)
  <2>1. Len(t) = Len(q) /\ \A k \in 1 .. Len(q) : t[k].rob = q[k].rob
    BY DEF EntriesKept
  <2>2. ASSUME NEW k \in 1 .. Len(q)
        PROVE  /\ c.slot[t[k].rob].data.ins.op = MemoryOp(t[k].type)
               /\ t[k].executed <=> ~Pending(c, t[k].rob)
               /\ IF t[k].executed THEN t[k].addr # Unknown /\ t[k].data # Unknown
                  ELSE t[k].data = Unknown /\ (t[k].type = "STORE" => t[k].addr = Unknown)
    <3>1. t[k].rob = q[k].rob /\ q[k].rob \in Index
      BY <1>3, <2>1
    <3>2. CASE k = i
      <4>1. t[k].type = q[k].type /\ t[k].executed /\ t[k].addr # Unknown /\ t[k].data # Unknown
        BY <3>2 DEF i
      <4>2. ~Pending(c, t[k].rob)
        BY <1>2, <1>4, <3>1, <3>2
      <4>3. c.slot[t[k].rob].data.ins.op = MemoryOp(t[k].type)
        BY <1>2, <1>4, <1>6, <3>1, <3>2, <4>1
      <4> QED
        BY <4>1, <4>2, <4>3
    <3>3. CASE k # i
      <4>1. t[k] = q[k] /\ q[k].rob # s
        BY <1>3, <3>3 DEF i
      <4>2. /\ Pending(c, q[k].rob) <=> Pending(r, q[k].rob)
            /\ c.slot[q[k].rob].data = r.slot[q[k].rob].data
        BY <1>4, <3>1, <4>1
      <4> QED
        BY <1>1, <4>1, <4>2 DEF Progress
    <3> QED
      BY <3>2, <3>3
  <2> QED
    BY <2>1, <2>2 DEF Progress
<1> QED
  BY <1>2, <1>5, <1>6, <1>7 DEF i, c

LEMMA LoadCompletes ==
    ASSUME NEW q \in Seq(LoadStoreSet), NEW r, Ring(r), LsqOK(q, r),
           NEW s \in Index, Pending(r, s), r.slot[s].data.ins.op = "LW",
           q[Find(q, s)].addr # Unknown, NEW v \in Word, ~LoadResult(q, s).wait,
           LoadResult(q, s).hit => v = LoadResult(q, s).data
    PROVE  LsqOK(CompleteLoad(q, s, v), Complete(r, s))
<1> DEFINE i == Find(q, s)
           t == CompleteLoad(q, s, v)
           b == BlockingStore(q, i)
<1>1. i \in 1 .. Len(q) /\ q[i].rob = s /\ MemoryOp(q[i].type) = "LW"
  <2>1. Tracks(q, 0, r, {"LW", "SW"}) /\ Progress(q, r) /\ InWindow(r, s)
    BY DEF LsqOK, Pending
  <2>2. i \in 1 .. Len(q) /\ q[i].rob = s
    BY <2>1, TrackedFind
  <2> QED
    BY <2>1, <2>2 DEF Progress
<1>2. q[i].type = "LOAD"
  BY <1>1 DEF MemoryOp, LoadStoreSet
<1>3. /\ t \in Seq(LoadStoreSet) /\ EntriesKept(q, t)
      /\ \A k \in 1 .. Len(q) :
            IF k = i
            THEN /\ t[k].type = q[k].type /\ t[k].addr = q[k].addr
                 /\ t[k].executed
                 /\ t[k].data = IF q[k].type = "LOAD" THEN v ELSE q[k].data
            ELSE t[k] = q[k]
  BY CompleteLoadEntries
<1>4. /\ LoadResult(q, s).wait <=> b # 0 /\ Unknown \in {q[b].addr, q[b].data}
      /\ LoadResult(q, s).hit <=> b # 0 /\ q[b].addr # Unknown /\ q[b].data # Unknown
      /\ b # 0 => LoadResult(q, s).data = q[b].data
  <2> DEFINE j == IF i = 0 \/ q[i].addr = Unknown THEN 0 ELSE BlockingStore(q, i)
  <2>1. j = b
    <3>1. i # 0 /\ q[i].addr # Unknown
      BY <1>1
    <3> QED
      BY <3>1
  <2>2. /\ LoadResult(q, s).wait <=> j # 0 /\ Unknown \in {q[j].addr, q[j].data}
        /\ LoadResult(q, s).hit <=> j # 0 /\ q[j].addr # Unknown /\ q[j].data # Unknown
        /\ LoadResult(q, s).data = IF j = 0 THEN Unknown ELSE q[j].data
    BY DEF LoadResult
  <2> HIDE DEF j, b
  <2> QED
    BY <2>1, <2>2
<1>5. /\ b \in 0 .. i - 1 /\ (b # 0 => Blocks(q, i, b))
      /\ \A k \in 1 .. i - 1 : Blocks(q, i, k) => k <= b
  BY <1>1, BlockingStoreValue
<1> HIDE DEF i, t, b
<1>6. v # Unknown /\ Len(q) \in Nat
  BY WordIsInt
<1>7. \A k \in 1 .. Len(q) :
         IF k = i
         THEN t[k].type = q[k].type /\ t[k].executed /\ t[k].addr # Unknown /\ t[k].data # Unknown
         ELSE t[k] = q[k]
  BY <1>2, <1>3, <1>6 DEF i
<1>8. Tracks(t, 0, Complete(r, s), {"LW", "SW"}) /\ Progress(t, Complete(r, s))
  BY <1>3, <1>7, OneCompletes DEF i
<1>9. ASSUME NEW n \in 1 .. Len(q), t[n].type = "LOAD", t[n].executed,
             NEW j \in 1 .. n - 1, Blocks(t, n, j),
             \A k \in 1 .. n - 1 : j < k => ~Blocks(t, n, k)
      PROVE  t[j].addr = t[n].addr /\ t[j].data = t[n].data
  <2>1. \A k \in 1 .. n - 1 : k \in 1 .. Len(q) /\ t[k].type = q[k].type /\ t[k].addr = q[k].addr
    BY <1>3, <1>6
  <2>2. t[n].addr = q[n].addr
    BY <1>3
  <2>3. \A k \in 1 .. n - 1 : Blocks(t, n, k) <=> Blocks(q, n, k)
    BY <2>1, <2>2 DEF Blocks
  <2>4. j # i /\ t[j] = q[j]
    <3>1. t[j].type = "STORE"
      BY <1>9 DEF Blocks
    <3> QED
      BY <1>2, <1>3, <2>1, <3>1
  <2>5. CASE n = i
    <3>1. Blocks(q, i, j) /\ j <= b /\ b \in 1 .. i - 1
      BY <1>5, <1>9, <2>3, <2>5
    <3>2. j = b
      BY <1>5, <1>9, <2>3, <2>5, <3>1
    <3>3. q[b].addr # Unknown /\ q[b].data # Unknown /\ v = q[b].data
      BY <1>4, <3>1
    <3>4. q[b].addr = q[i].addr
      BY <3>1, <3>2, <3>3 DEF Blocks
    <3>5. t[n].data = v
      BY <1>1, <1>2, <1>3, <2>5
    <3> QED
      BY <2>2, <2>4, <2>5, <3>2, <3>3, <3>4, <3>5
  <2>6. CASE n # i
    <3>1. t[n] = q[n]
      BY <1>3, <2>6
    <3>2. q[j].addr = q[n].addr /\ q[j].data = q[n].data
      BY <1>9, <2>3, <3>1 DEF LsqOK, Sees
    <3> QED
      BY <2>4, <3>1, <3>2
  <2> QED
    BY <2>5, <2>6
<1>10. Sees(t)
  BY <1>3, <1>9 DEF Sees, EntriesKept
<1> QED
  BY <1>8, <1>10 DEF LsqOK, t

LEMMA StoreCompletes ==
    ASSUME NEW q \in Seq(LoadStoreSet), NEW r, Ring(r), LsqOK(q, r),
           NEW s \in Index, Pending(r, s), r.slot[s].data.ins.op = "SW",
           NEW a \in Word, NEW d \in Word
    PROVE  LsqOK(SetStoreData(SetAddress(q, s, a), s, d), Complete(r, s))
<1> DEFINE i == Find(q, s)
           u == SetAddress(q, s, a)
           t == SetStoreData(u, s, d)
<1>1. i \in 1 .. Len(q) /\ q[i].rob = s /\ MemoryOp(q[i].type) = "SW" /\ ~q[i].executed
  <2>1. Tracks(q, 0, r, {"LW", "SW"}) /\ Progress(q, r) /\ InWindow(r, s)
    BY DEF LsqOK, Pending
  <2>2. i \in 1 .. Len(q) /\ q[i].rob = s
    BY <2>1, TrackedFind
  <2> QED
    BY <2>1, <2>2 DEF Progress
<1>2. q[i].type = "STORE" /\ q[i].addr = Unknown
  <2>1. q[i].type \in {"LOAD", "STORE"}
    <3>1. q[i] \in LoadStoreSet
      BY <1>1
    <3> QED
      BY <3>1 DEF LoadStoreSet
  <2>2. q[i].type = "STORE"
    BY <1>1, <2>1 DEF MemoryOp
  <2> QED
    BY <1>1, <2>2 DEF LsqOK, Progress
<1>3. /\ u \in Seq(LoadStoreSet) /\ EntriesKept(q, u)
      /\ \A k \in 1 .. Len(q) :
            IF k = i
            THEN /\ u[k].type = q[k].type /\ u[k].addr = a /\ u[k].data = q[k].data
                 /\ u[k].executed <=> q[k].executed
            ELSE u[k] = q[k]
  BY SetAddressEntries
<1>4. Find(u, s) = i
  BY <1>3, FindKept
<1> HIDE DEF u
<1>5. /\ t \in Seq(LoadStoreSet) /\ EntriesKept(u, t)
      /\ \A k \in 1 .. Len(u) :
            IF k = i
            THEN /\ t[k].type = u[k].type /\ t[k].addr = u[k].addr
                 /\ t[k].executed
                 /\ t[k].data = IF u[k].type = "STORE" THEN d ELSE u[k].data
            ELSE t[k] = u[k]
  BY <1>3, <1>4, SetStoreDataEntries
<1> HIDE DEF i, t
<1>6. /\ EntriesKept(q, t) /\ Len(q) \in Nat
      /\ \A k \in 1 .. Len(q) :
            IF k = i
            THEN t[k].type = "STORE" /\ t[k].addr = a /\ t[k].executed /\ t[k].data = d
            ELSE t[k] = q[k]
  BY <1>2, <1>3, <1>5 DEF EntriesKept
<1>7. \A k \in 1 .. Len(q) :
         IF k = i
         THEN t[k].type = q[k].type /\ t[k].executed /\ t[k].addr # Unknown /\ t[k].data # Unknown
         ELSE t[k] = q[k]
  BY <1>2, <1>6, WordIsInt
<1>8. Tracks(t, 0, Complete(r, s), {"LW", "SW"}) /\ Progress(t, Complete(r, s))
  BY <1>5, <1>6, <1>7, OneCompletes DEF i
<1>9. ASSUME NEW n \in 1 .. Len(q), t[n].type = "LOAD", t[n].executed,
             NEW j \in 1 .. n - 1, Blocks(t, n, j),
             \A k \in 1 .. n - 1 : j < k => ~Blocks(t, n, k)
      PROVE  t[j].addr = t[n].addr /\ t[j].data = t[n].data
  <2> DEFINE b == BlockingStore(q, n)
  <2>1. n # i /\ t[n] = q[n]
    BY <1>6, <1>9
  <2>2. /\ b \in 0 .. n - 1 /\ (b # 0 => Blocks(q, n, b))
        /\ \A k \in 1 .. n - 1 : Blocks(q, n, k) => k <= b
    BY BlockingStoreValue
  <2> HIDE DEF b
  <2>3. q[n].addr # Unknown
    BY <1>9, <2>1 DEF LsqOK, Progress
  <2>4. b # 0 => q[b].addr = q[n].addr /\ q[b].data = q[n].data /\ b # i
    <3> SUFFICES ASSUME b # 0 PROVE q[b].addr = q[n].addr /\ q[b].data = q[n].data /\ b # i
      OBVIOUS
    <3>1. b \in 1 .. n - 1 /\ Blocks(q, n, b) /\ \A k \in 1 .. n - 1 : b < k => ~Blocks(q, n, k)
      BY <2>2
    <3>2. q[b].addr = q[n].addr /\ q[b].data = q[n].data
      BY <1>9, <2>1, <3>1 DEF LsqOK, Sees
    <3> QED
      BY <1>2, <2>3, <3>2
  <2>5. \A k \in 1 .. n - 1 : k \in 1 .. Len(q)
    BY <1>6
  <2>6. \A k \in 1 .. n - 1 : k # i => t[k] = q[k] /\ (Blocks(t, n, k) <=> Blocks(q, n, k))
    BY <1>6, <2>1, <2>5 DEF Blocks
  <2>7. j # i
    <3> SUFFICES ASSUME j = i PROVE FALSE
      OBVIOUS
    <3>1. Blocks(q, n, i)
      BY <1>2 DEF Blocks
    <3>2. i <= b /\ b \in 1 .. n - 1
      BY <2>2, <3>1
    <3>3. j < b /\ Blocks(t, n, b)
      BY <2>2, <2>4, <2>6, <3>2
    <3> QED
      BY <1>9, <3>2, <3>3
  <2>8. j = b
    <3>1. Blocks(q, n, j) /\ j <= b /\ b \in 1 .. n - 1
      BY <1>9, <2>2, <2>6, <2>7
    <3>2. Blocks(t, n, b)
      BY <2>2, <2>4, <2>6, <3>1
    <3> QED
      BY <1>9, <3>1, <3>2
  <2> QED
    BY <2>1, <2>4, <2>6, <2>7, <2>8
<1>10. Sees(t)
  BY <1>6, <1>9 DEF Sees, EntriesKept
<1> QED
  BY <1>8, <1>10 DEF LsqOK, t, u

-----------------------------------------------------------------------------
(* The stages and the memory queues. *)

LEMMA QueuesUntouched ==
    ASSUME MemoryOK, UNCHANGED <<rob, lsq, storeBuffer>>
    PROVE  MemoryOK'
<1>1. rob' = rob /\ lsq' = lsq /\ storeBuffer' = storeBuffer
  OBVIOUS
<1>2. LsqOK(lsq', rob') /\ BufferOK(storeBuffer', 0, rob')
  BY <1>1, Zenon DEF MemoryOK
<1> QED
  BY <1>2 DEF MemoryOK

LEMMA MemoryIdleQueues ==
    ASSUME MachineOK, MemoryOK, MemoryIdle
    PROVE  MemoryOK'
<1>1. IQCapacity - 1 \in IQSlot
  BY SizeAssumption DEF IQSlot
<1>2. LsqOK(Addressed(IQCapacity - 1), rob)
  BY <1>1, ScannedQueue
<1>3. rob' = rob /\ lsq' = Addressed(IQCapacity - 1) /\ storeBuffer' = storeBuffer
  BY DEF MemoryIdle
<1>4. LsqOK(lsq', rob') /\ BufferOK(storeBuffer', 0, rob')
  BY <1>2, <1>3, Zenon DEF MemoryOK
<1> QED
  BY <1>4 DEF MemoryOK

(* What is known of the instruction an entry of the issue queue is for. *)
LEMMA IssuedInstruction ==
    ASSUME MachineOK, NEW i \in IQSlot, iq[i].valid
    PROVE  /\ iq[i] \in EntrySet /\ iq[i].rob \in Index /\ Ring(rob)
           /\ Pending(rob, iq[i].rob) /\ InWindow(rob, iq[i].rob)
           /\ rob.slot[iq[i].rob].data.ins = iq[i].ins
<1>1. Linked(iq, rob) /\ Ring(rob)
  BY DEF MachineOK
<1>2. iq[i] \in EntrySet /\ iq[i].rob \in Index
  BY <1>1, ValidEntry
<1> QED
  BY <1>1, <1>2 DEF Linked, Pending, Describes

LEMMA LoadQueues ==
    ASSUME MachineOK, MemoryOK, ExecuteLoad
    PROVE  MemoryOK'
<1>1. PICK i \in FirstToProceed :
         LET e == iq[i]
             found == LoadResult(Addressed(i), e.rob)
             value == IF found.hit THEN found.data ELSE Meaning!ReadData(dmem, Address(e))
         IN  /\ e.ins.op = "LW"
             /\ lsq' = CompleteLoad(Addressed(i), e.rob, value)
             /\ rob' = Complete(rob, e.rob)
             /\ storeBuffer' = storeBuffer
  BY DEF ExecuteLoad
<1> DEFINE s == iq[i].rob
           q == Addressed(i)
           found == LoadResult(q, s)
           v == IF found.hit THEN found.data ELSE Meaning!ReadData(dmem, Address(iq[i]))
<1>2. i \in IQSlot /\ iq[i].valid /\ Proceeds(i) /\ iq[i].ins.op = "LW"
  BY <1>1, ProceedingSlot DEF FirstToProceed, FirstSlot
<1>3. /\ s \in Index /\ Ring(rob) /\ Pending(rob, s) /\ InWindow(rob, s)
      /\ rob.slot[s].data.ins.op = "LW"
  BY <1>2, IssuedInstruction
<1>4. q \in Seq(LoadStoreSet) /\ LsqOK(q, rob) /\ q[Find(q, s)].addr # Unknown
  BY <1>2, ScannedQueue
<1>5. ~found.wait
  BY <1>2 DEF Proceeds
<1>6. v \in Word /\ (found.hit => v = found.data)
  <2>1. found.hit => found.data \in Word
    BY <1>4, ForwardedWord
  <2>2. Meaning!ReadData(dmem, Address(iq[i])) \in Word
    BY ReadTyped DEF MachineOK
  <2> QED
    BY <2>1, <2>2
<1>7. /\ lsq' = CompleteLoad(q, s, v) /\ rob' = Complete(rob, s) /\ storeBuffer' = storeBuffer
  BY <1>1
<1> HIDE DEF s, q, v
<1>8. LsqOK(CompleteLoad(q, s, v), Complete(rob, s))
  BY <1>3, <1>4, <1>5, <1>6, LoadCompletes
<1>9. BufferOK(storeBuffer, 0, Complete(rob, s))
  <2>1. storeBuffer \in Seq(StoreSet) /\ BufferOK(storeBuffer, 0, rob)
    BY DEF MachineOK, MemoryOK
  <2>2. EntriesKept(storeBuffer, storeBuffer)
    BY DEF EntriesKept
  <2> QED
    BY <1>3, <2>1, <2>2, BufferCompletes
<1>10. LsqOK(lsq', rob') /\ BufferOK(storeBuffer', 0, rob')
  BY <1>7, <1>8, <1>9, Zenon
<1> QED
  BY <1>10 DEF MemoryOK

LEMMA StoreQueues ==
    ASSUME MachineOK, MemoryOK, ExecuteStore
    PROVE  MemoryOK'
<1>1. PICK i \in FirstToProceed :
         LET e == iq[i]
         IN  /\ e.ins.op = "SW"
             /\ lsq' = SetStoreData(SetAddress(Addressed(i), e.rob, Address(e)),
                                    e.rob, e.op2.value)
             /\ storeBuffer' = SBUpdate(storeBuffer, e.rob, Address(e), e.op2.value)
             /\ rob' = Complete(rob, e.rob)
  BY DEF ExecuteStore
<1> DEFINE s == iq[i].rob
           q == Addressed(i)
           a == Address(iq[i])
           d == iq[i].op2.value
<1>2. i \in IQSlot /\ iq[i].valid /\ iq[i].ins.op = "SW"
  BY <1>1, ProceedingSlot
<1>3. /\ s \in Index /\ Ring(rob) /\ Pending(rob, s) /\ InWindow(rob, s)
      /\ rob.slot[s].data.ins.op = "SW" /\ iq[i] \in EntrySet
  BY <1>2, IssuedInstruction
<1>4. q \in Seq(LoadStoreSet) /\ LsqOK(q, rob)
  BY <1>2, ScannedQueue
<1>5. a \in Word /\ d \in Word
  BY <1>3, EntryFields, AddressTyped DEF Address
<1>6. /\ lsq' = SetStoreData(SetAddress(q, s, a), s, d) /\ rob' = Complete(rob, s)
      /\ storeBuffer' = SBUpdate(storeBuffer, s, a, d)
  BY <1>1
<1> HIDE DEF s, q, a, d
<1>7. LsqOK(SetStoreData(SetAddress(q, s, a), s, d), Complete(rob, s))
  BY <1>3, <1>4, <1>5, StoreCompletes
<1>8. BufferOK(SBUpdate(storeBuffer, s, a, d), 0, Complete(rob, s))
  <2> DEFINE t == SBUpdate(storeBuffer, s, a, d)
  <2>1. storeBuffer \in Seq(StoreSet) /\ BufferOK(storeBuffer, 0, rob)
    BY DEF MachineOK, MemoryOK
  <2>2. /\ t \in Seq(StoreSet) /\ EntriesKept(storeBuffer, t)
        /\ \A k \in 1 .. Len(storeBuffer) : t[k].committed <=> storeBuffer[k].committed
    BY <1>5, <2>1, SBUpdateEntries
  <2> HIDE DEF t
  <2>3. BufferOK(t, 0, Complete(rob, s))
    BY <1>3, <2>1, <2>2, BufferCompletes
  <2> QED
    BY <2>3 DEF t
<1>9. LsqOK(lsq', rob') /\ BufferOK(storeBuffer', 0, rob')
  BY <1>6, <1>7, <1>8, Zenon
<1> QED
  BY <1>9 DEF MemoryOK

LEMMA AluQueues ==
    ASSUME MachineOK, MemoryOK, ExecuteAlu \/ BranchAsPredicted
    PROVE  MemoryOK'
<1>1. PICK i \in IQSlot : /\ iq[i].valid /\ iq[i].ins.op \notin {"LW", "SW"}
                          /\ rob' = Complete(rob, iq[i].rob)
                          /\ lsq' = lsq /\ storeBuffer' = storeBuffer
  <2>1. CASE ExecuteAlu
    <3>1. PICK i \in FirstSlot(ReadyAlus) :
             rob' = Complete(rob, iq[i].rob) /\ lsq' = lsq /\ storeBuffer' = storeBuffer
      BY <2>1 DEF ExecuteAlu, memory
    <3>2. i \in IQSlot /\ iq[i].valid /\ iq[i].ins.op \in AluOps
      BY DEF FirstSlot, ReadyAlus, Ready
    <3> QED
      BY <3>1, <3>2 DEF AluOps, TwoSourceAlu
  <2>2. CASE BranchAsPredicted
    <3>1. PICK i \in FirstSlot(ReadyBranches) :
             rob' = Complete(rob, iq[i].rob) /\ lsq' = lsq /\ storeBuffer' = storeBuffer
      BY <2>2 DEF BranchAsPredicted, memory
    <3>2. i \in IQSlot /\ iq[i].valid /\ iq[i].ins.op \in BranchOps
      BY ReadyBranchSlot
    <3> QED
      BY <3>1, <3>2 DEF BranchOps
  <2> QED
    BY <2>1, <2>2
<1> DEFINE s == iq[i].rob
<1>2. /\ s \in Index /\ Ring(rob) /\ InWindow(rob, s)
      /\ rob.slot[s].data.ins.op \notin {"LW", "SW"}
  BY <1>1, IssuedInstruction
<1>3. lsq \in Seq(LoadStoreSet) /\ storeBuffer \in Seq(StoreSet)
  BY DEF MachineOK
<1>4. rob' = Complete(rob, s) /\ lsq' = lsq /\ storeBuffer' = storeBuffer
  BY <1>1
<1> HIDE DEF s
<1>5. LsqOK(lsq, Complete(rob, s)) /\ BufferOK(storeBuffer, 0, Complete(rob, s))
  BY <1>2, <1>3, OtherCompletes DEF MemoryOK
<1>6. LsqOK(lsq', rob') /\ BufferOK(storeBuffer', 0, rob')
  BY <1>4, <1>5, Zenon
<1> QED
  BY <1>6 DEF MemoryOK

(* The CPU does not remove what a recovery squashes from the load/store     *)
(* queue and the store buffer, so they are right only as long as there is   *)
(* nothing to remove: no load or store behind a mispredicted branch.        *)
WrongPathSparesMemory ==
    stage = "branch" => \A i \in FirstSlot(ReadyBranches) : Mispredicted(iq[i]) =>
        \A r \in Younger(rob, iq[i].rob) : Data(r).ins.op \notin {"LW", "SW"}

LEMMA RecoveryQueues ==
    ASSUME MachineOK, MemoryOK, BranchMispredicted, WrongPathSparesMemory
    PROVE  MemoryOK'
<1>1. PICK i \in FirstSlot(ReadyBranches) :
         LET e == iq[i]
             recovered == SquashYoungerThan(Complete(rob, e.rob), e.rob)
         IN  /\ stage = "branch"
             /\ Mispredicted(e)
             /\ rob' = recovered
             /\ lsq' = LsqSquash(lsq, Younger(recovered, e.rob))
             /\ storeBuffer' = SBSquash(storeBuffer, Younger(recovered, e.rob))
  BY DEF BranchMispredicted
<1> DEFINE s == iq[i].rob
           c == Complete(rob, s)
<1>2. i \in IQSlot /\ iq[i].valid /\ iq[i].ins.op \in BranchOps
  BY ReadyBranchSlot
<1>3. /\ s \in Index /\ Ring(rob) /\ InWindow(rob, s)
      /\ rob.slot[s].data.ins.op \notin {"LW", "SW"}
  BY <1>2, IssuedInstruction DEF BranchOps
<1>4. lsq \in Seq(LoadStoreSet) /\ storeBuffer \in Seq(StoreSet)
  BY DEF MachineOK
<1>5. LsqOK(lsq, c) /\ BufferOK(storeBuffer, 0, c)
  BY <1>3, <1>4, OtherCompletes DEF MemoryOK
<1>6. \A j \in Younger(rob, s) : rob.slot[j].data.ins.op \notin {"LW", "SW"}
  BY <1>1 DEF WrongPathSparesMemory, Data
<1>7. /\ rob' = SquashYoungerThan(c, s)
      /\ lsq' = LsqSquash(lsq, Younger(SquashYoungerThan(c, s), s))
      /\ storeBuffer' = SBSquash(storeBuffer, Younger(SquashYoungerThan(c, s), s))
  BY <1>1
<1>8. /\ Ring(c) /\ InWindow(c, s)
      /\ \A j \in Index : /\ Position(c, j) = Position(rob, j)
                          /\ InWindow(c, j) <=> InWindow(rob, j)
                          /\ c.slot[j].data = rob.slot[j].data
  BY <1>3, CompleteRing
<1> HIDE DEF s, c
<1>9. \A j \in Younger(c, s) : c.slot[j].data.ins.op \notin {"LW", "SW"}
  <2>1. Younger(c, s) = Younger(rob, s) /\ Younger(c, s) \subseteq Index
    BY <1>3, <1>8 DEF Younger
  <2> QED
    BY <1>6, <1>8, <2>1
<1>10. Younger(SquashYoungerThan(c, s), s) = {}
  BY <1>3, <1>8, NothingYounger
<1>11. lsq' = lsq /\ storeBuffer' = storeBuffer
  BY <1>4, <1>7, <1>10, SquashOfNothing
<1>12. /\ LsqOK(lsq, SquashYoungerThan(c, s))
       /\ BufferOK(storeBuffer, 0, SquashYoungerThan(c, s))
  BY <1>3, <1>4, <1>5, <1>8, <1>9, OthersSquashed
<1>13. LsqOK(lsq', rob') /\ BufferOK(storeBuffer', 0, rob')
  BY <1>7, <1>11, <1>12, Zenon
<1> QED
  BY <1>13 DEF MemoryOK

(* Dispatch: both queues have room for what the reorder buffer takes. *)
LEMMA QueuesAllocated ==
    ASSUME Capacity <= LSQCapacity, Capacity <= SBCapacity,
           NEW q \in Seq(LoadStoreSet), NEW b \in Seq(StoreSet), NEW r, Ring(r), ~Full(r),
           LsqOK(q, r), BufferOK(b, 0, r), NEW d, DataOK(d)
    PROVE  /\ LsqOK(CASE d.ins.op = "LW" -> LsqAllocate(q, "LOAD", r.tail)
                      [] d.ins.op = "SW" -> LsqAllocate(q, "STORE", r.tail)
                      [] OTHER -> q, Allocate(r, d))
           /\ BufferOK(IF d.ins.op = "SW" THEN SBAllocate(b, r.tail) ELSE b, 0, Allocate(r, d))
<1> DEFINE s == Allocate(r, d)
           type == IF d.ins.op = "LW" THEN "LOAD" ELSE "STORE"
           e == LsqEntry(type, r.tail)
           t == IF d.ins.op \in {"LW", "SW"} THEN Append(q, e) ELSE q
           u == IF d.ins.op \in {"SW"} THEN Append(b, StoreEntry(r.tail)) ELSE b
<1>1. /\ Tracks(q, 0, r, {"LW", "SW"}) /\ Progress(q, r) /\ Sees(q)
      /\ Tracks(b, 0, r, {"SW"}) /\ \A k \in 1 .. Len(b) : b[k].committed <=> k <= 0
  BY DEF LsqOK, BufferOK
<1>2. Len(q) < LSQCapacity /\ Len(b) < SBCapacity
  <2>1. Len(q) <= r.count /\ Len(b) <= r.count
    BY <1>1, TrackedFit
  <2>2. r.count < Capacity /\ r.count \in Nat
    BY CapacityAssumption DEF Ring, InOrder, Full
  <2>3. LSQCapacity \in Nat /\ SBCapacity \in Nat /\ Capacity \in Nat
    BY SizeAssumption, CapacityAssumption
  <2> QED
    BY <2>1, <2>2, <2>3
<1>3. /\ t = CASE d.ins.op = "LW" -> LsqAllocate(q, "LOAD", r.tail)
               [] d.ins.op = "SW" -> LsqAllocate(q, "STORE", r.tail)
               [] OTHER -> q
      /\ u = IF d.ins.op = "SW" THEN SBAllocate(b, r.tail) ELSE b
  BY <1>2 DEF LsqAllocate, SBAllocate
<1>4. /\ r.tail \in Index /\ ~InWindow(r, r.tail) /\ s.slot[r.tail].data = d
      /\ \A j \in Index : /\ j # r.tail => s.slot[j] = r.slot[j]
                          /\ Pending(s, j) <=> Pending(r, j) \/ j = r.tail
  BY AllocateRing
<1>5. e \in LoadStoreSet /\ e.rob = r.tail
  BY <1>4 DEF LsqEntry, LoadStoreSet
<1>6. StoreEntry(r.tail) \in StoreSet /\ StoreEntry(r.tail).rob = r.tail
      /\ StoreEntry(r.tail).committed = FALSE
  BY <1>4, WordIsInt DEF StoreEntry, StoreSet
<1>7. /\ t \in Seq(LoadStoreSet) /\ Len(q) \in Nat
      /\ \A k \in 1 .. Len(q) : t[k] = q[k]
      /\ IF d.ins.op \in {"LW", "SW"} THEN Len(t) = Len(q) + 1 /\ t[Len(q) + 1] = e
         ELSE t = q
  BY <1>5
<1>8. /\ u \in Seq(StoreSet) /\ Len(b) \in Nat
      /\ \A k \in 1 .. Len(b) : u[k] = b[k]
      /\ IF d.ins.op \in {"SW"} THEN Len(u) = Len(b) + 1 /\ u[Len(b) + 1] = StoreEntry(r.tail)
         ELSE u = b
  BY <1>6
<1>9. Tracks(t, 0, s, {"LW", "SW"}) /\ Tracks(u, 0, s, {"SW"})
  <2> HIDE DEF t, u, e
  <2>1. Tracks(t, 0, s, {"LW", "SW"})
    BY <1>1, <1>5, <1>7, TracksAllocated DEF EntriesKept
  <2>2. Tracks(u, 0, s, {"SW"})
    BY <1>1, <1>6, <1>8, TracksAllocated DEF EntriesKept
  <2> QED
    BY <2>1, <2>2
<1> HIDE DEF s, t, u
<1>10. /\ e.type = type /\ e.addr = Unknown /\ e.data = Unknown /\ e.executed = FALSE
  BY DEF LsqEntry
<1> HIDE DEF e
<1>11. Progress(t, s)
  <2>1. ASSUME NEW k \in 1 .. Len(t)
        PROVE  /\ s.slot[t[k].rob].data.ins.op = MemoryOp(t[k].type)
               /\ t[k].executed <=> ~Pending(s, t[k].rob)
               /\ IF t[k].executed THEN t[k].addr # Unknown /\ t[k].data # Unknown
                  ELSE t[k].data = Unknown /\ (t[k].type = "STORE" => t[k].addr = Unknown)
    <3>1. CASE k \in 1 .. Len(q)
      <4>1. t[k] = q[k] /\ q[k].rob \in Index /\ q[k].rob # r.tail
        BY <1>1, <1>4, <1>7, <3>1 DEF Tracks
      <4>2. /\ s.slot[q[k].rob] = r.slot[q[k].rob]
            /\ Pending(s, q[k].rob) <=> Pending(r, q[k].rob)
        BY <1>4, <4>1
      <4> QED
        BY <1>1, <3>1, <4>1, <4>2 DEF Progress
    <3>2. CASE k \notin 1 .. Len(q)
      <4>1. t[k] = e /\ d.ins.op \in {"LW", "SW"}
        BY <1>7, <2>1, <3>2
      <4> QED
        BY <1>4, <1>5, <1>10, <4>1 DEF MemoryOp
    <3> QED
      BY <3>1, <3>2
  <2> QED
    BY <2>1 DEF Progress
<1>12. Sees(t)
  <2>1. ASSUME NEW i \in 1 .. Len(t), t[i].type = "LOAD", t[i].executed,
               NEW j \in 1 .. i - 1, Blocks(t, i, j),
               \A k \in 1 .. i - 1 : j < k => ~Blocks(t, i, k)
        PROVE  t[j].addr = t[i].addr /\ t[j].data = t[i].data
    <3>1. i \in 1 .. Len(q)
      BY <1>7, <1>10, <2>1
    <3>2. \A k \in 1 .. i - 1 : k \in 1 .. Len(q)
      BY <1>7, <3>1
    <3>3. t[i] = q[i] /\ t[j] = q[j] /\ \A k \in 1 .. i - 1 : Blocks(t, i, k) <=> Blocks(q, i, k)
      BY <1>7, <3>1, <3>2 DEF Blocks
    <3> QED
      BY <1>1, <2>1, <3>1, <3>3 DEF Sees
  <2> QED
    BY <2>1 DEF Sees
<1>13. \A k \in 1 .. Len(u) : u[k].committed <=> k <= 0
  BY <1>1, <1>6, <1>8
<1>14. LsqOK(t, s) /\ BufferOK(u, 0, s)
  BY <1>9, <1>11, <1>12, <1>13 DEF LsqOK, BufferOK
<1> QED
  BY <1>3, <1>14, Zenon DEF s

MemQueues(s) == LsqOK(s.lsq, s.rob) /\ BufferOK(s.buffer, 0, s.rob)

LEMMA DispatchQueues ==
    ASSUME Capacity <= LSQCapacity, Capacity <= SBCapacity,
           NEW renamed, RenameOK(renamed), NEW b \in BundleSet,
           NEW n \in Nat, NEW s, DispatchOK(s, n), MemQueues(s)
    PROVE  MemQueues(Dispatch(renamed, s, b))
<1>1. CASE s.halt
  <2>1. Dispatch(renamed, s, b) = s
    BY <1>1 DEF Dispatch
  <2> QED
    BY <2>1
<1>2. CASE ~s.halt /\ (Full(s.rob) \/ IQFull(s.iq))
  <2>1. Dispatch(renamed, s, b) = [s EXCEPT !.taken = @ + 1]
    BY <1>2 DEF Dispatch
  <2> DEFINE t == [s EXCEPT !.taken = @ + 1]
  <2>2. t.rob = s.rob /\ t.lsq = s.lsq /\ t.buffer = s.buffer
    OBVIOUS
  <2> HIDE DEF t
  <2>3. MemQueues(t)
    BY <2>2 DEF MemQueues
  <2> QED
    BY <2>1, <2>3 DEF t
<1>3. CASE ~s.halt /\ ~(Full(s.rob) \/ IQFull(s.iq))
  <2> DEFINE ins == b.lane.ins
             q == s.rob
             r == q.tail
             d == RobData(renamed, b)
             a == Allocate(q, d)
             lq == CASE ins.op = "LW" -> LsqAllocate(s.lsq, "LOAD", r)
                     [] ins.op = "SW" -> LsqAllocate(s.lsq, "STORE", r)
                     [] OTHER -> s.lsq
             sb == IF ins.op = "SW" THEN SBAllocate(s.buffer, r) ELSE s.buffer
             t == Dispatch(renamed, s, b)
  <2>1. /\ t.rob = IF CompletesAtDispatch(ins) THEN Complete(a, r) ELSE a
        /\ t.lsq = lq /\ t.buffer = sb
    BY <1>3 DEF Dispatch
  <2>2. /\ Ring(q) /\ ~Full(q)
        /\ s.lsq \in Seq(LoadStoreSet) /\ Len(s.lsq) <= LSQCapacity
        /\ s.buffer \in Seq(StoreSet) /\ Len(s.buffer) <= SBCapacity
        /\ LsqOK(s.lsq, q) /\ BufferOK(s.buffer, 0, q)
    BY <1>3 DEF DispatchOK, MemQueues
  <2>3. r \in Index
    BY <2>2 DEF Ring, InOrder
  <2>4. DataOK(d) /\ d.ins = ins
    BY <2>3, DispatchedData DEF RobData
  <2>5. /\ lq \in Seq(LoadStoreSet) /\ sb \in Seq(StoreSet)
    BY <2>2, <2>3, AllocatedEntries
  <2> HIDE DEF t, d, q, ins
  <2>6. LsqOK(lq, a) /\ BufferOK(sb, 0, a)
    BY <2>2, <2>4, QueuesAllocated
  <2>7. Ring(a) /\ InWindow(a, r) /\ a.slot[r].data = d
    BY <2>2, <2>3, <2>4, AllocateRing
  <2> HIDE DEF r, a, lq, sb
  <2>8. CASE CompletesAtDispatch(ins)
    <3>1. d.ins.op \notin {"LW", "SW"}
      BY <2>4, <2>8 DEF CompletesAtDispatch
    <3>2. LsqOK(lq, Complete(a, r)) /\ BufferOK(sb, 0, Complete(a, r))
      BY <2>3, <2>5, <2>6, <2>7, <3>1, OtherCompletes
    <3> QED
      BY <2>1, <2>8, <3>2 DEF MemQueues, t
  <2>9. CASE ~CompletesAtDispatch(ins)
    BY <2>1, <2>6, <2>9 DEF MemQueues, t
  <2> QED
    BY <2>8, <2>9
<1> QED
  BY <1>1, <1>2, <1>3

LEMMA RenameQueues ==
    ASSUME Capacity <= LSQCapacity, Capacity <= SBCapacity,
           MachineOK, MemoryOK, RenameAndDispatch
    PROVE  MemoryOK'
<1> DEFINE renamed == Renamed(Lanes)
           out == renamed.out
           s == [rob |-> rob, iq |-> iq, lsq |-> lsq, buffer |-> storeBuffer,
                 halt |-> FALSE, taken |-> 0]
           t == Dispatch(renamed, s, out[1])
           u == Dispatch(renamed, t, out[2])
<1>1. RenameOK(renamed) /\ Len(out) \in {1, 2}
  <2>1. CanRename(Lanes)
    BY DEF RenameAndDispatch
  <2> QED
    BY <2>1, LanesTyped, RenamedTyped
<1>2. rob' = Dispatched(renamed).rob /\ lsq' = Dispatched(renamed).lsq
      /\ storeBuffer' = Dispatched(renamed).buffer
  BY DEF RenameAndDispatch
<1> HIDE DEF renamed
<1>3. out[1] \in BundleSet /\ (Len(out) = 2 => out[2] \in BundleSet)
  BY <1>1 DEF RenameOK
<1>4. Dispatched(renamed) = IF Len(out) = 1 THEN t ELSE u
  BY <1>1 DEF Dispatched, ForEach
<1>5. DispatchOK(s, 0) /\ MemQueues(s)
  BY DEF DispatchOK, MachineOK, MemoryOK, MemQueues
<1> HIDE DEF s, out
<1>6. DispatchOK(t, 1) /\ MemQueues(t)
  BY <1>1, <1>3, <1>5, DispatchTyped, DispatchQueues
<1> HIDE DEF t
<1>7. Len(out) = 2 => MemQueues(u)
  BY <1>1, <1>3, <1>6, DispatchQueues
<1> HIDE DEF u
<1>8. MemQueues(Dispatched(renamed))
  BY <1>1, <1>4, <1>6, <1>7
<1>9. LsqOK(lsq', rob') /\ BufferOK(storeBuffer', 0, rob')
  BY <1>2, <1>8, Zenon DEF MemQueues
<1> QED
  BY <1>9 DEF MemoryOK

(* Retirement: the head leaves the load/store queue, and a store is the     *)
(* next one of the store buffer to be committed.                            *)
LEMMA LoadStoreRetires ==
    ASSUME NEW q \in Seq(LoadStoreSet), NEW r, Ring(r), CanCommit(r), LsqOK(q, r)
    PROVE  LsqOK(LsqRemove(q, r.head), Commit(r))
<1> DEFINE s == Commit(r)
           h == r.head
           t == LsqRemove(q, h)
<1>1. Tracks(q, 0, r, {"LW", "SW"}) /\ Progress(q, r) /\ Sees(q)
  BY DEF LsqOK
<1>2. IF r.slot[h].data.ins.op \in {"LW", "SW"}
      THEN /\ Find(q, h) = 0 + 1 /\ 0 + 1 \in 1 .. Len(q)
           /\ Tracks(q, 0 + 1, s, {"LW", "SW"})
      ELSE /\ Find(q, h) = 0
           /\ Tracks(q, 0, s, {"LW", "SW"})
  BY <1>1, TracksCommitted
<1>3. \A j \in Index : InWindow(s, j) => /\ s.slot[j] = r.slot[j]
                                         /\ Pending(s, j) <=> Pending(r, j)
  BY CommitRing
<1> HIDE DEF s, h
<1>4. CASE r.slot[h].data.ins.op \notin {"LW", "SW"}
  <2>1. t = q /\ Tracks(q, 0, s, {"LW", "SW"})
    BY <1>2, <1>4 DEF LsqRemove
  <2>2. \A k \in 1 .. Len(q) : q[k].rob \in Index /\ InWindow(s, q[k].rob)
    BY <2>1 DEF Tracks
  <2>3. Progress(q, s)
    BY <1>1, <1>3, <2>2 DEF Progress
  <2> QED
    BY <1>1, <2>1, <2>3 DEF LsqOK, s, h
<1>5. CASE r.slot[h].data.ins.op \in {"LW", "SW"}
  <2>1. Find(q, h) = 1 /\ 1 \in 1 .. Len(q) /\ Tracks(q, 0 + 1, s, {"LW", "SW"})
    BY <1>2, <1>5
  <2>2. t = RemoveAt(q, 1)
    BY <2>1 DEF LsqRemove
  <2> HIDE DEF t
  <2>3. /\ t \in Seq(LoadStoreSet) /\ Len(t) = Len(q) - 1 /\ Len(q) \in Nat
        /\ \A k \in 1 .. Len(q) - 1 : t[k] = q[k + 1]
    <3>1. /\ RemoveAt(q, 1) \in Seq(LoadStoreSet) /\ Len(RemoveAt(q, 1)) = Len(q) - 1
          /\ \A k \in 1 .. Len(q) - 1 :
                RemoveAt(q, 1)[k] = IF k < 1 THEN q[k] ELSE q[k + 1]
      BY <2>1, RemoveAtEntries
    <3> QED
      BY <2>2, <3>1
  <2>4. Tracks(t, 0, s, {"LW", "SW"})
    BY <2>1, <2>3, TracksTail
  <2>5. \A k \in 1 .. Len(t) : /\ k + 1 \in 1 .. Len(q) /\ t[k] = q[k + 1]
                               /\ t[k].rob \in Index /\ InWindow(s, t[k].rob)
    BY <2>3, <2>4 DEF Tracks
  <2>6. Progress(t, s)
    BY <1>1, <1>3, <2>5 DEF Progress
  <2>7. ASSUME NEW i \in 1 .. Len(t), t[i].type = "LOAD", t[i].executed,
               NEW j \in 1 .. i - 1, Blocks(t, i, j),
               \A k \in 1 .. i - 1 : j < k => ~Blocks(t, i, k)
        PROVE  t[j].addr = t[i].addr /\ t[j].data = t[i].data
    <3>1. /\ i + 1 \in 1 .. Len(q) /\ t[i] = q[i + 1]
          /\ j + 1 \in 1 .. (i + 1) - 1 /\ t[j] = q[j + 1]
      BY <2>3, <2>5, <2>7
    <3>2. \A k \in 1 .. i - 1 : Blocks(t, i, k) <=> Blocks(q, i + 1, k + 1)
      <4>1. \A k \in 1 .. i - 1 : k \in 1 .. Len(t)
        BY <2>3
      <4> QED
        BY <2>5, <3>1, <4>1 DEF Blocks
    <3>3. ASSUME NEW k \in 1 .. (i + 1) - 1, j + 1 < k
          PROVE  ~Blocks(q, i + 1, k)
      <4>1. k - 1 \in 1 .. i - 1 /\ j < k - 1 /\ (k - 1) + 1 = k
        BY <2>3, <3>3
      <4> QED
        BY <2>7, <3>2, <4>1
    <3>4. q[j + 1].addr = q[i + 1].addr /\ q[j + 1].data = q[i + 1].data
      BY <1>1, <2>7, <3>1, <3>2, <3>3 DEF Sees
    <3> QED
      BY <3>1, <3>4
  <2>8. Sees(t)
    BY <2>7 DEF Sees
  <2> QED
    BY <2>4, <2>6, <2>8 DEF LsqOK, s, t, h
<1> QED
  BY <1>4, <1>5

LEMMA StoreRetires ==
    ASSUME NEW b \in Seq(StoreSet), NEW n \in Nat, NEW r, Ring(r), CanCommit(r),
           BufferOK(b, n, r)
    PROVE  IF r.slot[r.head].data.ins.op = "SW"
           THEN BufferOK(MarkCommitted(b, r.head), n + 1, Commit(r))
           ELSE BufferOK(b, n, Commit(r))
<1> DEFINE s == Commit(r)
           h == r.head
           t == MarkCommitted(b, h)
<1>1. Tracks(b, n, r, {"SW"}) /\ \A k \in 1 .. Len(b) : b[k].committed <=> k <= n
  BY DEF BufferOK
<1>2. IF r.slot[h].data.ins.op \in {"SW"}
      THEN /\ Find(b, h) = n + 1 /\ n + 1 \in 1 .. Len(b)
           /\ Tracks(b, n + 1, s, {"SW"})
      ELSE /\ Find(b, h) = 0
           /\ Tracks(b, n, s, {"SW"})
  BY <1>1, TracksCommitted
<1>3. /\ t \in Seq(StoreSet) /\ EntriesKept(b, t)
      /\ \A k \in 1 .. Len(b) : t[k].committed <=> k = Find(b, h) \/ b[k].committed
  BY MarkCommittedEntries
<1> HIDE DEF s, h, t
<1>4. CASE r.slot[h].data.ins.op # "SW"
  BY <1>1, <1>2, <1>4 DEF BufferOK, s, h
<1>5. CASE r.slot[h].data.ins.op = "SW"
  <2>1. Find(b, h) = n + 1 /\ Tracks(b, n + 1, s, {"SW"}) /\ n + 1 \in Nat
    BY <1>2, <1>5
  <2>2. Tracks(t, n + 1, s, {"SW"})
    BY <1>3, <2>1, TracksKept
  <2>3. \A k \in 1 .. Len(t) : t[k].committed <=> k <= n + 1
    BY <1>1, <1>3, <2>1 DEF EntriesKept
  <2>4. BufferOK(t, n + 1, s)
    BY <2>2, <2>3 DEF BufferOK
  <2> QED
    BY <1>5, <2>4 DEF s, h, t
<1> QED
  BY <1>4, <1>5 DEF h

RetireQueues(s) == LsqOK(s.lsq, s.rob) /\ BufferOK(s.buffer, s.stores, s.rob)

LEMMA HeadRetires ==
    ASSUME NEW n \in Nat, NEW s, RetireOK(s, n), RetireQueues(s)
    PROVE  RetireQueues(RetireHead(s))
<1>1. CASE s.halted \/ ~CanCommit(s.rob)
  <2> DEFINE t == RetireHead(s)
  <2>1. t = s
    BY <1>1, RetireStops
  <2>2. RetireQueues(t)
    <3> HIDE DEF t
    <3> QED
      BY <2>1, Zenon
  <2> QED
    BY <2>2
<1>2. CASE ~(s.halted \/ ~CanCommit(s.rob))
  <2> DEFINE r == s.rob
             h == r.head
             op == r.slot[h].data.ins.op
             t == RetireHead(s)
  <2>1. /\ t.rob = Commit(r)
        /\ t.lsq = LsqRemove(s.lsq, h)
        /\ t.buffer = IF op = "SW" THEN MarkCommitted(s.buffer, h) ELSE s.buffer
        /\ t.stores = IF op = "SW" THEN s.stores + 1 ELSE s.stores
    BY <1>2 DEF RetireHead
  <2>2. /\ CanCommit(r) /\ Ring(r) /\ s.lsq \in Seq(LoadStoreSet)
        /\ s.buffer \in Seq(StoreSet) /\ s.stores \in Nat
        /\ LsqOK(s.lsq, r) /\ BufferOK(s.buffer, s.stores, r)
    BY <1>2 DEF RetireOK, RetireQueues
  <2> HIDE DEF r, t
  <2>3. LsqOK(LsqRemove(s.lsq, h), Commit(r))
    BY <2>2, LoadStoreRetires
  <2>4. IF op = "SW" THEN BufferOK(MarkCommitted(s.buffer, h), s.stores + 1, Commit(r))
        ELSE BufferOK(s.buffer, s.stores, Commit(r))
    BY <2>2, StoreRetires
  <2> HIDE DEF h, op
  <2>5. LsqOK(t.lsq, t.rob) /\ BufferOK(t.buffer, t.stores, t.rob)
    BY <2>1, <2>3, <2>4
  <2> QED
    BY <2>5 DEF RetireQueues, t
<1> QED
  BY <1>1, <1>2

(* Each retired store finds its entry at the front of the store buffer. *)
LEMMA DrainQueues ==
    ASSUME NEW r, NEW n \in Nat, NEW s, DrainOK(s), BufferOK(s.buffer, n + 1, r)
    PROVE  BufferOK(Drain(s).buffer, n, r)
<1> DEFINE b == s.buffer
           t == Tail(b)
<1>1. /\ b \in Seq(StoreSet) /\ Tracks(b, n + 1, r, {"SW"})
      /\ \A k \in 1 .. Len(b) : b[k].committed <=> k <= n + 1
  BY DEF DrainOK, BufferOK
<1>2. Len(b) \in Nat /\ n + 1 <= Len(b) /\ 1 \in 1 .. Len(b)
  BY <1>1 DEF Tracks
<1>3. Drain(s).buffer = t
  <2>1. b[1].committed
    BY <1>1, <1>2
  <2>2. CanPop(b)
    BY <1>1, <1>2, <2>1 DEF CanPop
  <2> QED
    BY <2>2 DEF Drain
<1> HIDE DEF b
<1>4. /\ t \in Seq(StoreSet) /\ Len(t) = Len(b) - 1
      /\ \A k \in 1 .. Len(b) - 1 : t[k] = b[k + 1]
  BY <1>1, <1>2
<1> HIDE DEF t
<1>5. Tracks(t, n, r, {"SW"})
  BY <1>1, <1>4, TracksTail
<1>6. \A k \in 1 .. Len(t) : t[k].committed <=> k <= n
  BY <1>1, <1>2, <1>4
<1> QED
  BY <1>3, <1>5, <1>6 DEF BufferOK

LEMMA CommitQueues ==
    ASSUME MachineOK, MemoryOK, CommitStage
    PROVE  MemoryOK'
<1> DEFINE first == [rob |-> rob, arf |-> arf, free |-> freeList,
                     checkpoints |-> checkpoints, lsq |-> lsq, buffer |-> storeBuffer,
                     stores |-> 0, halted |-> FALSE]
           second == RetireHead(first)
           retired == RetireHead(second)
           s == [buffer |-> retired.buffer, mem |-> dmem]
<1>1. prf \in [Physical -> Cell] /\ dmem \in [0 .. DMemWords - 1 -> Word]
  BY DEF MachineOK
<1>2. RetireOK(first, 0) /\ RetireQueues(first)
  BY DEF MachineOK, RetireOK, MemoryOK, RetireQueues
<1>3. /\ rob' = retired.rob /\ lsq' = retired.lsq
      /\ storeBuffer' = Drained(retired).buffer
  BY DEF CommitStage
<1> HIDE DEF first
<1>4. RetireOK(second, 1) /\ RetireQueues(second)
  BY <1>1, <1>2, RetireHeadTyped, HeadRetires
<1> HIDE DEF second
<1>5. RetireOK(retired, 2) /\ RetireQueues(retired)
  BY <1>1, <1>4, RetireHeadTyped, HeadRetires
<1> HIDE DEF retired
<1>6. /\ DrainOK(s) /\ retired.stores \in {0, 1, 2}
      /\ BufferOK(s.buffer, retired.stores, retired.rob)
  BY <1>1, <1>5 DEF RetireOK, DrainOK, RetireQueues
<1>7. Drained(retired) = CASE retired.stores = 0 -> s
                           [] retired.stores = 1 -> Drain(s)
                           [] retired.stores = 2 -> Drain(Drain(s))
  BY DEF Drained
<1> HIDE DEF s
<1>8. BufferOK(Drained(retired).buffer, 0, retired.rob)
  <2>1. CASE retired.stores = 0
    BY <1>6, <1>7, <2>1
  <2>2. CASE retired.stores = 1
    <3>1. BufferOK(s.buffer, 0 + 1, retired.rob)
      BY <1>6, <2>2
    <3> QED
      BY <1>6, <1>7, <2>2, <3>1, DrainQueues
  <2>3. CASE retired.stores = 2
    <3>1. BufferOK(s.buffer, 1 + 1, retired.rob)
      BY <1>6, <2>3
    <3>2. BufferOK(Drain(s).buffer, 0 + 1, retired.rob) /\ DrainOK(Drain(s))
      BY <1>6, <3>1, DrainQueues, DrainTyped
    <3>3. BufferOK(Drain(Drain(s)).buffer, 0, retired.rob)
      BY <3>2, DrainQueues
    <3> QED
      BY <1>7, <2>3, <3>3
  <2> QED
    BY <1>6, <2>1, <2>2, <2>3
<1>9. LsqOK(lsq', rob') /\ BufferOK(storeBuffer', 0, rob')
  BY <1>3, <1>5, <1>8, Zenon DEF RetireQueues
<1> QED
  BY <1>9 DEF MemoryOK

LEMMA MemoryInit == Init => MemoryOK
<1> SUFFICES ASSUME Init PROVE MemoryOK
  OBVIOUS
<1>1. lsq = << >> /\ storeBuffer = << >> /\ rob = ResetRob
  BY DEF Init
<1>2. \A j \in Index : ~InWindow(ResetRob, j)
  <2>1. Ring(ResetRob)
    BY <1>1, MachineInit DEF MachineOK
  <2>2. ResetRob.count = 0
    BY DEF ResetRob
  <2>3. \A j \in Index : Position(ResetRob, j) \in Nat
    BY <2>1, PositionValue DEF Ring, InOrder, Index
  <2> QED
    BY <2>2, <2>3 DEF InWindow
<1>3. \A ops : Tracks(<< >>, 0, ResetRob, ops)
  BY <1>2 DEF Tracks
<1>4. Progress(<< >>, ResetRob) /\ Sees(<< >>)
  BY DEF Progress, Sees
<1> QED
  BY <1>1, <1>3, <1>4 DEF MemoryOK, LsqOK, BufferOK

LEMMA MemoryStep ==
    ASSUME Capacity <= LSQCapacity, Capacity <= SBCapacity
    PROVE  MachineOK /\ MemoryOK /\ WrongPathSparesMemory /\ [Next]_vars => MemoryOK'
<1> SUFFICES ASSUME MachineOK, MemoryOK, WrongPathSparesMemory, [Next]_vars PROVE MemoryOK'
  OBVIOUS
<1>1. CASE CommitStage
  BY <1>1, CommitQueues
<1>2. CASE MemoryIdle
  BY <1>2, MemoryIdleQueues
<1>3. CASE ExecuteLoad
  BY <1>3, LoadQueues
<1>4. CASE ExecuteStore
  BY <1>4, StoreQueues
<1>5. CASE NoBranchReady \/ AluIdle \/ RenameIdle
  BY <1>5, QueuesUntouched DEF NoBranchReady, AluIdle, RenameIdle, memory
<1>6. CASE ExecuteAlu \/ BranchAsPredicted
  BY <1>6, AluQueues
<1>7. CASE BranchMispredicted
  BY <1>7, RecoveryQueues
<1>8. CASE BundleNotRenamed \/ Fetch
  BY <1>8, QueuesUntouched DEF BundleNotRenamed, Fetch, memory
<1>9. CASE RenameAndDispatch
  BY <1>9, RenameQueues
<1>10. CASE UNCHANGED vars
  BY <1>10, QueuesUntouched DEF vars, memory
<1> QED
  BY <1>1, <1>2, <1>3, <1>4, <1>5, <1>6, <1>7, <1>8, <1>9, <1>10 DEF Next

(* Both memory queues agree with the reorder buffer, and what an entry has  *)
(* is what its instruction has done.                                        *)
THEOREM MemoryHolds ==
    ASSUME Capacity <= LSQCapacity, Capacity <= SBCapacity
    PROVE  Spec /\ []WrongPathSparesMemory => []MemoryOK
<1>1. MachineOK /\ MemoryOK /\ WrongPathSparesMemory /\ [Next]_vars => MemoryOK'
  BY MemoryStep
<1> QED
  BY <1>1, MachineHolds, MemoryInit, PTL DEF Spec

(* The load/store queue holds the loads and stores in flight and the store  *)
(* buffer the stores in flight, in program order and nothing else: pop_     *)
(* committed always takes the store that has just retired.                  *)
THEOREM MemoryQueuesMirror ==
    ASSUME Capacity <= LSQCapacity, Capacity <= SBCapacity
    PROVE  Spec /\ []WrongPathSparesMemory => []MemoryQueuesMirrorRob
<1>1. MachineOK /\ MemoryOK => MemoryQueuesMirrorRob
  BY MemoryQueuesFollow
<1> QED
  BY <1>1, MachineHolds, MemoryHolds, PTL

(* A load that has executed has the value of the youngest older store to    *)
(* its address: that store had resolved its address before the load read,   *)
(* and none in between is still without one.                                *)
THEOREM LoadsSeeStores ==
    ASSUME Capacity <= LSQCapacity, Capacity <= SBCapacity
    PROVE  Spec /\ []WrongPathSparesMemory => []LoadsSeeOlderStores
<1>1. MachineOK /\ MemoryOK => LoadsSeeOlderStores
  BY MemoryQueuesFollow
<1> QED
  BY <1>1, MachineHolds, MemoryHolds, PTL

(* Every store that retires is in memory at the end of the commit stage.    *)
THEOREM StoresReachMemory ==
    ASSUME Capacity <= LSQCapacity, Capacity <= SBCapacity
    PROVE  Spec /\ []WrongPathSparesMemory => []CommittedStoresReachMemory
<1>1. MachineOK /\ MemoryOK => CommittedStoresReachMemory
  BY MemoryQueuesFollow
<1> QED
  BY <1>1, MachineHolds, MemoryHolds, PTL

-----------------------------------------------------------------------------
(* Register renaming against the reorder buffer. *)
Writes(r, i) == InWindow(r, i) /\ WritesRegister(r.slot[i].data.ins)
Prd(r, i)    == r.slot[i].data.prd
Rd(r, i)     == r.slot[i].data.ins.rd

(* What an instruction makes of the RAT. *)
Renames(before, after, d) ==
    /\ IF WritesRegister(d.ins)
       THEN d.old = before[d.ins.rd] /\ after = [before EXCEPT ![d.ins.rd] = d.prd]
       ELSE after = before
    /\ d.ins.op \in BranchOps => d.cp = after

LEMMA RenamesOne ==
    ASSUME NEW before \in [Register -> Physical], NEW after, NEW d,
           Renames(before, after, d), WritesRegister(d.ins), d.ins.rd \in Register
    PROVE  /\ d.old = before[d.ins.rd] /\ after[d.ins.rd] = d.prd
           /\ \A b \in Register : b # d.ins.rd => after[b] = before[b]
BY DEF Renames

(* m[k] is the RAT as the k oldest instructions in flight have made it. *)
History(m, r) ==
    /\ m \in [0 .. r.count -> [Register -> Physical]]
    /\ \A i \in Index : InWindow(r, i) =>
          Renames(m[Position(r, i)], m[Position(r, i) + 1], r.slot[i].data)

(* A physical register is free, in f, or the destination of a writer in     *)
(* flight, or committed, in h, and only one of them.                        *)
Partitioned(h, r, f) ==
    /\ \A j, k \in 1 .. Len(f) : f[j] = f[k] => j = k
    /\ \A i, j \in Index : Writes(r, i) /\ Writes(r, j) /\ Prd(r, i) = Prd(r, j) => i = j
    /\ \A a, b \in Register : h[a] = h[b] => a = b
    /\ \A k \in 1 .. Len(f) : \A i \in Index : Writes(r, i) => f[k] # Prd(r, i)
    /\ \A k \in 1 .. Len(f) : \A a \in Register : f[k] # h[a]
    /\ \A i \in Index : Writes(r, i) => \A a \in Register : Prd(r, i) # h[a]
    /\ \A p \in Physical : \/ \E k \in 1 .. Len(f) : f[k] = p
                           \/ \E i \in Index : Writes(r, i) /\ Prd(r, i) = p
                           \/ \E a \in Register : h[a] = p

(* A destination is ready when its instruction has executed. *)
Computed(h, r, file) ==
    /\ \A i \in Index : Writes(r, i) => (file[Prd(r, i)].ready <=> ~Pending(r, i))
    /\ \A a \in Register : file[h[a]].ready

Mapped(m, r, map, f, file) ==
    /\ History(m, r)
    /\ map = m[r.count]
    /\ Partitioned(m[0], r, f)
    /\ Computed(m[0], r, file)

(* An operand that is not ready has an older instruction to wait for. *)
Awaited(o, r, n) ==
    ~o.ready => \E j \in Index : /\ Writes(r, j) /\ Pending(r, j)
                                 /\ Position(r, j) < n /\ Prd(r, j) = o.reg

Supplied(q, r) ==
    \A i \in IQSlot : q[i].valid => /\ Awaited(q[i].op1, r, Position(r, q[i].rob))
                                    /\ Awaited(q[i].op2, r, Position(r, q[i].rob))

RenamingOK == /\ \E m : Mapped(m, rob, rat, freeList, prf)
              /\ Supplied(iq, rob)

LEMMA RingPositions ==
    ASSUME NEW r, Ring(r)
    PROVE  /\ r.count \in Nat /\ r.count <= Capacity
           /\ \A i \in Index : Position(r, i) \in Nat /\ (InWindow(r, i) <=> Position(r, i) < r.count)
           /\ \A i, j \in Index : Position(r, i) = Position(r, j) => i = j
           /\ \A k \in 0 .. r.count - 1 : \E i \in Index : InWindow(r, i) /\ Position(r, i) = k
<1>1. /\ r.head \in Index /\ r.count \in 0 .. Capacity /\ Capacity \in Nat \ {0}
  BY CapacityAssumption DEF Ring, InOrder
<1>2. \A i \in Index : Position(r, i) \in Nat /\ (InWindow(r, i) <=> Position(r, i) < r.count)
  BY <1>1, PositionValue DEF Index, InWindow
<1>3. \A i, j \in Index : Position(r, i) = Position(r, j) => i = j
  BY <1>1, SlotAtPosition
<1>4. ASSUME NEW k \in 0 .. r.count - 1
      PROVE  \E i \in Index : InWindow(r, i) /\ Position(r, i) = k
  <2>1. k + 1 \in 1 .. Capacity /\ k < r.count /\ (k + 1) - 1 = k
    BY <1>1
  <2>2. SlotAt(r, k + 1) \in Index /\ Position(r, SlotAt(r, k + 1)) = k
    BY <1>1, <2>1, SlotAtValue
  <2> QED
    BY <1>2, <2>1, <2>2
<1> QED
  BY <1>1, <1>2, <1>3, <1>4

(* Every mapping of the history comes from the youngest writer before it,   *)
(* and from the committed mapping when there is none.                       *)
MapsTo(m, r, k, a) ==
    \/ /\ m[k][a] = m[0][a]
       /\ \A i \in Index : Writes(r, i) /\ Rd(r, i) = a => k <= Position(r, i)
    \/ \E i \in Index : /\ Writes(r, i) /\ Rd(r, i) = a
                        /\ Position(r, i) < k /\ m[k][a] = Prd(r, i)
                        /\ \A j \in Index : Writes(r, j) /\ Rd(r, j) = a /\ Position(r, j) < k =>
                              Position(r, j) <= Position(r, i)

LEMMA YoungestWriter ==
    ASSUME NEW r, Ring(r), NEW m, History(m, r), NEW a \in Register
    PROVE  \A k \in 0 .. r.count : MapsTo(m, r, k, a)
<1>1. /\ r.count \in Nat
      /\ \A i \in Index : Position(r, i) \in Nat /\ (InWindow(r, i) <=> Position(r, i) < r.count)
      /\ \A i, j \in Index : Position(r, i) = Position(r, j) => i = j
      /\ \A k \in 0 .. r.count - 1 : \E i \in Index : InWindow(r, i) /\ Position(r, i) = k
  BY RingPositions
<1> DEFINE F == {k \in 0 .. r.count : ~MapsTo(m, r, k, a)}
<1>2. SUFFICES ASSUME F # {} PROVE FALSE
  OBVIOUS
<1>3. PICK k \in F : \A j \in F : k <= j
  <2>1. F \subseteq Nat
    BY <1>1
  <2> HIDE DEF F
  <2> QED
    BY <1>2, <2>1, LeastNat
<1>4. k \in 0 .. r.count /\ ~MapsTo(m, r, k, a)
  OBVIOUS
<1>5. k # 0
  <2>1. MapsTo(m, r, 0, a)
    BY <1>1 DEF MapsTo, Writes
  <2> QED
    BY <1>4, <2>1
<1> DEFINE n == k - 1
<1>6. n \in 0 .. r.count - 1 /\ n \in 0 .. r.count /\ k = n + 1 /\ n \in Nat
  BY <1>1, <1>4, <1>5
<1>7. MapsTo(m, r, n, a)
  BY <1>1, <1>3, <1>6
<1> HIDE DEF n, F
<1>8. PICK i \in Index : InWindow(r, i) /\ Position(r, i) = n
  BY <1>1, <1>6
<1>9. Renames(m[n], m[k], r.slot[i].data) /\ m[n] \in [Register -> Physical]
  BY <1>6, <1>8 DEF History
<1>10. \A j \in Index : Writes(r, j) /\ Position(r, j) < k => Position(r, j) < n \/ j = i
  BY <1>1, <1>6, <1>8
<1>11. CASE Writes(r, i) /\ Rd(r, i) = a
  <2>1. m[k][a] = Prd(r, i)
    BY <1>9, <1>11 DEF Renames, Writes, Rd, Prd
  <2>2. \A j \in Index : Writes(r, j) /\ Rd(r, j) = a /\ Position(r, j) < k =>
           Position(r, j) <= Position(r, i)
    BY <1>1, <1>6, <1>8
  <2>3. Position(r, i) < k
    BY <1>6, <1>8
  <2>4. MapsTo(m, r, k, a)
    BY <1>11, <2>1, <2>2, <2>3 DEF MapsTo
  <2> QED
    BY <1>4, <2>4
<1>12. CASE ~(Writes(r, i) /\ Rd(r, i) = a)
  <2>1. m[k][a] = m[n][a]
    BY <1>8, <1>9, <1>12 DEF Renames, Writes, Rd
  <2>2. CASE /\ m[n][a] = m[0][a]
             /\ \A j \in Index : Writes(r, j) /\ Rd(r, j) = a => n <= Position(r, j)
    <3>1. \A j \in Index : Writes(r, j) /\ Rd(r, j) = a => k <= Position(r, j)
      <4> SUFFICES ASSUME NEW j \in Index, Writes(r, j), Rd(r, j) = a
                   PROVE  k <= Position(r, j)
        OBVIOUS
      <4>1. n <= Position(r, j) /\ Position(r, j) \in Nat /\ j # i
        BY <1>1, <1>12, <2>2
      <4>2. Position(r, j) # n
        BY <1>1, <1>8, <4>1
      <4> QED
        BY <1>6, <4>1, <4>2
    <3>2. MapsTo(m, r, k, a)
      BY <2>1, <2>2, <3>1 DEF MapsTo
    <3> QED
      BY <1>4, <3>2
  <2>3. ASSUME NEW w \in Index, Writes(r, w), Rd(r, w) = a, Position(r, w) < n,
               m[n][a] = Prd(r, w),
               \A j \in Index : Writes(r, j) /\ Rd(r, j) = a /\ Position(r, j) < n =>
                  Position(r, j) <= Position(r, w)
        PROVE  FALSE
    <3>1. \A j \in Index : Writes(r, j) /\ Rd(r, j) = a /\ Position(r, j) < k =>
             Position(r, j) <= Position(r, w)
      BY <1>10, <1>12, <2>3
    <3>2. Position(r, w) < k
      BY <1>1, <1>6, <2>3
    <3>3. MapsTo(m, r, k, a)
      BY <2>1, <2>3, <3>1, <3>2 DEF MapsTo
    <3> QED
      BY <1>4, <3>3
  <2> QED
    BY <1>7, <2>2, <2>3 DEF MapsTo
<1> QED
  BY <1>11, <1>12

(* A mapped register is not free, and one whose result is still to come has *)
(* its producer among the instructions the mapping is from.                 *)
LEMMA MappedRegister ==
    ASSUME NEW r, Ring(r), NEW m, NEW map, NEW f, NEW file, Mapped(m, r, map, f, file),
           NEW k \in 0 .. r.count, NEW a \in Register
    PROVE  /\ \A n \in 1 .. Len(f) : f[n] # m[k][a]
           /\ ~file[m[k][a]].ready => \E j \in Index : /\ Writes(r, j) /\ Pending(r, j)
                                                       /\ Position(r, j) < k
                                                       /\ Prd(r, j) = m[k][a]
<1>1. MapsTo(m, r, k, a)
  BY YoungestWriter DEF Mapped
<1>2. CASE m[k][a] = m[0][a]
  BY <1>2 DEF Mapped, Partitioned, Computed
<1>3. ASSUME NEW i \in Index, Writes(r, i), Position(r, i) < k, m[k][a] = Prd(r, i)
      PROVE  /\ \A n \in 1 .. Len(f) : f[n] # m[k][a]
             /\ ~file[m[k][a]].ready => \E j \in Index : /\ Writes(r, j) /\ Pending(r, j)
                                                         /\ Position(r, j) < k
                                                         /\ Prd(r, j) = m[k][a]
  BY <1>3 DEF Mapped, Partitioned, Computed
<1> QED
  BY <1>1, <1>2, <1>3 DEF MapsTo

LEMMA WaitersFollow ==
    ASSUME MachineOK, RenamingOK
    PROVE  WaitersHaveProducers
<1> SUFFICES ASSUME NEW i \in IQSlot, iq[i].valid, NEW o \in {iq[i].op1, iq[i].op2}, ~o.ready
             PROVE  \E r \in Index : /\ InFlight(r) /\ Older(r, iq[i].rob)
                                     /\ ~rob.slot[r].completed
                                     /\ WritesRegister(Data(r).ins)
                                     /\ Data(r).prd = o.reg
  BY DEF WaitersHaveProducers
<1>1. Awaited(o, rob, Position(rob, iq[i].rob))
  BY DEF RenamingOK, Supplied
<1> QED
  BY <1>1 DEF Awaited, Writes, Pending, Prd, InFlight, Older, Data

LEMMA RatFollows ==
    ASSUME MachineOK, RenamingOK
    PROVE  RatFollowsWindow
<1>1. PICK m : Mapped(m, rob, rat, freeList, prf)
  BY DEF RenamingOK
<1>2. History(m, rob) /\ rat = m[rob.count] /\ Ring(rob)
  BY <1>1 DEF Mapped, MachineOK
<1>3. /\ rob.count \in Nat
      /\ \A i \in Index : Position(rob, i) \in Nat
                          /\ (InWindow(rob, i) <=> Position(rob, i) < rob.count)
      /\ \A i, j \in Index : Position(rob, i) = Position(rob, j) => i = j
  BY <1>2, RingPositions
<1> SUFFICES ASSUME NEW a \in Register, NEW r \in WritersOf(a)
             PROVE  LET later == {s \in WritersOf(a) : Older(r, s)}
                    IN  /\ later = {} => rat[a] = Data(r).prd
                        /\ \A s \in later : (\A t \in later : ~Older(t, s)) =>
                              Data(s).old = Data(r).prd
  BY DEF RatFollowsWindow
<1> DEFINE W == WritersOf(a)
<1>4. \A s \in Index : s \in W <=> Writes(rob, s) /\ Rd(rob, s) = a
  BY DEF WritersOf, Writers, Writes, Rd, Data, InFlight
<1>5. W \subseteq Index /\ \A s \in W : InWindow(rob, s)
  BY DEF WritersOf, Writers, InFlight
<1>6. \A k \in 0 .. rob.count : MapsTo(m, rob, k, a)
  BY <1>2, YoungestWriter
<1> HIDE DEF W
<1>7. ASSUME NEW k \in 0 .. rob.count, Position(rob, r) < k,
             \A t \in W : Position(rob, r) < Position(rob, t) => k <= Position(rob, t)
      PROVE  m[k][a] = Data(r).prd
  <2>1. r \in W /\ r \in Index
    BY <1>5 DEF W
  <2>2. PICK i \in Index : /\ Writes(rob, i) /\ Rd(rob, i) = a
                           /\ Position(rob, i) < k /\ m[k][a] = Prd(rob, i)
                           /\ \A j \in Index : Writes(rob, j) /\ Rd(rob, j) = a
                                               /\ Position(rob, j) < k =>
                                 Position(rob, j) <= Position(rob, i)
    <3>1. ~(k <= Position(rob, r))
      BY <1>3, <1>7, <2>1
    <3> QED
      BY <1>4, <1>6, <2>1, <3>1 DEF MapsTo
  <2>3. Position(rob, r) <= Position(rob, i) /\ i \in W
    BY <1>4, <1>7, <2>1, <2>2
  <2>4. ~(Position(rob, r) < Position(rob, i))
    BY <1>3, <1>7, <2>2, <2>3
  <2>5. r = i
    BY <1>3, <2>1, <2>3, <2>4
  <2> QED
    BY <2>2, <2>5 DEF Data, Prd
<1>8. ASSUME {s \in W : Older(r, s)} = {}
      PROVE  rat[a] = Data(r).prd
  <2>1. \A t \in W : ~(Position(rob, r) < Position(rob, t))
    BY <1>8 DEF Older
  <2>2. Position(rob, r) < rob.count
    BY <1>3, <1>5 DEF W
  <2>3. m[rob.count][a] = Data(r).prd
    BY <1>3, <1>7, <2>1, <2>2
  <2> QED
    BY <1>2, <2>3
<1>9. ASSUME NEW s \in W, Older(r, s), \A t \in {u \in W : Older(r, u)} : ~Older(t, s)
      PROVE  Data(s).old = Data(r).prd
  <2> DEFINE k == Position(rob, s)
  <2>1. s \in Index /\ k \in 0 .. rob.count /\ InWindow(rob, s)
    BY <1>3, <1>5
  <2>2. \A t \in W : Position(rob, r) < Position(rob, t) => k <= Position(rob, t)
    BY <1>3, <1>5, <1>9, <2>1 DEF Older
  <2>3. Position(rob, r) < k
    BY <1>9 DEF Older
  <2> HIDE DEF k
  <2>4. m[k][a] = Data(r).prd
    BY <1>7, <2>1, <2>2, <2>3
  <2>5. Renames(m[k], m[k + 1], rob.slot[s].data)
    BY <1>2, <2>1 DEF History, k
  <2>6. Writes(rob, s) /\ Rd(rob, s) = a
    BY <1>4, <2>1
  <2> QED
    BY <2>4, <2>5, <2>6 DEF Renames, Writes, Rd, Data
<1> QED
  BY <1>8, <1>9 DEF W

(* What CommittedMapping finds is what the history starts from. *)
LEMMA CommittedIsFirst ==
    ASSUME Ring(rob), NEW m, History(m, rob), rat = m[rob.count], NEW a \in Register
    PROVE  CommittedMapping(a) = m[0][a]
<1> DEFINE W == WritersOf(a)
<1>1. /\ rob.count \in Nat
      /\ \A i \in Index : Position(rob, i) \in Nat
                          /\ (InWindow(rob, i) <=> Position(rob, i) < rob.count)
  BY RingPositions
<1>2. \A s \in Index : s \in W <=> Writes(rob, s) /\ Rd(rob, s) = a
  BY DEF WritersOf, Writers, Writes, Rd, Data, InFlight
<1>3. W \subseteq Index /\ \A s \in W : InWindow(rob, s)
  BY DEF WritersOf, Writers, InFlight
<1>4. CommittedMapping(a) = IF W = {} THEN rat[a]
                            ELSE Data(CHOOSE r \in W : \A s \in W : ~Older(s, r)).old
  BY DEF CommittedMapping
<1>5. \A k \in 0 .. rob.count : MapsTo(m, rob, k, a)
  BY YoungestWriter
<1> HIDE DEF W
<1>6. CASE W = {}
  <2>1. m[rob.count][a] = m[0][a]
    BY <1>1, <1>2, <1>5, <1>6 DEF MapsTo
  <2> QED
    BY <1>4, <1>6, <2>1
<1>7. CASE W # {}
  <2> DEFINE P == {Position(rob, s) : s \in W}
  <2>1. PICK p \in P : \A n \in P : p <= n
    <3>1. P \subseteq Nat /\ P # {}
      BY <1>1, <1>3, <1>7
    <3> HIDE DEF P
    <3> QED
      BY <3>1, LeastNat
  <2>2. \E r \in W : \A s \in W : ~Older(s, r)
    <3>1. PICK r \in W : p = Position(rob, r)
      OBVIOUS
    <3>2. \A s \in W : p <= Position(rob, s)
      BY <2>1
    <3> HIDE DEF P
    <3>3. \A s \in W : ~(Position(rob, s) < Position(rob, r))
      BY <1>1, <1>3, <3>1, <3>2
    <3> QED
      BY <3>3 DEF Older
  <2> HIDE DEF P
  <2> DEFINE r == CHOOSE x \in W : \A s \in W : ~Older(s, x)
  <2>3. r \in W /\ \A s \in W : ~Older(s, r)
    BY <2>2
  <2>4. CommittedMapping(a) = Data(r).old
    BY <1>4, <1>7
  <2> HIDE DEF r
  <2> DEFINE k == Position(rob, r)
  <2>5. r \in Index /\ k \in 0 .. rob.count /\ InWindow(rob, r) /\ k \in Nat
    BY <1>1, <1>3, <2>3
  <2>6. \A i \in Index : Writes(rob, i) /\ Rd(rob, i) = a => ~(Position(rob, i) < k)
    BY <1>2, <2>3 DEF Older
  <2>7. Renames(m[k], m[k + 1], rob.slot[r].data)
    BY <2>5 DEF History
  <2>8. Writes(rob, r) /\ Rd(rob, r) = a
    BY <1>2, <2>3, <2>5
  <2> HIDE DEF k
  <2>9. m[k][a] = m[0][a]
    BY <1>5, <2>5, <2>6 DEF MapsTo
  <2> QED
    BY <2>4, <2>7, <2>8, <2>9 DEF Renames, Writes, Rd, Data
<1> QED
  BY <1>6, <1>7

LEMMA PartitionFollows ==
    ASSUME MachineOK, RenamingOK
    PROVE  RegistersPartitioned
<1>1. PICK m : Mapped(m, rob, rat, freeList, prf)
  BY DEF RenamingOK
<1> DEFINE h == m[0]
           L == Len(freeList)
<1>2. Partitioned(h, rob, freeList) /\ DOMAIN freeList = 1 .. L
  BY <1>1 DEF Mapped, MachineOK
<1>3. \A a \in Register : CommittedMapping(a) = h[a]
  BY <1>1, CommittedIsFirst DEF Mapped, MachineOK
<1> HIDE DEF h, L
<1>4. \A p : Owners(p) =      {<<"free", k>> : k \in {n \in 1 .. L : freeList[n] = p}}
                         \cup {<<"destination", r>> : r \in {w \in Index : Writes(rob, w) /\ Prd(rob, w) = p}}
                         \cup {<<"committed", a>> : a \in {b \in Register : h[b] = p}}
  <2> TAKE p
  <2>1. {w \in Writers : Data(w).prd = p} = {w \in Index : Writes(rob, w) /\ Prd(rob, w) = p}
    BY DEF Writers, Writes, Prd, Data, InFlight
  <2>2. {b \in Register : CommittedMapping(b) = p} = {b \in Register : h[b] = p}
    BY <1>3
  <2> QED
    BY <1>2, <2>1, <2>2 DEF Owners
<1> SUFFICES ASSUME NEW p \in Physical PROVE \E owner \in Owners(p) : Owners(p) = {owner}
  BY DEF RegistersPartitioned
<1> DEFINE F == {n \in 1 .. L : freeList[n] = p}
           W == {w \in Index : Writes(rob, w) /\ Prd(rob, w) = p}
           C == {b \in Register : h[b] = p}
<1>5. /\ \A x, y \in F : x = y
      /\ \A x, y \in W : x = y
      /\ \A x, y \in C : x = y
      /\ F = {} \/ W = {}
      /\ F = {} \/ C = {}
      /\ W = {} \/ C = {}
      /\ F # {} \/ W # {} \/ C # {}
  BY <1>2 DEF Partitioned, L
<1>6. Owners(p) = {<<"free", k>> : k \in F} \cup {<<"destination", r>> : r \in W}
                  \cup {<<"committed", a>> : a \in C}
  BY <1>4
<1> HIDE DEF F, W, C
<1>7. CASE F # {}
  <2>1. PICK k : F = {k}
    BY <1>5, <1>7
  <2>2. Owners(p) = {<<"free", k>>}
    BY <1>5, <1>6, <2>1
  <2> QED
    BY <2>2
<1>8. CASE W # {}
  <2>1. PICK r : W = {r}
    BY <1>5, <1>8
  <2>2. Owners(p) = {<<"destination", r>>}
    BY <1>5, <1>6, <2>1
  <2> QED
    BY <2>2
<1>9. CASE C # {}
  <2>1. PICK a : C = {a}
    BY <1>5, <1>9
  <2>2. Owners(p) = {<<"committed", a>>}
    BY <1>5, <1>6, <2>1
  <2> QED
    BY <2>2
<1> QED
  BY <1>5, <1>7, <1>8, <1>9

(* With nothing in flight the free registers and the committed mapping      *)
(* count all of the physical registers.                                     *)
LEMMA NothingLeaks ==
    ASSUME MachineOK, RenamingOK
    PROVE  NoRegisterLeaked
<1> SUFFICES ASSUME rob.count = 0 PROVE Len(freeList) = PRFCount - NumRegisters
  BY DEF NoRegisterLeaked
<1>1. PICK m : Mapped(m, rob, rat, freeList, prf)
  BY DEF RenamingOK
<1> DEFINE h == m[0]
           f == freeList
           L == Len(f)
           N == L + NumRegisters
           g == [n \in 1 .. N |-> IF n <= L THEN f[n] ELSE h[n - L - 1]]
<1>2. Partitioned(h, rob, f) /\ Ring(rob) /\ History(m, rob)
  BY <1>1 DEF Mapped, MachineOK
<1>3. \A i \in Index : ~Writes(rob, i)
  BY <1>2, RingPositions DEF Writes
<1>4. h \in [Register -> Physical]
  BY <1>2 DEF History
<1>5. L \in Nat /\ NumRegisters \in Nat /\ N \in Nat /\ f \in [1 .. L -> Physical]
  <2>1. f \in Seq(Physical)
    BY DEF MachineOK
  <2>2. NumRegisters \in Nat
    BY SizeAssumption
  <2> QED
    BY <2>1, <2>2
<1> HIDE DEF h, f
<1>6. \A n \in 1 .. N : n > L => n - L - 1 \in Register
  BY <1>5 DEF Register
<1>7. \A n \in 1 .. N : n <= L => n \in 1 .. L
  BY <1>5
<1> HIDE DEF L
<1>8. \A n \in 1 .. N : n <= L \/ n > L
  BY <1>5
<1>9. g \in [1 .. N -> Physical]
  <2>1. \A n \in 1 .. N : g[n] \in Physical
    BY <1>4, <1>5, <1>6, <1>7, <1>8
  <2> QED
    BY <2>1
<1>10. g \in Injection(1 .. N, Physical)
  <2> SUFFICES ASSUME NEW j \in 1 .. N, NEW k \in 1 .. N, g[j] = g[k] PROVE j = k
    BY <1>9 DEF Injection, IsInjective
  <2>0. j \in Int /\ k \in Int /\ L \in Int
    BY <1>5
  <2>1. CASE j <= L /\ k <= L
    BY <1>2, <1>7, <2>1 DEF Partitioned, L
  <2>2. CASE j <= L /\ ~(k <= L)
    <3>1. g[j] = f[j] /\ g[k] = h[k - L - 1] /\ j \in 1 .. L /\ k - L - 1 \in Register
      BY <1>6, <1>7, <1>8, <2>2
    <3> QED
      BY <1>2, <3>1 DEF Partitioned, L
  <2>3. CASE ~(j <= L) /\ k <= L
    <3>1. g[k] = f[k] /\ g[j] = h[j - L - 1] /\ k \in 1 .. L /\ j - L - 1 \in Register
      BY <1>6, <1>7, <1>8, <2>3
    <3> QED
      BY <1>2, <3>1 DEF Partitioned, L
  <2>4. CASE ~(j <= L) /\ ~(k <= L)
    <3>1. /\ g[j] = h[j - L - 1] /\ g[k] = h[k - L - 1]
          /\ j - L - 1 \in Register /\ k - L - 1 \in Register
      BY <1>6, <1>8, <2>4
    <3>2. j - L - 1 = k - L - 1
      BY <1>2, <3>1 DEF Partitioned
    <3> HIDE DEF g, N
    <3> QED
      BY <2>0, <3>2
  <2> QED
    BY <2>1, <2>2, <2>3, <2>4
<1>11. g \in Surjection(1 .. N, Physical)
  <2> SUFFICES ASSUME NEW p \in Physical PROVE \E n \in 1 .. N : g[n] = p
    BY <1>9 DEF Surjection
  <2>1. (\E k \in 1 .. L : f[k] = p) \/ (\E a \in Register : h[a] = p)
    BY <1>2, <1>3 DEF Partitioned, L
  <2>2. ASSUME NEW k \in 1 .. L, f[k] = p PROVE \E n \in 1 .. N : g[n] = p
    <3>1. k \in 1 .. N /\ k <= L
      BY <1>5
    <3> QED
      BY <2>2, <3>1
  <2>3. ASSUME NEW a \in Register, h[a] = p PROVE \E n \in 1 .. N : g[n] = p
    <3>1. a + L + 1 \in 1 .. N /\ ~(a + L + 1 <= L) /\ (a + L + 1) - L - 1 = a
      BY <1>5 DEF Register
    <3>2. g[a + L + 1] = h[a]
      BY <3>1
    <3> QED
      BY <2>3, <3>1, <3>2
  <2> QED
    BY <2>1, <2>2, <2>3
<1> HIDE DEF g, N
<1>12. ExistsBijection(1 .. N, Physical)
  BY <1>10, <1>11 DEF ExistsBijection, Bijection
<1>13. IsFiniteSet(1 .. N) /\ Cardinality(1 .. N) = N
  <2>1. N \in Nat
    BY <1>5 DEF N
  <2> QED
    BY <2>1, IntervalSize, Zenon
<1>14. Cardinality(Physical) = N
  BY <1>12, <1>13, FS_Bijection
<1>15. Cardinality(Physical) = PRFCount
  <2>1. PRFCount \in Nat
    BY SizeAssumption
  <2>2. Cardinality(0 .. PRFCount - 1) = IF 0 > PRFCount - 1 THEN 0 ELSE PRFCount - 1 - 0 + 1
    BY <2>1, FS_Interval
  <2> QED
    BY <2>1, <2>2 DEF Physical
<1> QED
  BY <1>5, <1>14, <1>15 DEF N, L, f

(* The members of a partition are physical registers. *)
LEMMA MappedTyped ==
    ASSUME NEW r, Ring(r), NEW m, History(m, r)
    PROVE  /\ \A i \in Index : Writes(r, i) => Prd(r, i) \in Physical /\ Rd(r, i) \in Register
           /\ \A k \in 0 .. r.count : m[k] \in [Register -> Physical]
           /\ m[0] \in [Register -> Physical]
<1>1. \A i \in Index : Writes(r, i) => Prd(r, i) \in Physical /\ Rd(r, i) \in Register
  BY DEF Ring, DataOK, Writes, Prd, Rd, Instruction
<1>2. \A k \in 0 .. r.count : m[k] \in [Register -> Physical]
  BY DEF History
<1>3. 0 \in 0 .. r.count
  BY RingPositions
<1> QED
  BY <1>1, <1>2, <1>3

(* An instruction executes: its destination, if any, becomes ready. *)
LEMMA MappedCompletes ==
    ASSUME NEW r, Ring(r), NEW i \in Index, InWindow(r, i),
           NEW m, NEW map, NEW f, NEW file, Mapped(m, r, map, f, file),
           NEW filled,
           \A p \in Physical : filled[p].ready <=> file[p].ready \/ (Writes(r, i) /\ p = Prd(r, i))
    PROVE  Mapped(m, Complete(r, i), map, f, filled)
<1> DEFINE s == Complete(r, i)
<1>1. /\ s.count = r.count
      /\ \A j \in Index : /\ Position(s, j) = Position(r, j)
                          /\ InWindow(s, j) <=> InWindow(r, j)
                          /\ s.slot[j].data = r.slot[j].data
                          /\ Pending(s, j) <=> Pending(r, j) /\ j # i
  BY CompleteRing
<1> HIDE DEF s
<1>2. \A j \in Index : /\ Writes(s, j) <=> Writes(r, j)
                       /\ Prd(s, j) = Prd(r, j)
  BY <1>1 DEF Writes, Prd
<1>3. History(m, r) /\ map = m[r.count] /\ Partitioned(m[0], r, f) /\ Computed(m[0], r, file)
  BY DEF Mapped
<1>4. History(m, s)
  BY <1>1, <1>3 DEF History
<1>5. Partitioned(m[0], s, f)
  BY <1>2, <1>3 DEF Partitioned
<1>6. Computed(m[0], s, filled)
  <2>1. \A j \in Index : Writes(r, j) => Prd(r, j) \in Physical
    BY <1>3, MappedTyped
  <2>2. \A a \in Register : m[0][a] \in Physical
    BY <1>3, MappedTyped
  <2>3. \A j \in Index : Writes(r, i) /\ Writes(r, j) /\ Prd(r, j) = Prd(r, i) => j = i
    BY <1>3 DEF Partitioned
  <2>4. \A j \in Index : Writes(s, j) => (filled[Prd(s, j)].ready <=> ~Pending(s, j))
    <3> SUFFICES ASSUME NEW j \in Index, Writes(s, j)
                 PROVE  filled[Prd(s, j)].ready <=> ~Pending(s, j)
      OBVIOUS
    <3>1. Writes(r, j) /\ Prd(s, j) = Prd(r, j) /\ Prd(r, j) \in Physical
      BY <1>2, <2>1
    <3>2. file[Prd(r, j)].ready <=> ~Pending(r, j)
      BY <1>3, <3>1 DEF Computed
    <3>3. filled[Prd(r, j)].ready <=> file[Prd(r, j)].ready \/ (Writes(r, i) /\ Prd(r, j) = Prd(r, i))
      BY <3>1
    <3>4. Pending(s, j) <=> Pending(r, j) /\ j # i
      BY <1>1
    <3> QED
      BY <2>3, <3>1, <3>2, <3>3, <3>4
  <2>5. \A a \in Register : filled[m[0][a]].ready
    BY <1>3, <2>2 DEF Computed
  <2> QED
    BY <2>4, <2>5 DEF Computed
<1>7. Mapped(m, s, map, f, filled)
  BY <1>1, <1>3, <1>4, <1>5, <1>6 DEF Mapped
<1> QED
  BY <1>7 DEF s

(* and whoever has waited for it has got its result. *)
LEMMA SuppliedCompletes ==
    ASSUME NEW r, Ring(r), NEW i \in Index, InWindow(r, i),
           NEW q, Linked(q, r), Supplied(q, r), NEW t,
           \A k \in IQSlot : t[k].valid =>
              /\ q[k].valid /\ t[k].rob = q[k].rob
              /\ ~t[k].op1.ready => /\ ~q[k].op1.ready /\ t[k].op1.reg = q[k].op1.reg
                                    /\ Writes(r, i) => t[k].op1.reg # Prd(r, i)
              /\ ~t[k].op2.ready => /\ ~q[k].op2.ready /\ t[k].op2.reg = q[k].op2.reg
                                    /\ Writes(r, i) => t[k].op2.reg # Prd(r, i)
    PROVE  Supplied(t, Complete(r, i))
<1> DEFINE s == Complete(r, i)
<1>1. \A j \in Index : /\ Position(s, j) = Position(r, j)
                       /\ InWindow(s, j) <=> InWindow(r, j)
                       /\ s.slot[j].data = r.slot[j].data
                       /\ Pending(s, j) <=> Pending(r, j) /\ j # i
  BY CompleteRing
<1> HIDE DEF s
<1>2. \A j \in Index : /\ Writes(s, j) <=> Writes(r, j)
                       /\ Prd(s, j) = Prd(r, j)
  BY <1>1 DEF Writes, Prd
<1>3. \A o, n : Awaited(o, r, n) /\ (Writes(r, i) => o.reg # Prd(r, i)) => Awaited(o, s, n)
  BY <1>1, <1>2 DEF Awaited
<1>4. ASSUME NEW k \in IQSlot, t[k].valid
      PROVE  /\ Awaited(t[k].op1, s, Position(s, t[k].rob))
             /\ Awaited(t[k].op2, s, Position(s, t[k].rob))
  <2>1. q[k].valid /\ t[k].rob = q[k].rob /\ q[k].rob \in Index
    BY <1>4, ValidEntry
  <2>2. Position(s, t[k].rob) = Position(r, q[k].rob)
    BY <1>1, <2>1
  <2>3. /\ Awaited(q[k].op1, r, Position(r, q[k].rob))
        /\ Awaited(q[k].op2, r, Position(r, q[k].rob))
    BY <2>1 DEF Supplied
  <2>4. /\ ~t[k].op1.ready => Awaited(t[k].op1, r, Position(r, q[k].rob))
        /\ ~t[k].op2.ready => Awaited(t[k].op2, r, Position(r, q[k].rob))
    BY <1>4, <2>3 DEF Awaited
  <2>5. /\ ~t[k].op1.ready => Awaited(t[k].op1, s, Position(r, q[k].rob))
        /\ ~t[k].op2.ready => Awaited(t[k].op2, s, Position(r, q[k].rob))
    BY <1>3, <1>4, <2>4
  <2> QED
    BY <2>2, <2>5 DEF Awaited
<1>5. Supplied(t, s)
  BY <1>4 DEF Supplied
<1> QED
  BY <1>5 DEF s

(* The head retires: what it has written is committed, and what that has    *)
(* replaced is free.                                                        *)
LEMMA MappedCommits ==
    ASSUME NEW r, Ring(r), CanCommit(r),
           NEW m, NEW map, NEW f \in Seq(Physical), NEW file, Mapped(m, r, map, f, file),
           NEW d, d = r.slot[r.head].data
    PROVE  Mapped([k \in 0 .. r.count - 1 |-> m[k + 1]], Commit(r), map,
                  IF WritesRegister(d.ins) THEN Append(f, d.old) ELSE f, file)
<1> DEFINE s == Commit(r)
           c == r.head
           n == [k \in 0 .. r.count - 1 |-> m[k + 1]]
           g == IF WritesRegister(d.ins) THEN Append(f, d.old) ELSE f
<1>1. /\ Ring(s) /\ s.count = r.count - 1 /\ c \in Index
      /\ InWindow(r, c) /\ Position(r, c) = 0
      /\ \A j \in Index : /\ InWindow(s, j) <=> InWindow(r, j) /\ j # c
                          /\ j # c => /\ Position(s, j) = Position(r, j) - 1
                                      /\ s.slot[j] = r.slot[j]
                          /\ Pending(s, j) <=> Pending(r, j)
  BY CommitRing
<1>2. ~Pending(r, c)
  BY DEF CanCommit, Pending
<1> HIDE DEF s, c
<1>3. /\ r.count \in Nat
      /\ \A i \in Index : Position(r, i) \in Nat /\ (InWindow(r, i) <=> Position(r, i) < r.count)
      /\ \A i, j \in Index : Position(r, i) = Position(r, j) => i = j
  BY RingPositions
<1>4. r.count > 0
  BY <1>1, <1>3
<1>5. History(m, r) /\ map = m[r.count] /\ Partitioned(m[0], r, f) /\ Computed(m[0], r, file)
  BY DEF Mapped
<1>6. \A k \in 0 .. r.count - 1 : n[k] = m[k + 1] /\ m[k + 1] \in [Register -> Physical]
  <2>1. \A k \in 0 .. r.count - 1 : k + 1 \in 0 .. r.count
    BY <1>3
  <2>2. m \in [0 .. r.count -> [Register -> Physical]]
    BY <1>5 DEF History
  <2> QED
    BY <2>1, <2>2
<1>7. /\ \A j \in Index : Writes(s, j) <=> Writes(r, j) /\ j # c
      /\ \A j \in Index : j # c => Prd(s, j) = Prd(r, j)
  BY <1>1 DEF Writes, Prd
<1>8. Renames(m[0], m[1], d)
  BY <1>1, <1>5 DEF History, c
<1>9. n[0] = m[1] /\ n[s.count] = map /\ m[1] \in [Register -> Physical]
  <2>1. 0 \in 0 .. r.count - 1 /\ s.count \in 0 .. r.count - 1 /\ s.count + 1 = r.count /\ 0 + 1 = 1
    BY <1>1, <1>3, <1>4
  <2> QED
    BY <1>5, <1>6, <2>1
<1>10. History(n, s)
  <2>1. n \in [0 .. s.count -> [Register -> Physical]]
    BY <1>1, <1>6
  <2>2. ASSUME NEW i \in Index, InWindow(s, i)
        PROVE  Renames(n[Position(s, i)], n[Position(s, i) + 1], s.slot[i].data)
    <3>1. /\ InWindow(r, i) /\ i # c /\ Position(s, i) = Position(r, i) - 1
          /\ s.slot[i] = r.slot[i] /\ Position(r, i) # 0
      BY <1>1, <1>3, <2>2
    <3>2. Position(r, i) \in 1 .. r.count - 1
      BY <1>3, <3>1
    <3>3. n[Position(s, i)] = m[Position(r, i)] /\ n[Position(s, i) + 1] = m[Position(r, i) + 1]
      <4>1. /\ Position(r, i) - 1 \in 0 .. r.count - 1 /\ (Position(r, i) - 1) + 1 = Position(r, i)
            /\ Position(r, i) \in 0 .. r.count - 1
        BY <1>3, <3>2
      <4> QED
        BY <1>6, <3>1, <4>1
    <3>4. Renames(m[Position(r, i)], m[Position(r, i) + 1], r.slot[i].data)
      BY <1>5, <3>1 DEF History
    <3> QED
      BY <3>1, <3>3, <3>4
  <2> QED
    BY <2>1, <2>2 DEF History
<1> HIDE DEF n
<1>11. m[0] \in [Register -> Physical]
  BY <1>5, MappedTyped
<1>12. Partitioned(m[1], s, g) /\ Computed(m[1], s, file)
  <2>1. CASE ~WritesRegister(d.ins)
    <3>1. m[1] = m[0] /\ g = f
      BY <1>8, <2>1 DEF Renames
    <3>2. ~Writes(r, c)
      BY <2>1 DEF Writes, c
    <3>3. \A j \in Index : Writes(s, j) <=> Writes(r, j)
      BY <1>7, <3>2
    <3>4. \A j \in Index : Writes(s, j) => Prd(s, j) = Prd(r, j)
      BY <1>7
    <3> HIDE DEF g
    <3>5. Partitioned(m[0], s, f)
      BY <1>5, <3>3, <3>4 DEF Partitioned
    <3>6. Computed(m[0], s, file)
      BY <1>1, <1>5, <3>3, <3>4 DEF Computed
    <3> QED
      BY <3>1, <3>5, <3>6
  <2>2. CASE WritesRegister(d.ins)
    <3> DEFINE a == d.ins.rd
               p == d.prd
    <3>1. Writes(r, c) /\ Prd(r, c) = p /\ p \in Physical /\ a \in Register
      <4>1. d = r.slot[c].data
        BY Zenon DEF c
      <4>2. Writes(r, c) /\ Prd(r, c) = p /\ Rd(r, c) = a
        BY <1>1, <2>2, <4>1, Zenon DEF Writes, Prd, Rd
      <4>3. \A i \in Index : Writes(r, i) => Prd(r, i) \in Physical /\ Rd(r, i) \in Register
        BY <1>5, MappedTyped
      <4> QED
        BY <1>1, <4>2, <4>3, Zenon
    <3>3. /\ d.old = m[0][a] /\ m[1][a] = p
          /\ \A b \in Register : b # a => m[1][b] = m[0][b]
      BY <1>8, <1>11, <2>2, <3>1, RenamesOne
    <3>4. /\ Len(g) = Len(f) + 1 /\ Len(f) \in Nat
          /\ \A k \in 1 .. Len(f) : g[k] = f[k]
          /\ g[Len(f) + 1] = m[0][a]
      <4>1. g = Append(f, m[0][a])
        BY <2>2, <3>3, Zenon
      <4>2. m[0] \in [Register -> Physical]
        <5>1. 0 \in 0 .. r.count
          BY <1>3
        <5> QED
          BY <1>5, <5>1 DEF History
      <4>3. m[0][a] \in Physical
        BY <3>1, <4>2
      <4>4. /\ Len(Append(f, m[0][a])) = Len(f) + 1
            /\ \A k \in 1 .. Len(f) : Append(f, m[0][a])[k] = f[k]
            /\ Append(f, m[0][a])[Len(f) + 1] = m[0][a]
        BY <4>3, AppendProperties
      <4>5. Len(f) \in Nat
        OBVIOUS
      <4> QED
        BY <4>1, <4>4, <4>5, Zenon
    <3> HIDE DEF a, p, g
    <3>5. Partitioned(m[1], s, g)
      <4> DEFINE L == Len(f)
      <4>0. \A k \in 1 .. Len(g) : k \in 1 .. L \/ k = L + 1
        BY <3>4
      <4>1. \A j, k \in 1 .. Len(g) : g[j] = g[k] => j = k
        <5>1. \A k \in 1 .. L : f[k] # m[0][a]
          BY <1>5, <3>1 DEF Partitioned
        <5>2. \A j, k \in 1 .. L : f[j] = f[k] => j = k
          BY <1>5 DEF Partitioned
        <5> QED
          BY <3>4, <4>0, <5>1, <5>2
      <4>2. \A i, j \in Index : Writes(s, i) /\ Writes(s, j) /\ Prd(s, i) = Prd(s, j) => i = j
        BY <1>5, <1>7 DEF Partitioned
      <4>3. \A b, e \in Register : m[1][b] = m[1][e] => b = e
        <5>1. \A b \in Register : m[0][b] # p
          BY <1>1, <1>5, <3>1 DEF Partitioned
        <5>2. \A b, e \in Register : m[0][b] = m[0][e] => b = e
          BY <1>5 DEF Partitioned
        <5> QED
          BY <3>3, <5>1, <5>2
      <4>4. \A k \in 1 .. Len(g) : \A i \in Index : Writes(s, i) => g[k] # Prd(s, i)
        <5>1. \A i \in Index : Writes(s, i) => Writes(r, i) /\ Prd(s, i) = Prd(r, i)
          BY <1>7
        <5>2. \A k \in 1 .. L : \A i \in Index : Writes(r, i) => f[k] # Prd(r, i)
          BY <1>5 DEF Partitioned
        <5>3. \A i \in Index : Writes(r, i) => m[0][a] # Prd(r, i)
          BY <1>5, <3>1 DEF Partitioned
        <5> QED
          BY <3>4, <4>0, <5>1, <5>2, <5>3
      <4>5. \A k \in 1 .. Len(g) : \A b \in Register : g[k] # m[1][b]
        <5>1. \A k \in 1 .. L : f[k] # p /\ \A b \in Register : f[k] # m[0][b]
          BY <1>1, <1>5, <3>1 DEF Partitioned
        <5>2. m[0][a] # p /\ \A b \in Register : b # a => m[0][a] # m[0][b]
          BY <1>1, <1>5, <3>1 DEF Partitioned
        <5> QED
          BY <3>3, <3>4, <4>0, <5>1, <5>2
      <4>6. \A i \in Index : Writes(s, i) => \A b \in Register : Prd(s, i) # m[1][b]
        <5>1. \A i \in Index : Writes(s, i) => Writes(r, i) /\ Prd(s, i) = Prd(r, i) /\ i # c
          BY <1>7
        <5>2. \A i \in Index : Writes(r, i) /\ i # c => Prd(r, i) # p
          BY <1>1, <1>5, <3>1 DEF Partitioned
        <5>3. \A i \in Index : Writes(r, i) => \A b \in Register : Prd(r, i) # m[0][b]
          BY <1>5 DEF Partitioned
        <5> QED
          BY <3>3, <5>1, <5>2, <5>3
      <4>7. \A x \in Physical : \/ \E k \in 1 .. Len(g) : g[k] = x
                                \/ \E i \in Index : Writes(s, i) /\ Prd(s, i) = x
                                \/ \E b \in Register : m[1][b] = x
        <5> TAKE x \in Physical
        <5>1. CASE \E k \in 1 .. L : f[k] = x
          BY <3>4, <5>1
        <5>2. CASE \E i \in Index : Writes(r, i) /\ Prd(r, i) = x
          BY <1>1, <1>7, <3>1, <3>3, <5>2
        <5>3. CASE \E b \in Register : m[0][b] = x
          <6>1. PICK b \in Register : m[0][b] = x
            BY <5>3
          <6>2. CASE b = a
            <7>1. L + 1 \in 1 .. Len(g) /\ g[L + 1] = x
              BY <3>4, <6>1, <6>2
            <7> QED
              BY <7>1
          <6>3. CASE b # a
            BY <3>3, <6>1, <6>3
          <6> QED
            BY <6>2, <6>3
        <5> QED
          BY <1>5, <5>1, <5>2, <5>3 DEF Partitioned
      <4> QED
        BY <4>1, <4>2, <4>3, <4>4, <4>5, <4>6, <4>7 DEF Partitioned
    <3>6. Computed(m[1], s, file)
      <4>1. file[p].ready
        BY <1>1, <1>2, <1>5, <3>1 DEF Computed
      <4> QED
        BY <1>1, <1>5, <1>7, <3>3, <4>1 DEF Computed
    <3> QED
      BY <3>5, <3>6
  <2> QED
    BY <2>1, <2>2
<1>13. Mapped(n, s, map, g, file)
  BY <1>9, <1>10, <1>12 DEF Mapped
<1> QED
  BY <1>13 DEF n, s, g

LEMMA SuppliedCommits ==
    ASSUME NEW r, Ring(r), CanCommit(r), NEW q, Linked(q, r), Supplied(q, r)
    PROVE  Supplied(q, Commit(r))
<1> DEFINE s == Commit(r)
           c == r.head
<1>1. /\ c \in Index /\ InWindow(r, c) /\ Position(r, c) = 0
      /\ \A j \in Index : /\ InWindow(s, j) <=> InWindow(r, j) /\ j # c
                          /\ j # c => /\ Position(s, j) = Position(r, j) - 1
                                      /\ s.slot[j] = r.slot[j]
                          /\ Pending(s, j) <=> Pending(r, j)
  BY CommitRing
<1>2. ~Pending(r, c)
  BY DEF CanCommit, Pending
<1> HIDE DEF s, c
<1>3. \A i \in Index : Position(r, i) \in Nat
  BY RingPositions
<1>4. \A j \in Index : Writes(r, j) /\ Pending(r, j) =>
         /\ Writes(s, j) /\ Pending(s, j) /\ Prd(s, j) = Prd(r, j) /\ j # c
  BY <1>1, <1>2 DEF Writes, Prd
<1>5. ASSUME NEW x \in Index, x # c, NEW o, Awaited(o, r, Position(r, x))
      PROVE  Awaited(o, s, Position(s, x))
  <2>1. ASSUME NEW j \in Index, j # c, Position(r, j) < Position(r, x)
        PROVE  Position(s, j) < Position(s, x)
    BY <1>1, <1>3, <1>5, <2>1
  <2> QED
    BY <1>4, <1>5, <2>1 DEF Awaited
<1>6. \A k \in IQSlot : q[k].valid => q[k].rob \in Index /\ q[k].rob # c
  BY <1>2, ValidEntry DEF Linked
<1>7. Supplied(q, s)
  BY <1>5, <1>6 DEF Supplied
<1> QED
  BY <1>7 DEF s

LEMMA SubQueueFrom ==
    ASSUME NEW S, NEW q \in Seq(S), NEW P, P \subseteq DOMAIN q
    PROVE  \E f : /\ Picks(f, P)
                  /\ \A n \in 1 .. Cardinality(P) : SubQueue(q, P)[n] = q[f[n]]
<1>1. Len(q) \in Nat /\ P \subseteq 1 .. Len(q)
  OBVIOUS
<1>2. Picked(q, P)
  BY <1>1, SubQueuePicks
<1> QED
  BY <1>2, Zenon DEF Picked

(* The registers a squash frees: the destinations of the younger writers,   *)
(* each once.                                                               *)
LEMMA SquashedRegistersEntries ==
    ASSUME NEW r, Ring(r), NEW b \in Index, InWindow(r, b),
           \A i, j \in Index : Writes(r, i) /\ Writes(r, j) /\ Prd(r, i) = Prd(r, j) => i = j
    PROVE  LET w == SquashedRegisters(SquashedWriters(r, b))
           IN  /\ w \in Seq(Physical)
               /\ \A j, k \in 1 .. Len(w) : w[j] = w[k] => j = k
               /\ \A k \in 1 .. Len(w) :
                     \E i \in Younger(r, b) : Writes(r, i) /\ w[k] = Prd(r, i)
               /\ \A i \in Younger(r, b) : Writes(r, i) =>
                     \E k \in 1 .. Len(w) : w[k] = Prd(r, i)
<1> DEFINE y == YoungestFirst(r, b)
           Y == YoungerCount(r, b)
           T == {k \in DOMAIN y : WritesRegister(y[k].ins)}
           C == Cardinality(T)
           w == SquashedRegisters(SquashedWriters(r, b))
           at(k) == SlotAt(r, r.count + 1 - k)
<1>1. /\ Y \in Nat /\ DOMAIN y = 1 .. Y
      /\ \A k \in 1 .. Y : /\ at(k) \in Younger(r, b)
                           /\ Position(r, at(k)) = r.count - k
                           /\ y[k] = r.slot[at(k)].data
      /\ \A i \in Younger(r, b) : /\ r.count - Position(r, i) \in 1 .. Y
                                  /\ at(r.count - Position(r, i)) = i
  BY YoungestFirstEntries
<1>2. T \subseteq 1 .. Y
  BY <1>1
<1>3. SquashedWriters(r, b) = SubQueue(y, T)
  BY DEF SquashedWriters
<1>4. w \in Seq(Physical)
  BY SquashedTyped
<1> HIDE DEF y, Y, T, at
<1> DEFINE S == {r.slot[j].data : j \in Younger(r, b)}
<1>a. y \in Seq(S) /\ T \subseteq DOMAIN y
  <2>1. \A k \in 1 .. Y : y[k] \in S
    BY <1>1
  <2>2. y = [k \in 1 .. Y |-> y[k]]
    BY DEF YoungestFirst, y, Y
  <2> HIDE DEF S
  <2>3. y \in Seq(S)
    BY <1>1, <2>1, <2>2, IsASeq
  <2> QED
    BY <1>1, <1>2, <2>3
<1> HIDE DEF S
<1>5. PICK g : /\ Picks(g, T)
               /\ \A n \in 1 .. Cardinality(T) : SubQueue(y, T)[n] = y[g[n]]
  BY <1>a, SubQueueFrom
<1>6. C \in Nat /\ DOMAIN SubQueue(y, T) = 1 .. C
  BY <1>1, <1>2, SubQueuePicks
<1>7. Len(w) = C /\ \A n \in 1 .. C : w[n] = y[g[n]].prd
  <2>1. w = [k \in 1 .. C |-> SubQueue(y, T)[k].prd]
    BY <1>3, <1>6 DEF SquashedRegisters
  <2>2. \A n \in 1 .. C : SubQueue(y, T)[n] = y[g[n]]
    BY <1>5
  <2> HIDE DEF w, C
  <2>3. Len(w) = C
    BY <1>4, <1>6, <2>1
  <2> QED
    BY <2>1, <2>2, <2>3
<1> HIDE DEF w, C
<1>8. \A i \in Younger(r, b) : i \in Index /\ InWindow(r, i)
  BY DEF Younger
<1>9. \A n \in 1 .. C : /\ g[n] \in 1 .. Y /\ at(g[n]) \in Younger(r, b)
                        /\ Writes(r, at(g[n])) /\ w[n] = Prd(r, at(g[n]))
  <2> TAKE n \in 1 .. C
  <2>1. g[n] \in T
    BY <1>5 DEF Picks, C
  <2>2. g[n] \in 1 .. Y /\ WritesRegister(y[g[n]].ins)
    BY <1>2, <2>1 DEF T
  <2>3. at(g[n]) \in Younger(r, b) /\ y[g[n]] = r.slot[at(g[n])].data
    BY <1>1, <2>2
  <2> QED
    BY <1>7, <1>8, <2>2, <2>3 DEF Writes, Prd
<1>10. \A j, k \in 1 .. C : w[j] = w[k] => j = k
  <2> SUFFICES ASSUME NEW j \in 1 .. C, NEW k \in 1 .. C, w[j] = w[k] PROVE j = k
    OBVIOUS
  <2>1. at(g[j]) = at(g[k])
    BY <1>8, <1>9
  <2>2. r.count - g[j] = r.count - g[k]
    BY <1>1, <1>9, <2>1
  <2>3. g[j] = g[k]
    <3>1. g[j] \in Int /\ g[k] \in Int
      BY <1>1, <1>9
    <3>2. r.count \in Nat
      BY RingPositions, Zenon
    <3> QED
      BY <2>2, <3>1, <3>2
  <2>4. \A x, z \in 1 .. C : x < z => g[x] < g[z]
    BY <1>5 DEF Picks, C
  <2>5. g[j] \in Int /\ j \in Int /\ k \in Int
    BY <1>1, <1>6, <1>9
  <2>6. ~(j < k) /\ ~(k < j)
    BY <2>3, <2>4, <2>5
  <2> QED
    BY <2>5, <2>6
<1>11. \A i \in Younger(r, b) : Writes(r, i) => \E k \in 1 .. C : w[k] = Prd(r, i)
  <2> SUFFICES ASSUME NEW i \in Younger(r, b), Writes(r, i)
               PROVE  \E k \in 1 .. C : w[k] = Prd(r, i)
    OBVIOUS
  <2> DEFINE n == r.count - Position(r, i)
  <2>1. n \in 1 .. Y /\ at(n) = i
    BY <1>1
  <2> HIDE DEF n
  <2>2. y[n] = r.slot[i].data
    BY <1>1, <2>1
  <2>3. n \in T
    BY <1>1, <2>1, <2>2 DEF T, Writes
  <2>4. PICK k \in 1 .. C : g[k] = n
    BY <1>5, <2>3 DEF Picks, C
  <2>5. w[k] = Prd(r, i)
    BY <1>9, <2>1, <2>4
  <2> QED
    BY <2>5
<1> QED
  BY <1>4, <1>7, <1>9, <1>10, <1>11 DEF w

(* Recovery: the branch's checkpoint is the RAT as it was behind the branch, *)
(* and the destinations of what is younger are free again.                  *)
LEMMA MappedSquashed ==
    ASSUME NEW r, Ring(r), NEW b \in Index, InWindow(r, b), r.slot[b].data.ins.op \in BranchOps,
           NEW m, NEW map, NEW f \in Seq(Physical), NEW file, Mapped(m, r, map, f, file)
    PROVE  Mapped([k \in 0 .. Position(r, b) + 1 |-> m[k]], SquashYoungerThan(r, b),
                  r.slot[b].data.cp, SquashedRegisters(SquashedWriters(r, b)) \o f, file)
<1> DEFINE s == SquashYoungerThan(r, b)
           n == [k \in 0 .. Position(r, b) + 1 |-> m[k]]
           w == SquashedRegisters(SquashedWriters(r, b))
           g == w \o f
<1>1. /\ Ring(s) /\ s.count = Position(r, b) + 1
      /\ \A j \in Index :
            /\ Position(s, j) = Position(r, j)
            /\ InWindow(s, j) <=> InWindow(r, j) /\ Position(r, j) <= Position(r, b)
            /\ InWindow(s, j) <=> InWindow(r, j) /\ j \notin Younger(r, b)
            /\ InWindow(s, j) => s.slot[j] = r.slot[j]
            /\ Pending(s, j) <=> Pending(r, j) /\ j \notin Younger(r, b)
  BY SquashRing
<1> HIDE DEF s
<1>2. /\ r.count \in Nat
      /\ \A i \in Index : Position(r, i) \in Nat /\ (InWindow(r, i) <=> Position(r, i) < r.count)
  BY RingPositions
<1>3. History(m, r) /\ map = m[r.count] /\ Partitioned(m[0], r, f) /\ Computed(m[0], r, file)
  BY DEF Mapped
<1>4. Position(r, b) \in Nat /\ Position(r, b) + 1 <= r.count
  BY <1>2
<1>5. \A k \in 0 .. Position(r, b) + 1 : n[k] = m[k] /\ k \in 0 .. r.count
  BY <1>2, <1>4
<1>6. n[0] = m[0] /\ n[s.count] = m[Position(r, b) + 1]
  BY <1>1, <1>4
<1>7. m[Position(r, b) + 1] = r.slot[b].data.cp
  <2>1. Renames(m[Position(r, b)], m[Position(r, b) + 1], r.slot[b].data)
    BY <1>3 DEF History
  <2> QED
    BY <2>1 DEF Renames
<1>8. History(n, s)
  <2>1. n \in [0 .. s.count -> [Register -> Physical]]
    <3>1. \A k \in 0 .. r.count : m[k] \in [Register -> Physical]
      BY <1>3 DEF History
    <3> QED
      BY <1>1, <1>5, <3>1
  <2>2. ASSUME NEW i \in Index, InWindow(s, i)
        PROVE  Renames(n[Position(s, i)], n[Position(s, i) + 1], s.slot[i].data)
    <3>1. /\ InWindow(r, i) /\ Position(s, i) = Position(r, i) /\ s.slot[i] = r.slot[i]
          /\ Position(r, i) <= Position(r, b) /\ Position(r, i) \in Nat
      BY <1>1, <1>2, <2>2
    <3>2. n[Position(r, i)] = m[Position(r, i)] /\ n[Position(r, i) + 1] = m[Position(r, i) + 1]
      <4>1. /\ Position(r, i) \in 0 .. Position(r, b) + 1
            /\ Position(r, i) + 1 \in 0 .. Position(r, b) + 1
        BY <1>4, <3>1
      <4> QED
        BY <1>5, <4>1
    <3> QED
      BY <1>3, <3>1, <3>2 DEF History
  <2> QED
    BY <2>1, <2>2 DEF History
<1> HIDE DEF n
<1>9. /\ \A j \in Index : Writes(s, j) <=> Writes(r, j) /\ j \notin Younger(r, b)
      /\ \A j \in Index : Writes(s, j) => Prd(s, j) = Prd(r, j)
  BY <1>1 DEF Writes, Prd
<1>10. /\ w \in Seq(Physical)
       /\ \A j, k \in 1 .. Len(w) : w[j] = w[k] => j = k
       /\ \A k \in 1 .. Len(w) : \E i \in Younger(r, b) : Writes(r, i) /\ w[k] = Prd(r, i)
       /\ \A i \in Younger(r, b) : Writes(r, i) => \E k \in 1 .. Len(w) : w[k] = Prd(r, i)
  BY <1>3, SquashedRegistersEntries DEF Partitioned
<1> HIDE DEF w
<1>11. /\ Len(w) \in Nat /\ Len(f) \in Nat /\ Len(g) = Len(w) + Len(f)
       /\ \A k \in 1 .. Len(w) : g[k] = w[k]
       /\ \A k \in 1 .. Len(f) : Len(w) + k \in 1 .. Len(g) /\ g[Len(w) + k] = f[k]
       /\ \A k \in 1 .. Len(g) : k \in 1 .. Len(w) \/ (k - Len(w) \in 1 .. Len(f) /\ g[k] = f[k - Len(w)])
       /\ g \in Seq(Physical)
  <2>1. Len(w) \in Nat /\ Len(f) \in Nat
    BY <1>10
  <2>2. /\ g \in Seq(Physical) /\ Len(g) = Len(w) + Len(f)
        /\ \A k \in 1 .. Len(w) + Len(f) : g[k] = IF k <= Len(w) THEN w[k] ELSE f[k - Len(w)]
    BY <1>10, ConcatProperties
  <2> HIDE DEF g
  <2>3. \A k \in 1 .. Len(w) : g[k] = w[k]
    <3>1. \A k \in 1 .. Len(w) : k \in 1 .. Len(w) + Len(f) /\ k <= Len(w)
      BY <2>1
    <3> QED
      BY <2>2, <3>1
  <2>4. \A k \in 1 .. Len(f) : Len(w) + k \in 1 .. Len(g) /\ g[Len(w) + k] = f[k]
    <3> SUFFICES ASSUME NEW k \in 1 .. Len(f)
                 PROVE  Len(w) + k \in 1 .. Len(g) /\ g[Len(w) + k] = f[k]
      OBVIOUS
    <3>1. /\ Len(w) + k \in 1 .. Len(w) + Len(f)
          /\ ~(Len(w) + k <= Len(w)) /\ (Len(w) + k) - Len(w) = k
      BY <2>1
    <3> QED
      BY <2>2, <3>1
  <2>5. \A k \in 1 .. Len(g) : k \in 1 .. Len(w) \/ (k - Len(w) \in 1 .. Len(f) /\ g[k] = f[k - Len(w)])
    <3> SUFFICES ASSUME NEW k \in 1 .. Len(g), k \notin 1 .. Len(w)
                 PROVE  k - Len(w) \in 1 .. Len(f) /\ g[k] = f[k - Len(w)]
      OBVIOUS
    <3>1. k \in 1 .. Len(w) + Len(f)
      BY <2>2
    <3>2. ~(k <= Len(w)) /\ k - Len(w) \in 1 .. Len(f)
      BY <2>1, <3>1
    <3> QED
      BY <2>2, <3>1, <3>2
  <2> QED
    BY <2>1, <2>2, <2>3, <2>4, <2>5
<1> HIDE DEF g
<1>12. \A i \in Younger(r, b) : i \in Index
  BY DEF Younger
<1>13. Partitioned(m[0], s, g)
  <2>1. \A j, k \in 1 .. Len(g) : g[j] = g[k] => j = k
    <3> SUFFICES ASSUME NEW j \in 1 .. Len(g), NEW k \in 1 .. Len(g), g[j] = g[k] PROVE j = k
      OBVIOUS
    <3>1. \A x \in 1 .. Len(w) : \A z \in 1 .. Len(f) : w[x] # f[z]
      BY <1>3, <1>10, <1>12 DEF Partitioned
    <3>2. \A x, z \in 1 .. Len(f) : f[x] = f[z] => x = z
      BY <1>3 DEF Partitioned
    <3>3. CASE j \in 1 .. Len(w) /\ k \in 1 .. Len(w)
      BY <1>10, <1>11, <3>3
    <3>4. CASE j \in 1 .. Len(w) /\ k \notin 1 .. Len(w)
      BY <1>11, <3>1, <3>4
    <3>5. CASE j \notin 1 .. Len(w) /\ k \in 1 .. Len(w)
      BY <1>11, <3>1, <3>5
    <3>6. CASE j \notin 1 .. Len(w) /\ k \notin 1 .. Len(w)
      <4>1. /\ j - Len(w) \in 1 .. Len(f) /\ g[j] = f[j - Len(w)]
            /\ k - Len(w) \in 1 .. Len(f) /\ g[k] = f[k - Len(w)]
        BY <1>11, <3>6
      <4>2. j - Len(w) = k - Len(w)
        BY <3>2, <4>1
      <4>3. j \in Int /\ k \in Int /\ Len(w) \in Int
        BY <1>11
      <4> QED
        BY <4>2, <4>3
    <3> QED
      BY <3>3, <3>4, <3>5, <3>6
  <2>2. \A k \in 1 .. Len(g) : \A i \in Index : Writes(s, i) => g[k] # Prd(s, i)
    <3>1. \A x \in 1 .. Len(w) : \A i \in Index : Writes(s, i) => w[x] # Prd(s, i)
      BY <1>3, <1>9, <1>10, <1>12 DEF Partitioned
    <3>2. \A x \in 1 .. Len(f) : \A i \in Index : Writes(s, i) => f[x] # Prd(s, i)
      BY <1>3, <1>9 DEF Partitioned
    <3>3. \A k \in 1 .. Len(g) : \/ k \in 1 .. Len(w) /\ g[k] = w[k]
                                 \/ k - Len(w) \in 1 .. Len(f) /\ g[k] = f[k - Len(w)]
      BY <1>11
    <3> QED
      BY <3>1, <3>2, <3>3
  <2>3. \A k \in 1 .. Len(g) : \A a \in Register : g[k] # m[0][a]
    <3>1. \A x \in 1 .. Len(w) : \A a \in Register : w[x] # m[0][a]
      BY <1>3, <1>10, <1>12 DEF Partitioned
    <3>2. \A x \in 1 .. Len(f) : \A a \in Register : f[x] # m[0][a]
      BY <1>3 DEF Partitioned
    <3>3. \A k \in 1 .. Len(g) : \/ k \in 1 .. Len(w) /\ g[k] = w[k]
                                 \/ k - Len(w) \in 1 .. Len(f) /\ g[k] = f[k - Len(w)]
      BY <1>11
    <3> QED
      BY <3>1, <3>2, <3>3
  <2>4. \A p \in Physical : \/ \E k \in 1 .. Len(g) : g[k] = p
                            \/ \E i \in Index : Writes(s, i) /\ Prd(s, i) = p
                            \/ \E a \in Register : m[0][a] = p
    <3> TAKE p \in Physical
    <3>1. CASE \E k \in 1 .. Len(f) : f[k] = p
      BY <1>11, <3>1
    <3>2. CASE \E i \in Index : Writes(r, i) /\ Prd(r, i) = p
      <4>1. PICK i \in Index : Writes(r, i) /\ Prd(r, i) = p
        BY <3>2
      <4>2. CASE i \in Younger(r, b)
        <5>1. PICK k \in 1 .. Len(w) : w[k] = p
          BY <1>10, <4>1, <4>2
        <5>2. k \in 1 .. Len(g) /\ g[k] = p
          BY <1>11, <5>1
        <5> QED
          BY <5>2
      <4>3. CASE i \notin Younger(r, b)
        BY <1>9, <4>1, <4>3
      <4> QED
        BY <4>2, <4>3
    <3> QED
      BY <1>3, <3>1, <3>2 DEF Partitioned
  <2>5. /\ \A i, j \in Index : Writes(s, i) /\ Writes(s, j) /\ Prd(s, i) = Prd(s, j) => i = j
        /\ \A i \in Index : Writes(s, i) => \A a \in Register : Prd(s, i) # m[0][a]
        /\ \A a, e \in Register : m[0][a] = m[0][e] => a = e
    BY <1>3, <1>9 DEF Partitioned
  <2> QED
    BY <2>1, <2>2, <2>3, <2>4, <2>5 DEF Partitioned
<1>14. Computed(m[0], s, file)
  BY <1>1, <1>3, <1>9 DEF Computed
<1>15. Mapped(n, s, r.slot[b].data.cp, g, file)
  BY <1>6, <1>7, <1>8, <1>13, <1>14 DEF Mapped
<1> QED
  BY <1>15 DEF n, s, g, w

LEMMA SuppliedSquashed ==
    ASSUME NEW r, Ring(r), NEW b \in Index, InWindow(r, b),
           NEW q, Linked(q, r), Supplied(q, r)
    PROVE  Supplied(IQSquash(q, Younger(r, b)), SquashYoungerThan(r, b))
<1> DEFINE s == SquashYoungerThan(r, b)
           t == IQSquash(q, Younger(r, b))
<1>1. \A j \in Index :
         /\ Position(s, j) = Position(r, j)
         /\ InWindow(s, j) <=> InWindow(r, j) /\ Position(r, j) <= Position(r, b)
         /\ InWindow(s, j) => s.slot[j] = r.slot[j]
         /\ Pending(s, j) <=> Pending(r, j) /\ j \notin Younger(r, b)
  BY SquashRing
<1>2. \A i \in Index : Position(r, i) \in Nat
  BY RingPositions
<1>3. \A k \in IQSlot : t[k].valid => q[k].valid /\ q[k].rob \notin Younger(r, b) /\ t[k] = q[k]
  BY DEF IQSquash, FreeSlot
<1> HIDE DEF s, t
<1>4. ASSUME NEW o, NEW x \in Index, InWindow(r, x), x \notin Younger(r, b),
             Awaited(o, r, Position(r, x))
      PROVE  Awaited(o, s, Position(s, x))
  <2>1. Position(r, x) <= Position(r, b)
    BY <1>2, <1>4 DEF Younger
  <2>2. \A j \in Index : Writes(r, j) /\ Pending(r, j) /\ Position(r, j) < Position(r, x) =>
           Writes(s, j) /\ Pending(s, j) /\ Prd(s, j) = Prd(r, j)
    <3> SUFFICES ASSUME NEW j \in Index, Writes(r, j), Pending(r, j),
                        Position(r, j) < Position(r, x)
                 PROVE  Writes(s, j) /\ Pending(s, j) /\ Prd(s, j) = Prd(r, j)
      OBVIOUS
    <3>1. Position(r, j) <= Position(r, b) /\ j \notin Younger(r, b)
      BY <1>2, <2>1 DEF Younger
    <3>2. InWindow(s, j) /\ s.slot[j] = r.slot[j] /\ Pending(s, j)
      BY <1>1, <3>1 DEF Writes
    <3> QED
      BY <3>2 DEF Writes, Prd
  <2> QED
    BY <1>1, <1>4, <2>2 DEF Awaited
<1>5. \A k \in IQSlot : q[k].valid => q[k].rob \in Index /\ InWindow(r, q[k].rob)
  BY ValidEntry DEF Linked, Pending
<1>6. Supplied(t, s)
  BY <1>3, <1>4, <1>5 DEF Supplied
<1> QED
  BY <1>6 DEF s, t

(* An instruction enters the reorder buffer; a writer takes the first free  *)
(* register, which is not ready.                                            *)
LEMMA MappedAllocated ==
    ASSUME NEW r, Ring(r), ~Full(r), NEW d, DataOK(d),
           NEW m, NEW map, NEW f \in Seq(Physical), NEW file, Mapped(m, r, map, f, file),
           NEW map1 \in [Register -> Physical], Renames(map, map1, d),
           NEW f1, NEW file1,
           WritesRegister(d.ins) => Len(f) >= 1 /\ d.prd = f[1] /\ f1 = Tail(f),
           ~WritesRegister(d.ins) => f1 = f,
           \A p \in Physical : file1[p].ready <=> /\ file[p].ready
                                                  /\ ~(WritesRegister(d.ins) /\ p = d.prd)
    PROVE  Mapped([k \in 0 .. r.count + 1 |-> IF k <= r.count THEN m[k] ELSE map1],
                  Allocate(r, d), map1, f1, file1)
<1> DEFINE s == Allocate(r, d)
           c == r.tail
           n == [k \in 0 .. r.count + 1 |-> IF k <= r.count THEN m[k] ELSE map1]
<1>1. /\ s.count = r.count + 1 /\ c \in Index /\ ~InWindow(r, c) /\ Position(r, c) = r.count
      /\ s.slot[c].data = d
      /\ \A j \in Index : /\ Position(s, j) = Position(r, j)
                          /\ InWindow(s, j) <=> InWindow(r, j) \/ j = c
                          /\ j # c => s.slot[j] = r.slot[j]
                          /\ Pending(s, j) <=> Pending(r, j) \/ j = c
  BY AllocateRing
<1> HIDE DEF s, c
<1>2. /\ r.count \in Nat
      /\ \A i \in Index : Position(r, i) \in Nat /\ (InWindow(r, i) <=> Position(r, i) < r.count)
  BY RingPositions
<1>3. History(m, r) /\ map = m[r.count] /\ Partitioned(m[0], r, f) /\ Computed(m[0], r, file)
  BY DEF Mapped
<1>4. /\ \A k \in 0 .. r.count : n[k] = m[k]
      /\ n[r.count + 1] = map1
      /\ n \in [0 .. r.count + 1 -> [Register -> Physical]]
  <2>1. \A k \in 0 .. r.count : k \in 0 .. r.count + 1 /\ k <= r.count
    BY <1>2
  <2>2. r.count + 1 \in 0 .. r.count + 1 /\ ~(r.count + 1 <= r.count)
    BY <1>2
  <2>3. \A k \in 0 .. r.count + 1 : k <= r.count => k \in 0 .. r.count
    BY <1>2
  <2>4. \A k \in 0 .. r.count : m[k] \in [Register -> Physical]
    BY <1>3, MappedTyped
  <2> QED
    BY <2>1, <2>2, <2>3, <2>4
<1> HIDE DEF n
<1>5. n[0] = m[0] /\ n[s.count] = map1 /\ n[r.count] = map
  BY <1>1, <1>2, <1>3, <1>4
<1>6. /\ \A j \in Index : Writes(s, j) <=> Writes(r, j) \/ (j = c /\ WritesRegister(d.ins))
      /\ \A j \in Index : j # c => Prd(s, j) = Prd(r, j)
      /\ Prd(s, c) = d.prd /\ ~Writes(r, c)
  BY <1>1 DEF Writes, Prd
<1>7. History(n, s)
  <2>1. ASSUME NEW i \in Index, InWindow(s, i)
        PROVE  Renames(n[Position(s, i)], n[Position(s, i) + 1], s.slot[i].data)
    <3>1. CASE i = c
      BY <1>1, <1>4, <1>5, <3>1
    <3>2. CASE i # c
      <4>1. InWindow(r, i) /\ s.slot[i] = r.slot[i] /\ Position(s, i) = Position(r, i)
        BY <1>1, <2>1, <3>2
      <4>2. Position(r, i) \in 0 .. r.count /\ Position(r, i) + 1 \in 0 .. r.count
        BY <1>2, <4>1
      <4>3. Renames(m[Position(r, i)], m[Position(r, i) + 1], r.slot[i].data)
        BY <1>3, <4>1 DEF History
      <4> QED
        BY <1>4, <4>1, <4>2, <4>3
    <3> QED
      BY <3>1, <3>2
  <2> QED
    BY <1>1, <1>4, <2>1 DEF History
<1>8. CASE WritesRegister(d.ins)
  <2>1. /\ Len(f) \in Nat /\ Len(f) >= 1 /\ d.prd = f[1] /\ Len(f1) = Len(f) - 1
        /\ \A k \in 1 .. Len(f1) : f1[k] = f[k + 1] /\ k + 1 \in 1 .. Len(f)
    BY <1>8
  <2>2. /\ \A i \in Index : Writes(r, i) => d.prd # Prd(r, i)
        /\ \A a \in Register : d.prd # m[0][a]
    BY <1>3, <2>1 DEF Partitioned
  <2>3. Partitioned(m[0], s, f1)
    <3>1. \A j, k \in 1 .. Len(f1) : f1[j] = f1[k] => j = k
      <4> SUFFICES ASSUME NEW j \in 1 .. Len(f1), NEW k \in 1 .. Len(f1), f1[j] = f1[k]
                   PROVE  j = k
        OBVIOUS
      <4>1. j + 1 = k + 1
        BY <1>3, <2>1 DEF Partitioned
      <4>2. j \in Int /\ k \in Int
        OBVIOUS
      <4> QED
        BY <4>1, <4>2
    <3>2. \A i, j \in Index : Writes(s, i) /\ Writes(s, j) /\ Prd(s, i) = Prd(s, j) => i = j
      BY <1>3, <1>6, <2>2 DEF Partitioned
    <3>3. \A k \in 1 .. Len(f1) : \A i \in Index : Writes(s, i) => f1[k] # Prd(s, i)
      <4> SUFFICES ASSUME NEW k \in 1 .. Len(f1), NEW i \in Index, Writes(s, i)
                   PROVE  f1[k] # Prd(s, i)
        OBVIOUS
      <4>1. f1[k] = f[k + 1] /\ k + 1 \in 1 .. Len(f)
        BY <2>1
      <4>2. CASE i = c
        <5>1. 1 \in 1 .. Len(f) /\ k + 1 # 1
          BY <2>1
        <5>2. f[k + 1] # f[1]
          BY <1>3, <4>1, <5>1 DEF Partitioned
        <5> QED
          BY <1>6, <2>1, <4>1, <4>2, <5>2
      <4>3. CASE i # c
        BY <1>3, <1>6, <4>1, <4>3 DEF Partitioned
      <4> QED
        BY <4>2, <4>3
    <3>4. /\ \A a, b \in Register : m[0][a] = m[0][b] => a = b
          /\ \A k \in 1 .. Len(f1) : \A a \in Register : f1[k] # m[0][a]
          /\ \A i \in Index : Writes(s, i) => \A a \in Register : Prd(s, i) # m[0][a]
      BY <1>3, <1>6, <2>1, <2>2 DEF Partitioned
    <3>5. ASSUME NEW p \in Physical
          PROVE  \/ \E k \in 1 .. Len(f1) : f1[k] = p
                 \/ \E i \in Index : Writes(s, i) /\ Prd(s, i) = p
                 \/ \E a \in Register : m[0][a] = p
      <4>1. CASE \E k \in 1 .. Len(f) : f[k] = p
        <5>1. PICK k \in 1 .. Len(f) : f[k] = p
          BY <4>1
        <5>2. CASE k = 1
          BY <1>1, <1>6, <1>8, <2>1, <5>1, <5>2
        <5>3. CASE k # 1
          <6>1. k - 1 \in 1 .. Len(f1) /\ (k - 1) + 1 = k
            BY <2>1, <5>3
          <6>2. f1[k - 1] = f[k]
            BY <2>1, <6>1
          <6> QED
            BY <5>1, <6>1, <6>2
        <5> QED
          BY <5>2, <5>3
      <4>2. CASE \E i \in Index : Writes(r, i) /\ Prd(r, i) = p
        BY <1>6, <4>2
      <4>3. CASE \E a \in Register : m[0][a] = p
        BY <4>3
      <4> QED
        BY <1>3, <4>1, <4>2, <4>3 DEF Partitioned
    <3> QED
      BY <3>1, <3>2, <3>3, <3>4, <3>5 DEF Partitioned
  <2>4. Computed(m[0], s, file1)
    <3>1. \A a \in Register : file1[m[0][a]].ready
      BY <1>3, <2>2, MappedTyped DEF Computed
    <3>2. \A i \in Index : Writes(s, i) => (file1[Prd(s, i)].ready <=> ~Pending(s, i))
      <4> SUFFICES ASSUME NEW i \in Index, Writes(s, i)
                   PROVE  file1[Prd(s, i)].ready <=> ~Pending(s, i)
        OBVIOUS
      <4>1. CASE i = c
        <5>1. d.prd \in Physical
          BY DEF DataOK
        <5> QED
          BY <1>1, <1>6, <1>8, <4>1, <5>1
      <4>2. CASE i # c
        <5>1. Writes(r, i) /\ Prd(s, i) = Prd(r, i) /\ Prd(r, i) # d.prd
          BY <1>6, <2>2, <4>2
        <5>2. Prd(r, i) \in Physical
          BY <1>3, <5>1, MappedTyped
        <5>3. file[Prd(r, i)].ready <=> ~Pending(r, i)
          BY <1>3, <5>1 DEF Computed
        <5>4. Pending(s, i) <=> Pending(r, i)
          BY <1>1, <4>2
        <5> QED
          BY <5>1, <5>2, <5>3, <5>4
      <4> QED
        BY <4>1, <4>2
    <3> QED
      BY <3>1, <3>2 DEF Computed
  <2> QED
    BY <1>5, <1>7, <2>3, <2>4 DEF Mapped, n, s
<1>9. CASE ~WritesRegister(d.ins)
  <2>1. \A j \in Index : /\ Writes(s, j) <=> Writes(r, j)
                         /\ Writes(r, j) => Prd(s, j) = Prd(r, j) /\ j # c
    BY <1>6, <1>9
  <2>2. Partitioned(m[0], s, f1)
    BY <1>3, <1>9, <2>1 DEF Partitioned
  <2>3. Computed(m[0], s, file1)
    <3>1. \A a \in Register : file1[m[0][a]].ready
      BY <1>3, <1>9, MappedTyped DEF Computed
    <3>2. \A i \in Index : Writes(s, i) => (file1[Prd(s, i)].ready <=> ~Pending(s, i))
      <4> SUFFICES ASSUME NEW i \in Index, Writes(s, i)
                   PROVE  file1[Prd(s, i)].ready <=> ~Pending(s, i)
        OBVIOUS
      <4>1. Writes(r, i) /\ Prd(s, i) = Prd(r, i) /\ i # c
        BY <2>1
      <4>2. Prd(r, i) \in Physical
        BY <1>3, <4>1, MappedTyped
      <4>3. file[Prd(r, i)].ready <=> ~Pending(r, i)
        BY <1>3, <4>1 DEF Computed
      <4>4. Pending(s, i) <=> Pending(r, i)
        BY <1>1, <4>1
      <4> QED
        BY <1>9, <4>1, <4>2, <4>3, <4>4
    <3> QED
      BY <3>1, <3>2 DEF Computed
  <2> QED
    BY <1>5, <1>7, <2>2, <2>3 DEF Mapped, n, s
<1> QED
  BY <1>8, <1>9

(* What waits in the issue queue keeps its producers.                       *)
LEMMA SuppliedAllocated ==
    ASSUME NEW r, Ring(r), ~Full(r), NEW d, DataOK(d), NEW q, Linked(q, r), Supplied(q, r)
    PROVE  Supplied(q, Allocate(r, d))
<1> DEFINE s == Allocate(r, d)
           c == r.tail
<1>1. /\ c \in Index /\ ~InWindow(r, c)
      /\ \A j \in Index : /\ Position(s, j) = Position(r, j)
                          /\ InWindow(s, j) <=> InWindow(r, j) \/ j = c
                          /\ j # c => s.slot[j] = r.slot[j]
                          /\ Pending(s, j) <=> Pending(r, j) \/ j = c
  BY AllocateRing
<1> HIDE DEF s, c
<1>2. \A j \in Index : Writes(r, j) => Writes(s, j) /\ Prd(s, j) = Prd(r, j)
  BY <1>1 DEF Writes, Prd
<1>3. \A o, n : Awaited(o, r, n) => Awaited(o, s, n)
  BY <1>1, <1>2 DEF Awaited
<1>4. \A k \in IQSlot : q[k].valid => q[k].rob \in Index
  BY ValidEntry
<1>5. Supplied(q, s)
  BY <1>1, <1>3, <1>4 DEF Supplied
<1> QED
  BY <1>5 DEF s

(* An instruction that waits in the issue queue reads mapped registers.     *)
LEMMA SuppliedInserted ==
    ASSUME NEW r, Ring(r), ~Full(r), NEW d, DataOK(d),
           NEW q, Linked(q, r), Supplied(q, r), ~IQFull(q),
           NEW e, e.rob = r.tail,
           Awaited(e.op1, r, r.count), Awaited(e.op2, r, r.count)
    PROVE  Supplied(Insert(q, e), Allocate(r, d))
<1> DEFINE s == Allocate(r, d)
           c == r.tail
           x == Min({i \in IQSlot : ~q[i].valid})
           t == Insert(q, e)
<1>1. /\ c \in Index /\ ~InWindow(r, c) /\ Position(r, c) = r.count
      /\ \A j \in Index : /\ Position(s, j) = Position(r, j)
                          /\ InWindow(s, j) <=> InWindow(r, j) \/ j = c
                          /\ j # c => s.slot[j] = r.slot[j]
                          /\ Pending(s, j) <=> Pending(r, j) \/ j = c
  BY AllocateRing
<1>2. Supplied(q, s)
  BY SuppliedAllocated
<1>3. x \in IQSlot /\ q \in [IQSlot -> EntrySet \cup {FreeSlot}]
  BY InsertSlot DEF Linked
<1>4. t = [q EXCEPT ![x] = e]
  BY DEF Insert
<1> HIDE DEF s, c, x, t
<1>5. \A j \in Index : Writes(r, j) => Writes(s, j) /\ Prd(s, j) = Prd(r, j)
  BY <1>1 DEF Writes, Prd
<1>6. \A o, n : Awaited(o, r, n) => Awaited(o, s, n)
  BY <1>1, <1>5 DEF Awaited
<1>7. Position(s, e.rob) = r.count
  BY <1>1 DEF c
<1>8. \A k \in IQSlot : t[k] = IF k = x THEN e ELSE q[k]
  BY <1>3, <1>4
<1>9. Supplied(t, s)
  BY <1>2, <1>6, <1>7, <1>8 DEF Supplied
<1> QED
  BY <1>9 DEF s, t

(* One lane through rename and dispatch.  x is the rename state before the  *)
(* lane, R the one behind the bundle, s what is dispatched before the lane. *)
Consistent(x, s) == /\ \E m : Mapped(m, s.rob, x.rat, x.freeList, x.prf)
                    /\ Supplied(s.iq, s.rob)

LEMMA LaneEnters ==
    ASSUME NEW x, RenameOK(x), NEW l \in LaneSet,
           WritesRegister(l.ins) => Len(x.freeList) >= 1,
           NEW n \in Nat, NEW s, DispatchOK(s, n), Consistent(x, s),
           NEW R, RenameOK(R), l.ins.op \in BranchOps => R.rat = Rename(x, l).rat,
           \A p \in Physical : (\A k \in 1 .. Len(x.freeList) : x.freeList[k] # p) =>
                                  (R.prf[p].ready <=> x.prf[p].ready),
           WritesRegister(l.ins) => ~s.halt /\ ~Full(s.rob) /\ ~IQFull(s.iq),
           NEW b \in BundleSet, b.lane = l,
           b.rs1 = x.rat[l.ins.rs1], b.rs2 = x.rat[l.ins.rs2],
           WritesRegister(l.ins) => b.prd = Head(x.freeList) /\ b.old = x.rat[l.ins.rd]
    PROVE  Consistent(Rename(x, l), Dispatch(R, s, b))
<1> DEFINE y == Rename(x, l)
           ins == l.ins
<1>1. /\ y.rat = IF WritesRegister(ins) THEN [x.rat EXCEPT ![ins.rd] = Head(x.freeList)] ELSE x.rat
      /\ y.freeList = IF WritesRegister(ins) THEN Tail(x.freeList) ELSE x.freeList
      /\ y.prf = IF WritesRegister(ins)
                 THEN [x.prf EXCEPT ![Head(x.freeList)] = [ready |-> FALSE, value |-> 0]]
                 ELSE x.prf
  BY DEF Rename
<1>2. RenameOK(y)
  BY RenameTyped
<1> HIDE DEF y
<1>3. ins.rs1 \in Register /\ ins.rs2 \in Register /\ ins.rd \in Register
  BY DEF LaneSet, Instruction
<1>4. CASE s.halt \/ Full(s.rob) \/ IQFull(s.iq)
  <2>1. ~WritesRegister(ins)
    BY <1>4
  <2>2. y.rat = x.rat /\ y.freeList = x.freeList /\ y.prf = x.prf
    BY <1>1, <2>1
  <2> DEFINE t == Dispatch(R, s, b)
  <2>3. t.rob = s.rob /\ t.iq = s.iq
    BY <1>4 DEF Dispatch
  <2> HIDE DEF t
  <2>4. Consistent(y, t)
    BY <2>2, <2>3 DEF Consistent
  <2> QED
    BY <2>4 DEF y, t
<1>5. CASE ~(s.halt \/ Full(s.rob) \/ IQFull(s.iq))
  <2> DEFINE r == s.rob
             q == s.iq
             c == r.tail
             d == RobData(R, b)
             e == IssueEntry(R, b, c)
             a == Allocate(r, d)
             t == Dispatch(R, s, b)
  <2>1. /\ t.rob = IF CompletesAtDispatch(ins) THEN Complete(a, c) ELSE a
        /\ t.iq = IF CompletesAtDispatch(ins) THEN q ELSE Insert(q, e)
    BY <1>5 DEF Dispatch
  <2>2. Ring(r) /\ ~Full(r) /\ Linked(q, r) /\ ~IQFull(q) /\ Supplied(q, r)
    BY <1>5 DEF DispatchOK, Consistent
  <2>3. c \in Index
    BY <2>2 DEF Ring, InOrder
  <2>4. DataOK(d) /\ e \in EntrySet /\ e.rob = c
    BY <2>3, DispatchedData
  <2>5. /\ d.ins = ins
        /\ WritesRegister(ins) => d.prd = Head(x.freeList) /\ d.old = x.rat[ins.rd]
        /\ ins.op \in BranchOps => d.cp = y.rat
    BY DEF RobData, y
  <2>6. /\ e.op1 = Operand(ReadsRs1(ins), x.rat[ins.rs1], R.prf)
        /\ e.op2 = Operand(ReadsRs2(ins), x.rat[ins.rs2], R.prf)
    BY DEF IssueEntry
  <2>7. PICK m : Mapped(m, r, x.rat, x.freeList, x.prf)
    BY DEF Consistent
  <2> HIDE DEF t, d, e, q, r, ins
  <2>8. ASSUME NEW reads \in BOOLEAN, NEW rs \in Register
        PROVE  Awaited(Operand(reads, x.rat[rs], R.prf), r, r.count)
    <3> DEFINE p == x.rat[rs]
    <3>1. r.count \in 0 .. r.count /\ x.rat = m[r.count]
      BY <2>2, <2>7, RingPositions DEF Mapped
    <3>2. /\ \A k \in 1 .. Len(x.freeList) : x.freeList[k] # p
          /\ ~x.prf[p].ready => \E j \in Index : /\ Writes(r, j) /\ Pending(r, j)
                                                 /\ Position(r, j) < r.count
                                                 /\ Prd(r, j) = p
      BY <2>2, <2>7, <3>1, MappedRegister
    <3>3. p \in Physical
      BY DEF RenameOK
    <3>4. R.prf[p].ready <=> x.prf[p].ready
      BY <3>2, <3>3
    <3>5. /\ Operand(reads, p, R.prf).reg = p
          /\ ~Operand(reads, p, R.prf).ready => ~R.prf[p].ready
      BY DEF Operand
    <3> QED
      BY <3>2, <3>4, <3>5 DEF Awaited
  <2>9. Awaited(e.op1, r, r.count) /\ Awaited(e.op2, r, r.count)
    <3>1. ReadsRs1(ins) \in BOOLEAN /\ ReadsRs2(ins) \in BOOLEAN
      BY DEF ReadsRs1, ReadsRs2
    <3> QED
      BY <1>3, <2>6, <2>8, <3>1 DEF ins
  <2>10. Renames(x.rat, y.rat, d) /\ y.rat \in [Register -> Physical] /\ x.freeList \in Seq(Physical)
    <3>1. y.rat = IF WritesRegister(d.ins) THEN [x.rat EXCEPT ![d.ins.rd] = d.prd] ELSE x.rat
      BY <1>1, <2>5 DEF ins
    <3> QED
      BY <1>2, <2>5, <3>1 DEF Renames, RenameOK
  <2>11. /\ WritesRegister(d.ins) => /\ Len(x.freeList) >= 1 /\ d.prd = x.freeList[1]
                                     /\ y.freeList = Tail(x.freeList)
         /\ ~WritesRegister(d.ins) => y.freeList = x.freeList
    <3>1. Head(x.freeList) = x.freeList[1]
      OBVIOUS
    <3> QED
      BY <1>1, <2>5, <3>1 DEF ins
  <2>12. \A p \in Physical : y.prf[p].ready <=> /\ x.prf[p].ready
                                                /\ ~(WritesRegister(d.ins) /\ p = d.prd)
    <3>1. x.prf \in [Physical -> Cell]
      BY DEF RenameOK
    <3>2. CASE WritesRegister(d.ins)
      <4>1. y.prf = [x.prf EXCEPT ![d.prd] = [ready |-> FALSE, value |-> 0]]
        BY <1>1, <2>5, <3>2 DEF ins
      <4> QED
        BY <3>1, <3>2, <4>1
    <3>3. CASE ~WritesRegister(d.ins)
      <4>1. y.prf = x.prf
        BY <1>1, <2>5, <3>3 DEF ins
      <4> QED
        BY <3>3, <4>1
    <3> QED
      BY <3>2, <3>3
  <2>13. \E m1 : Mapped(m1, a, y.rat, y.freeList, y.prf)
    <3> DEFINE map == x.rat
               map1 == y.rat
               f == x.freeList
               f1 == y.freeList
               file == x.prf
               file1 == y.prf
               m1 == [k \in 0 .. r.count + 1 |-> IF k <= r.count THEN m[k] ELSE map1]
    <3>1. /\ Mapped(m, r, map, f, file) /\ Renames(map, map1, d)
          /\ map1 \in [Register -> Physical] /\ f \in Seq(Physical)
          /\ WritesRegister(d.ins) => Len(f) >= 1 /\ d.prd = f[1] /\ f1 = Tail(f)
          /\ ~WritesRegister(d.ins) => f1 = f
          /\ \A p \in Physical : file1[p].ready <=> /\ file[p].ready
                                                    /\ ~(WritesRegister(d.ins) /\ p = d.prd)
      BY <2>7, <2>10, <2>11, <2>12
    <3> HIDE DEF map, map1, f, f1, file, file1
    <3>2. Mapped(m1, a, map1, f1, file1)
      BY <2>2, <2>4, <3>1, MappedAllocated
    <3> QED
      BY <3>2 DEF map1, f1, file1
  <2>14. CASE CompletesAtDispatch(ins)
    <3>1. t.rob = Complete(a, c) /\ t.iq = q
      BY <2>1, <2>14
    <3>2. ~WritesRegister(ins)
      BY <2>14 DEF CompletesAtDispatch, WritesRegister, AluOps, TwoSourceAlu
    <3>3. Ring(a) /\ InWindow(a, c) /\ a.slot[c].data = d /\ ~InWindow(r, c)
      BY <2>2, <2>3, <2>4, AllocateRing
    <3>4. ~Writes(a, c)
      BY <2>5, <3>2, <3>3 DEF Writes
    <3>5. PICK m1 : Mapped(m1, a, y.rat, y.freeList, y.prf)
      BY <2>13
    <3> HIDE DEF a
    <3>6. Mapped(m1, Complete(a, c), y.rat, y.freeList, y.prf)
      BY <2>3, <3>3, <3>4, <3>5, MappedCompletes
    <3>7. Supplied(q, a)
      BY <2>2, <2>4, SuppliedAllocated DEF a
    <3>8. Supplied(q, Complete(a, c))
      <4> DEFINE v == Complete(a, c)
      <4>1. \A j \in Index : /\ Position(v, j) = Position(a, j)
                             /\ InWindow(v, j) <=> InWindow(a, j)
                             /\ v.slot[j].data = a.slot[j].data
                             /\ Pending(v, j) <=> Pending(a, j) /\ j # c
        BY <2>3, <3>3, CompleteRing
      <4> HIDE DEF v
      <4>2. \A j \in Index : (Writes(v, j) <=> Writes(a, j)) /\ Prd(v, j) = Prd(a, j)
        BY <4>1 DEF Writes, Prd
      <4>3. \A o, k : Awaited(o, a, k) => Awaited(o, v, k)
        BY <3>4, <4>1, <4>2 DEF Awaited
      <4>4. \A k \in IQSlot : q[k].valid => q[k].rob \in Index
        BY <2>2, ValidEntry
      <4>5. Supplied(q, v)
        BY <3>7, <4>1, <4>3, <4>4 DEF Supplied
      <4> QED
        BY <4>5 DEF v
    <3> QED
      BY <3>1, <3>6, <3>8 DEF Consistent, t, y
  <2>15. CASE ~CompletesAtDispatch(ins)
    <3>1. t.rob = a /\ t.iq = Insert(q, e)
      BY <2>1, <2>15
    <3>2. Supplied(Insert(q, e), a)
      BY <2>2, <2>4, <2>9, SuppliedInserted
    <3> HIDE DEF a
    <3> QED
      BY <2>13, <3>1, <3>2 DEF Consistent, t, y
  <2> QED
    BY <2>14, <2>15
<1> QED
  BY <1>4, <1>5

LEMMA RenameKeeps ==
    ASSUME NEW s, RenameOK(s), NEW l \in LaneSet,
           WritesRegister(l.ins) => Len(s.freeList) >= 1
    PROVE  LET t == Rename(s, l)
           IN  /\ \A p \in Physical : (\A k \in 1 .. Len(s.freeList) : s.freeList[k] # p) =>
                     /\ t.prf[p] = s.prf[p]
                     /\ \A k \in 1 .. Len(t.freeList) : t.freeList[k] # p
               /\ ~WritesRegister(l.ins) => t.rat = s.rat
               /\ \E b \in BundleSet :
                     /\ t.out = Append(s.out, b)
                     /\ b.lane = l /\ b.rs1 = s.rat[l.ins.rs1] /\ b.rs2 = s.rat[l.ins.rs2]
                     /\ WritesRegister(l.ins) => b.prd = Head(s.freeList) /\ b.old = s.rat[l.ins.rd]
<1> DEFINE t == Rename(s, l)
           writes == WritesRegister(l.ins)
           p0 == Head(s.freeList)
           b0 == [lane |-> l, rs1 |-> s.rat[l.ins.rs1], rs2 |-> s.rat[l.ins.rs2],
                  prd |-> IF writes THEN p0 ELSE 0,
                  old |-> IF writes THEN OldMapping(s, l) ELSE 0]
<1>1. l.ins.rd \in Register /\ l.ins.rs1 \in Register /\ l.ins.rs2 \in Register
  BY DEF LaneSet, Instruction
<1>2. writes => /\ p0 = s.freeList[1] /\ p0 \in Physical /\ 1 \in 1 .. Len(s.freeList)
                /\ Len(Tail(s.freeList)) = Len(s.freeList) - 1
                /\ \A k \in 1 .. Len(Tail(s.freeList)) : /\ Tail(s.freeList)[k] = s.freeList[k + 1]
                                                         /\ k + 1 \in 1 .. Len(s.freeList)
  BY DEF RenameOK
<1>3. b0 \in BundleSet
  BY <1>1, <1>2, ZeroTyped DEF BundleSet, OldMapping, RenameOK
<1>4. /\ t.rat = IF writes THEN [s.rat EXCEPT ![l.ins.rd] = p0] ELSE s.rat
      /\ t.freeList = IF writes THEN Tail(s.freeList) ELSE s.freeList
      /\ t.prf = IF writes THEN [s.prf EXCEPT ![p0] = [ready |-> FALSE, value |-> 0]] ELSE s.prf
      /\ t.out = Append(s.out, b0)
  BY DEF Rename
<1>5. /\ b0.lane = l /\ b0.rs1 = s.rat[l.ins.rs1] /\ b0.rs2 = s.rat[l.ins.rs2]
      /\ writes => b0.prd = p0 /\ b0.old = s.rat[l.ins.rd]
  BY DEF OldMapping
<1> HIDE DEF t, b0, p0, writes
<1>6. ASSUME NEW p \in Physical, \A k \in 1 .. Len(s.freeList) : s.freeList[k] # p
      PROVE  t.prf[p] = s.prf[p] /\ \A k \in 1 .. Len(t.freeList) : t.freeList[k] # p
  <2>1. CASE writes
    <3>1. p # p0 /\ t.prf = [s.prf EXCEPT ![p0] = [ready |-> FALSE, value |-> 0]]
      BY <1>2, <1>4, <1>6, <2>1
    <3>2. t.prf[p] = s.prf[p]
      BY <3>1 DEF RenameOK
    <3>3. t.freeList = Tail(s.freeList)
      BY <1>4, <2>1
    <3> QED
      BY <1>2, <1>6, <2>1, <3>2, <3>3
  <2>2. CASE ~writes
    BY <1>4, <1>6, <2>2
  <2> QED
    BY <2>1, <2>2
<1>7. ~writes => t.rat = s.rat
  BY <1>4
<1>8. \E b \in BundleSet :
         /\ t.out = Append(s.out, b)
         /\ b.lane = l /\ b.rs1 = s.rat[l.ins.rs1] /\ b.rs2 = s.rat[l.ins.rs2]
         /\ writes => b.prd = p0 /\ b.old = s.rat[l.ins.rd]
  BY <1>3, <1>4, <1>5
<1> QED
  BY <1>6, <1>7, <1>8 DEF t, writes, p0

-----------------------------------------------------------------------------
(* A bundle renamed but not dispatched has taken registers nobody gives     *)
(* back, and a branch's checkpoint is taken behind the lane that follows it: *)
(* the renaming of the CPU is consistent as long as every lane that writes a *)
(* register is dispatched, and no such lane follows a branch of its bundle. *)
BundleRenames == /\ stage = "rename"
                 /\ ~redirect.on /\ ~haltDispatched /\ fd.valid
                 /\ CanRename(Lanes)

NothingDispatched == [rob |-> rob, iq |-> iq, lsq |-> lsq, buffer |-> storeBuffer,
                      halt |-> FALSE, taken |-> 0]

(* What is dispatched before lane k. *)
DispatchedBefore(k) ==
    IF k = 1 THEN NothingDispatched
    ELSE Dispatch(Renamed(Lanes), NothingDispatched, Renamed(Lanes).out[1])

Accepts(s) == ~s.halt /\ ~Full(s.rob) /\ ~IQFull(s.iq)

WritersDispatched ==
    BundleRenames => \A k \in DOMAIN Lanes :
                        WritesRegister(Lanes[k].ins) => Accepts(DispatchedBefore(k))

NoWriterBehindBranch ==
    BundleRenames => (Len(Lanes) = 2 /\ WritesRegister(Lanes[2].ins) =>
                         Lanes[1].ins.op \notin BranchOps)

LEMMA PairOf ==
    ASSUME NEW S, NEW x \in S, NEW y \in S
    PROVE  Append(<<x>>, y) = <<x, y>>
<1> DEFINE s == Append(<<x>>, y)
           t == <<x, y>>
<1>1. <<x>> \in Seq(S) /\ t \in Seq(S) /\ Len(<<x>>) = 1 /\ Len(t) = 2
  OBVIOUS
<1>2. s \in Seq(S) /\ Len(s) = 2 /\ s[1] = x /\ s[2] = y
  BY <1>1, AppendProperties
<1>3. t[1] = x /\ t[2] = y
  OBVIOUS
<1> HIDE DEF s, t
<1>4. \A k \in 1 .. 2 : s[k] = t[k]
  BY <1>2, <1>3
<1>5. s = t
  BY <1>1, <1>2, <1>4, SeqEqual
<1> QED
  BY <1>5 DEF s, t

LEMMA BundleRegisters ==
    ASSUME MachineOK, CanRename(Lanes)
    PROVE  /\ WritesRegister(Lanes[1].ins) => Len(freeList) >= 1
           /\ Len(Lanes) = 2 /\ WritesRegister(Lanes[2].ins) =>
                 Len(freeList) >= IF WritesRegister(Lanes[1].ins) THEN 2 ELSE 1
<1> DEFINE lanes == Lanes
<1>1. lanes \in Seq(LaneSet) /\ Len(lanes) \in {1, 2}
  BY LanesTyped
<1>2. CanRename(lanes) /\ Len(freeList) \in Nat
  BY DEF MachineOK
<1> HIDE DEF lanes
<1>3. /\ WritesRegister(lanes[1].ins) => Len(freeList) >= 1
      /\ Len(lanes) = 2 /\ WritesRegister(lanes[2].ins) =>
            Len(freeList) >= IF WritesRegister(lanes[1].ins) THEN 2 ELSE 1
  BY <1>1, <1>2, EnoughRegisters
<1> QED
  BY <1>3 DEF lanes

LEMMA BundleEnters ==
    ASSUME MachineOK, RenamingOK, BundleRenames, WritersDispatched, NoWriterBehindBranch
    PROVE  Consistent(Renamed(Lanes), Dispatched(Renamed(Lanes)))
<1> DEFINE x0 == [rat |-> rat, freeList |-> freeList, prf |-> prf, out |-> << >>]
           lanes == Lanes
           R == Renamed(lanes)
           s0 == NothingDispatched
<1>1. lanes \in Seq(LaneSet) /\ Len(lanes) \in {1, 2} /\ DOMAIN lanes = 1 .. Len(lanes)
  BY LanesTyped
<1>2. RenameOK(x0) /\ x0.out = << >> /\ x0.freeList = freeList
  BY DEF MachineOK, RenameOK
<1>3. Consistent(x0, s0)
  BY DEF RenamingOK, Consistent, NothingDispatched
<1>4. DispatchOK(s0, 0)
  BY DEF DispatchOK, MachineOK, NothingDispatched
<1>5. /\ Len(lanes) = 1 => R = Rename(x0, lanes[1])
      /\ Len(lanes) = 2 => R = Rename(Rename(x0, lanes[1]), lanes[2])
  BY DEF Renamed, ForEach
<1>6. RenameOK(R) /\ Len(R.out) = Len(lanes)
  BY RenamedTyped DEF BundleRenames
<1>7. /\ Len(R.out) = 1 => Dispatched(R) = Dispatch(R, s0, R.out[1])
      /\ Len(R.out) = 2 => Dispatched(R) = Dispatch(R, Dispatch(R, s0, R.out[1]), R.out[2])
  BY DEF Dispatched, ForEach, NothingDispatched
<1>8. /\ WritesRegister(lanes[1].ins) => Accepts(s0)
      /\ Len(lanes) = 2 /\ WritesRegister(lanes[2].ins) =>
            Accepts(Dispatch(R, s0, R.out[1])) /\ lanes[1].ins.op \notin BranchOps
  <2>1. 1 \in DOMAIN lanes /\ (Len(lanes) = 2 => 2 \in DOMAIN lanes) /\ 2 # 1
    BY <1>1
  <2>2. DispatchedBefore(1) = s0 /\ DispatchedBefore(2) = Dispatch(R, s0, R.out[1])
    BY DEF DispatchedBefore
  <2>3. \A k \in DOMAIN lanes : WritesRegister(lanes[k].ins) => Accepts(DispatchedBefore(k))
    BY DEF WritersDispatched
  <2>4. Len(lanes) = 2 /\ WritesRegister(lanes[2].ins) => lanes[1].ins.op \notin BranchOps
    BY DEF NoWriterBehindBranch
  <2> HIDE DEF lanes, s0, R
  <2> QED
    BY <2>1, <2>2, <2>3, <2>4
<1>9. CanRename(lanes) /\ Len(freeList) \in Nat
  BY DEF MachineOK, BundleRenames
<1> HIDE DEF x0, lanes, R, s0
<1>10. /\ WritesRegister(lanes[1].ins) => Len(freeList) >= 1
       /\ Len(lanes) = 2 /\ WritesRegister(lanes[2].ins) =>
             Len(freeList) >= IF WritesRegister(lanes[1].ins) THEN 2 ELSE 1
  BY BundleRegisters DEF lanes, BundleRenames
<1>11. lanes[1] \in LaneSet /\ (Len(lanes) = 2 => lanes[2] \in LaneSet)
  BY <1>1
<1> DEFINE x1 == Rename(x0, lanes[1])
           x2 == Rename(x1, lanes[2])
<1>12. /\ RenameOK(x1)
       /\ Len(x1.freeList) = IF WritesRegister(lanes[1].ins) THEN Len(freeList) - 1
                             ELSE Len(freeList)
  BY <1>2, <1>10, <1>11, RenameTyped
<1>13. /\ \A p \in Physical : (\A k \in 1 .. Len(freeList) : freeList[k] # p) =>
             /\ x1.prf[p] = x0.prf[p]
             /\ \A k \in 1 .. Len(x1.freeList) : x1.freeList[k] # p
       /\ \E b \in BundleSet :
             /\ x1.out = Append(x0.out, b)
             /\ b.lane = lanes[1]
             /\ b.rs1 = x0.rat[lanes[1].ins.rs1] /\ b.rs2 = x0.rat[lanes[1].ins.rs2]
             /\ WritesRegister(lanes[1].ins) => /\ b.prd = Head(x0.freeList)
                                                /\ b.old = x0.rat[lanes[1].ins.rd]
  BY <1>2, <1>10, <1>11, RenameKeeps
<1> HIDE DEF x1
<1>14. PICK b1 \in BundleSet :
             /\ x1.out = Append(x0.out, b1)
             /\ b1.lane = lanes[1]
             /\ b1.rs1 = x0.rat[lanes[1].ins.rs1] /\ b1.rs2 = x0.rat[lanes[1].ins.rs2]
             /\ WritesRegister(lanes[1].ins) => /\ b1.prd = Head(x0.freeList)
                                                /\ b1.old = x0.rat[lanes[1].ins.rd]
  BY <1>13
<1>15. x1.out = <<b1>>
  BY <1>2, <1>14
<1>16. ASSUME NEW Q, RenameOK(Q), lanes[1].ins.op \in BranchOps => Q.rat = x1.rat,
              \A p \in Physical : (\A k \in 1 .. Len(x0.freeList) : x0.freeList[k] # p) =>
                                     (Q.prf[p].ready <=> x0.prf[p].ready)
       PROVE  Consistent(x1, Dispatch(Q, s0, b1))
  <2>1. WritesRegister(lanes[1].ins) => ~s0.halt /\ ~Full(s0.rob) /\ ~IQFull(s0.iq)
    BY <1>8 DEF Accepts
  <2>2. WritesRegister(lanes[1].ins) => Len(x0.freeList) >= 1
    BY <1>2, <1>10
  <2>3. lanes[1].ins.op \in BranchOps => Q.rat = Rename(x0, lanes[1]).rat
    BY <1>16 DEF x1
  <2>4. Consistent(Rename(x0, lanes[1]), Dispatch(Q, s0, b1))
    BY <1>2, <1>3, <1>4, <1>11, <1>14, <1>16, <2>1, <2>2, <2>3, LaneEnters
  <2> QED
    BY <2>4 DEF x1
<1>17. CASE Len(lanes) = 1
  <2>1. R = x1 /\ R.out = <<b1>>
    BY <1>5, <1>15, <1>17 DEF x1
  <2>2. Dispatched(R) = Dispatch(R, s0, b1)
    BY <1>7, <2>1
  <2>3. \A p \in Physical : (\A k \in 1 .. Len(x0.freeList) : x0.freeList[k] # p) =>
                               (R.prf[p].ready <=> x0.prf[p].ready)
    BY <1>2, <1>13, <2>1
  <2>4. Consistent(R, Dispatched(R))
    BY <1>6, <1>16, <2>1, <2>2, <2>3
  <2> QED
    BY <2>4 DEF R, lanes
<1>18. CASE Len(lanes) = 2
  <2>1. R = x2
    BY <1>5, <1>18 DEF x1
  <2>2. WritesRegister(lanes[2].ins) => Len(x1.freeList) >= 1
    BY <1>9, <1>10, <1>12, <1>18
  <2>3. /\ RenameOK(x1) /\ lanes[2] \in LaneSet
    BY <1>11, <1>12, <1>18
  <2>4. /\ \A p \in Physical : (\A k \in 1 .. Len(x1.freeList) : x1.freeList[k] # p) =>
              /\ x2.prf[p] = x1.prf[p]
              /\ \A k \in 1 .. Len(x2.freeList) : x2.freeList[k] # p
        /\ ~WritesRegister(lanes[2].ins) => x2.rat = x1.rat
        /\ \E b \in BundleSet :
              /\ x2.out = Append(x1.out, b)
              /\ b.lane = lanes[2]
              /\ b.rs1 = x1.rat[lanes[2].ins.rs1] /\ b.rs2 = x1.rat[lanes[2].ins.rs2]
              /\ WritesRegister(lanes[2].ins) => /\ b.prd = Head(x1.freeList)
                                                 /\ b.old = x1.rat[lanes[2].ins.rd]
    BY <2>2, <2>3, RenameKeeps
  <2> HIDE DEF x2
  <2>5. PICK b2 \in BundleSet :
              /\ x2.out = Append(x1.out, b2)
              /\ b2.lane = lanes[2]
              /\ b2.rs1 = x1.rat[lanes[2].ins.rs1] /\ b2.rs2 = x1.rat[lanes[2].ins.rs2]
              /\ WritesRegister(lanes[2].ins) => /\ b2.prd = Head(x1.freeList)
                                                 /\ b2.old = x1.rat[lanes[2].ins.rd]
    BY <2>4
  <2>6. R.out = <<b1, b2>>
    <3>1. R.out = Append(<<b1>>, b2)
      BY <1>15, <2>1, <2>5
    <3>2. Append(<<b1>>, b2) = <<b1, b2>>
      BY PairOf
    <3> QED
      BY <3>1, <3>2, Zenon
  <2> DEFINE s1 == Dispatch(R, s0, b1)
  <2>7. /\ Dispatched(R) = Dispatch(R, s1, b2)
        /\ WritesRegister(lanes[2].ins) => Accepts(s1) /\ lanes[1].ins.op \notin BranchOps
    BY <1>6, <1>7, <1>8, <1>18, <2>6
  <2>8. lanes[1].ins.op \in BranchOps => R.rat = x1.rat
    BY <2>1, <2>4, <2>7
  <2>9. \A p \in Physical : (\A k \in 1 .. Len(x0.freeList) : x0.freeList[k] # p) =>
                               (R.prf[p].ready <=> x0.prf[p].ready)
    BY <1>2, <1>13, <2>1, <2>4
  <2>10. Consistent(x1, s1)
    BY <1>6, <1>16, <2>8, <2>9
  <2>11. DispatchOK(s1, 1)
    BY <1>4, <1>6, DispatchTyped
  <2> HIDE DEF s1
  <2>12. WritesRegister(lanes[2].ins) => ~s1.halt /\ ~Full(s1.rob) /\ ~IQFull(s1.iq)
    BY <2>7 DEF Accepts
  <2>13. \A p \in Physical : (\A k \in 1 .. Len(x1.freeList) : x1.freeList[k] # p) =>
                                (R.prf[p].ready <=> x1.prf[p].ready)
    BY <2>1, <2>4
  <2>14. R.rat = Rename(x1, lanes[2]).rat
    BY <2>1 DEF x2
  <2>15. Consistent(Rename(x1, lanes[2]), Dispatch(R, s1, b2))
    BY <1>6, <2>2, <2>3, <2>5, <2>10, <2>11, <2>12, <2>13, <2>14, LaneEnters
  <2> QED
    BY <2>1, <2>7, <2>15 DEF x2, R, lanes
<1> QED
  BY <1>1, <1>17, <1>18

-----------------------------------------------------------------------------
(* The stages and the renaming. *)

LEMMA Unwoken ==
    ASSUME NEW o, NEW p, NEW v, ~Waked(o, p, v).ready
    PROVE  ~o.ready /\ Waked(o, p, v) = o /\ o.reg # p
BY DEF Waked

(* An instruction that writes a register executes. *)
LEMMA WriterExecutes ==
    ASSUME MachineOK, RenamingOK, NEW i \in IQSlot, iq[i].valid, WritesRegister(iq[i].ins),
           NEW v \in Word
    PROVE  /\ \E m : Mapped(m, Complete(rob, iq[i].rob), rat, freeList,
                            [prf EXCEPT ![iq[i].prd] = [ready |-> TRUE, value |-> v]])
           /\ Supplied(Wakeup(RemoveSlot(iq, i), iq[i].prd, v), Complete(rob, iq[i].rob))
<1> DEFINE s == iq[i].rob
           p == iq[i].prd
           file == [prf EXCEPT ![p] = [ready |-> TRUE, value |-> v]]
           c == Complete(rob, s)
           q == RemoveSlot(iq, i)
           t == Wakeup(q, p, v)
<1>1. /\ s \in Index /\ Ring(rob) /\ InWindow(rob, s) /\ Linked(iq, rob)
      /\ rob.slot[s].data.ins = iq[i].ins /\ iq[i] \in EntrySet
  BY IssuedInstruction DEF MachineOK
<1>2. Writes(rob, s) /\ Prd(rob, s) = p
  BY <1>1 DEF Writes, Prd, Linked, Describes
<1>3. p \in Physical
  BY <1>1, EntryFields
<1>4. PICK m : Mapped(m, rob, rat, freeList, prf)
  BY DEF RenamingOK
<1>5. \A x \in Physical : file[x].ready <=> prf[x].ready \/ (Writes(rob, s) /\ x = Prd(rob, s))
  <2>1. prf \in [Physical -> Cell]
    BY DEF MachineOK
  <2> QED
    BY <1>2, <1>3, <2>1
<1> HIDE DEF file, s, p
<1>6. Mapped(m, c, rat, freeList, file)
  BY <1>1, <1>4, <1>5, MappedCompletes
<1>7. Linked(q, c)
  BY ExecutedEntry DEF s
<1>8. \A k \in IQSlot : q[k].valid => k # i /\ q[k] = iq[k] /\ iq[k].valid
  BY <1>1 DEF RemoveSlot, FreeSlot, Linked
<1> HIDE DEF q, c
<1>9. \A k \in IQSlot : /\ t[k].valid <=> q[k].valid
                        /\ q[k].valid => /\ t[k].rob = q[k].rob
                                         /\ t[k].op1 = Waked(q[k].op1, p, v)
                                         /\ t[k].op2 = Waked(q[k].op2, p, v)
  BY <1>3, <1>7, WakeupEntries
<1> HIDE DEF t
<1>10. \A k \in IQSlot : t[k].valid =>
          /\ iq[k].valid /\ t[k].rob = iq[k].rob
          /\ ~t[k].op1.ready => /\ ~iq[k].op1.ready /\ t[k].op1.reg = iq[k].op1.reg
                                /\ Writes(rob, s) => t[k].op1.reg # Prd(rob, s)
          /\ ~t[k].op2.ready => /\ ~iq[k].op2.ready /\ t[k].op2.reg = iq[k].op2.reg
                                /\ Writes(rob, s) => t[k].op2.reg # Prd(rob, s)
  BY <1>2, <1>8, <1>9, Unwoken
<1>11. Supplied(iq, rob)
  BY DEF RenamingOK
<1>12. Supplied(t, Complete(rob, s))
  BY <1>1, <1>10, <1>11, SuppliedCompletes
<1> QED
  BY <1>6, <1>12 DEF c, file, t, q, s, p

(* A store or a branch executes. *)
LEMMA NonWriterExecutes ==
    ASSUME MachineOK, RenamingOK, NEW i \in IQSlot, iq[i].valid, ~WritesRegister(iq[i].ins)
    PROVE  /\ \A m : Mapped(m, rob, rat, freeList, prf) =>
                        Mapped(m, Complete(rob, iq[i].rob), rat, freeList, prf)
           /\ Supplied(RemoveSlot(iq, i), Complete(rob, iq[i].rob))
<1> DEFINE s == iq[i].rob
           q == RemoveSlot(iq, i)
<1>1. /\ s \in Index /\ Ring(rob) /\ InWindow(rob, s) /\ Linked(iq, rob)
      /\ rob.slot[s].data.ins = iq[i].ins
  BY IssuedInstruction DEF MachineOK
<1>2. ~Writes(rob, s)
  BY <1>1 DEF Writes
<1>3. \A k \in IQSlot : q[k].valid => q[k] = iq[k] /\ iq[k].valid
  BY <1>1 DEF RemoveSlot, FreeSlot, Linked
<1> HIDE DEF s, q
<1>4. \A m : Mapped(m, rob, rat, freeList, prf) =>
                Mapped(m, Complete(rob, s), rat, freeList, prf)
  <2> SUFFICES ASSUME NEW m, Mapped(m, rob, rat, freeList, prf)
               PROVE  Mapped(m, Complete(rob, s), rat, freeList, prf)
    OBVIOUS
  <2> QED
    BY <1>1, <1>2, MappedCompletes
<1>5. \A k \in IQSlot : q[k].valid =>
         /\ iq[k].valid /\ q[k].rob = iq[k].rob
         /\ ~q[k].op1.ready => /\ ~iq[k].op1.ready /\ q[k].op1.reg = iq[k].op1.reg
                               /\ Writes(rob, s) => q[k].op1.reg # Prd(rob, s)
         /\ ~q[k].op2.ready => /\ ~iq[k].op2.ready /\ q[k].op2.reg = iq[k].op2.reg
                               /\ Writes(rob, s) => q[k].op2.reg # Prd(rob, s)
  BY <1>2, <1>3
<1>6. Supplied(iq, rob)
  BY DEF RenamingOK
<1>7. Supplied(q, Complete(rob, s))
  BY <1>1, <1>5, <1>6, SuppliedCompletes
<1> QED
  BY <1>4, <1>7 DEF s, q

LEMMA RenamingUntouched ==
    ASSUME RenamingOK, UNCHANGED <<rob, iq, prf, rat, freeList>>
    PROVE  RenamingOK'
<1>1. PICK m : Mapped(m, rob, rat, freeList, prf)
  BY DEF RenamingOK
<1>2. Supplied(iq, rob)
  BY DEF RenamingOK
<1>3. rob' = rob /\ iq' = iq /\ prf' = prf /\ rat' = rat /\ freeList' = freeList
  OBVIOUS
<1>4. Mapped(m, rob', rat', freeList', prf') /\ Supplied(iq', rob')
  BY <1>1, <1>2, <1>3, Zenon
<1> QED
  BY <1>4 DEF RenamingOK

LEMMA WriterStages ==
    ASSUME MachineOK, RenamingOK, ExecuteAlu \/ ExecuteLoad
    PROVE  RenamingOK'
<1>1. PICK i \in IQSlot, v \in Word :
         /\ iq[i].valid /\ WritesRegister(iq[i].ins)
         /\ prf' = [prf EXCEPT ![iq[i].prd] = [ready |-> TRUE, value |-> v]]
         /\ iq' = Wakeup(RemoveSlot(iq, i), iq[i].prd, v)
         /\ rob' = Complete(rob, iq[i].rob)
         /\ rat' = rat /\ freeList' = freeList
  <2>1. CASE ExecuteAlu
    <3>1. PICK i \in FirstSlot(ReadyAlus) :
             LET e == iq[i]
                 result == AluResult(e.ins, e.op1.value, e.op2.value)
             IN  /\ prf' = [prf EXCEPT ![e.prd] = [ready |-> TRUE, value |-> result]]
                 /\ iq' = Wakeup(RemoveSlot(iq, i), e.prd, result)
                 /\ rob' = Complete(rob, e.rob)
                 /\ rat' = rat /\ freeList' = freeList
      BY <2>1 DEF ExecuteAlu, renaming
    <3>2. i \in IQSlot /\ iq[i].valid /\ iq[i].ins.op \in AluOps
      BY DEF FirstSlot, ReadyAlus, Ready
    <3>3. iq[i] \in EntrySet
      BY <3>2, IssuedInstruction
    <3>4. AluResult(iq[i].ins, iq[i].op1.value, iq[i].op2.value) \in Word
      BY <3>2, <3>3, EntryFields, AluTyped
    <3>5. WritesRegister(iq[i].ins)
      BY <3>2 DEF WritesRegister
    <3> QED
      BY <3>1, <3>2, <3>4, <3>5
  <2>2. CASE ExecuteLoad
    <3>1. PICK i \in FirstToProceed :
             LET e == iq[i]
                 found == LoadResult(Addressed(i), e.rob)
                 value == IF found.hit THEN found.data ELSE Meaning!ReadData(dmem, Address(e))
             IN  /\ e.ins.op = "LW"
                 /\ prf' = [prf EXCEPT ![e.prd] = [ready |-> TRUE, value |-> value]]
                 /\ iq' = Wakeup(RemoveSlot(iq, i), e.prd, value)
                 /\ rob' = Complete(rob, e.rob)
                 /\ rat' = rat /\ freeList' = freeList
      BY <2>2 DEF ExecuteLoad, renaming
    <3> DEFINE found == LoadResult(Addressed(i), iq[i].rob)
               v == IF found.hit THEN found.data ELSE Meaning!ReadData(dmem, Address(iq[i]))
    <3>2. i \in IQSlot /\ iq[i].valid
      BY ProceedingSlot
    <3>3. Addressed(i) \in Seq(LoadStoreSet)
      BY <3>2, AddressedEntries
    <3>4. v \in Word
      <4>1. found.hit => found.data \in Word
        BY <3>3, ForwardedWord
      <4>2. Meaning!ReadData(dmem, Address(iq[i])) \in Word
        BY ReadTyped DEF MachineOK
      <4> QED
        BY <4>1, <4>2
    <3>5. WritesRegister(iq[i].ins)
      BY <3>1 DEF WritesRegister
    <3> QED
      BY <3>1, <3>2, <3>4, <3>5
  <2> QED
    BY <2>1, <2>2
<1>2. /\ \E m : Mapped(m, Complete(rob, iq[i].rob), rat, freeList,
                       [prf EXCEPT ![iq[i].prd] = [ready |-> TRUE, value |-> v]])
      /\ Supplied(Wakeup(RemoveSlot(iq, i), iq[i].prd, v), Complete(rob, iq[i].rob))
  BY <1>1, WriterExecutes
<1>3. PICK m : Mapped(m, Complete(rob, iq[i].rob), rat, freeList,
                      [prf EXCEPT ![iq[i].prd] = [ready |-> TRUE, value |-> v]])
  BY <1>2
<1>4. Mapped(m, rob', rat', freeList', prf') /\ Supplied(iq', rob')
  BY <1>1, <1>2, <1>3, Zenon
<1> QED
  BY <1>4 DEF RenamingOK

LEMMA NonWriterStages ==
    ASSUME MachineOK, RenamingOK, ExecuteStore \/ BranchAsPredicted
    PROVE  RenamingOK'
<1>1. PICK i \in IQSlot : /\ iq[i].valid /\ ~WritesRegister(iq[i].ins)
                          /\ iq' = RemoveSlot(iq, i)
                          /\ rob' = Complete(rob, iq[i].rob)
                          /\ prf' = prf /\ rat' = rat /\ freeList' = freeList
  <2>1. CASE ExecuteStore
    <3>1. PICK i \in FirstToProceed :
             /\ iq[i].ins.op = "SW" /\ iq' = RemoveSlot(iq, i)
             /\ rob' = Complete(rob, iq[i].rob)
             /\ prf' = prf /\ rat' = rat /\ freeList' = freeList
      BY <2>1 DEF ExecuteStore, renaming
    <3>2. i \in IQSlot /\ iq[i].valid
      BY ProceedingSlot
    <3> QED
      BY <3>1, <3>2 DEF WritesRegister, AluOps, TwoSourceAlu
  <2>2. CASE BranchAsPredicted
    <3>1. PICK i \in FirstSlot(ReadyBranches) :
             /\ iq' = RemoveSlot(iq, i)
             /\ rob' = Complete(rob, iq[i].rob)
             /\ prf' = prf /\ rat' = rat /\ freeList' = freeList
      BY <2>2 DEF BranchAsPredicted, renaming
    <3>2. i \in IQSlot /\ iq[i].valid /\ iq[i].ins.op \in BranchOps
      BY ReadyBranchSlot
    <3> QED
      BY <3>1, <3>2 DEF WritesRegister, AluOps, TwoSourceAlu, BranchOps
  <2> QED
    BY <2>1, <2>2
<1>2. PICK m : Mapped(m, rob, rat, freeList, prf)
  BY DEF RenamingOK
<1>3. /\ Mapped(m, Complete(rob, iq[i].rob), rat, freeList, prf)
      /\ Supplied(RemoveSlot(iq, i), Complete(rob, iq[i].rob))
  BY <1>1, <1>2, NonWriterExecutes
<1>4. Mapped(m, rob', rat', freeList', prf') /\ Supplied(iq', rob')
  BY <1>1, <1>3, Zenon
<1> QED
  BY <1>4 DEF RenamingOK

LEMMA RecoveryRenaming ==
    ASSUME MachineOK, RenamingOK, BranchMispredicted
    PROVE  RenamingOK'
<1>1. PICK i \in FirstSlot(ReadyBranches) :
         LET e == iq[i]
             completed == Complete(rob, e.rob)
         IN  /\ rob' = SquashYoungerThan(completed, e.rob)
             /\ rat' = rob.slot[e.rob].data.cp
             /\ freeList' = SquashedRegisters(SquashedWriters(completed, e.rob)) \o freeList
             /\ iq' = IQSquash(RemoveSlot(iq, i), Younger(completed, e.rob))
             /\ prf' = prf
  BY DEF BranchMispredicted
<1> DEFINE b == iq[i].rob
           c == Complete(rob, b)
           q == RemoveSlot(iq, i)
<1>2. i \in IQSlot /\ iq[i].valid /\ iq[i].ins.op \in BranchOps
  BY ReadyBranchSlot
<1>3. /\ b \in Index /\ Ring(rob) /\ InWindow(rob, b)
      /\ rob.slot[b].data.ins.op \in BranchOps
  BY <1>2, IssuedInstruction
<1>4. ~WritesRegister(iq[i].ins)
  BY <1>2 DEF WritesRegister, AluOps, TwoSourceAlu, BranchOps
<1>5. PICK m : Mapped(m, rob, rat, freeList, prf)
  BY DEF RenamingOK
<1>6. Mapped(m, c, rat, freeList, prf) /\ Supplied(q, c)
  BY <1>2, <1>4, <1>5, NonWriterExecutes
<1>7. /\ Ring(c) /\ InWindow(c, b) /\ c.slot[b].data = rob.slot[b].data
  BY <1>3, CompleteRing
<1>8. Linked(q, c) /\ freeList \in Seq(Physical)
  BY <1>2, ExecutedEntry DEF MachineOK
<1>9. /\ rob' = SquashYoungerThan(c, b) /\ rat' = c.slot[b].data.cp
      /\ freeList' = SquashedRegisters(SquashedWriters(c, b)) \o freeList
      /\ iq' = IQSquash(q, Younger(c, b)) /\ prf' = prf
  BY <1>1, <1>7
<1>10. c.slot[b].data.ins.op \in BranchOps
  BY <1>3, <1>7
<1> HIDE DEF b, c, q
<1>11. Mapped([k \in 0 .. Position(c, b) + 1 |-> m[k]], SquashYoungerThan(c, b),
              c.slot[b].data.cp, SquashedRegisters(SquashedWriters(c, b)) \o freeList, prf)
  BY <1>3, <1>6, <1>7, <1>8, <1>10, MappedSquashed
<1>12. Supplied(IQSquash(q, Younger(c, b)), SquashYoungerThan(c, b))
  BY <1>3, <1>6, <1>7, <1>8, SuppliedSquashed
<1>13. /\ Mapped([k \in 0 .. Position(c, b) + 1 |-> m[k]], rob', rat', freeList', prf')
       /\ Supplied(iq', rob')
  BY <1>9, <1>11, <1>12, Zenon
<1> QED
  BY <1>13 DEF RenamingOK

(* One instruction retires, or none. *)
RetireRenaming(s) == /\ \E m : Mapped(m, s.rob, rat, s.free, prf)
                     /\ Supplied(iq, s.rob)

LEMMA HeadRenaming ==
    ASSUME NEW n \in Nat, NEW s, RetireOK(s, n), RetireRenaming(s)
    PROVE  RetireRenaming(RetireHead(s))
<1>1. CASE s.halted \/ ~CanCommit(s.rob)
  <2> DEFINE t == RetireHead(s)
  <2>1. t = s
    BY <1>1, RetireStops
  <2>2. RetireRenaming(t)
    <3> HIDE DEF t
    <3> QED
      BY <2>1, Zenon
  <2> QED
    BY <2>2
<1>2. CASE ~(s.halted \/ ~CanCommit(s.rob))
  <2> DEFINE r == s.rob
             f == s.free
             d == r.slot[r.head].data
             t == RetireHead(s)
  <2>1. /\ t.rob = Commit(r)
        /\ t.free = IF WritesRegister(d.ins) THEN Append(f, d.old) ELSE f
    BY <1>2 DEF RetireHead
  <2>2. /\ CanCommit(r) /\ Ring(r) /\ Linked(iq, r) /\ f \in Seq(Physical) /\ Supplied(iq, r)
    BY <1>2 DEF RetireOK, RetireRenaming
  <2>3. PICK m : Mapped(m, r, rat, f, prf)
    BY DEF RetireRenaming
  <2>4. d = r.slot[r.head].data
    OBVIOUS
  <2> HIDE DEF r, t, f, d
  <2>5. Mapped([k \in 0 .. r.count - 1 |-> m[k + 1]], Commit(r), rat,
               IF WritesRegister(d.ins) THEN Append(f, d.old) ELSE f, prf)
    BY <2>2, <2>3, <2>4, MappedCommits
  <2>6. Supplied(iq, Commit(r))
    BY <2>2, SuppliedCommits
  <2>7. Mapped([k \in 0 .. r.count - 1 |-> m[k + 1]], t.rob, rat, t.free, prf)
        /\ Supplied(iq, t.rob)
    BY <2>1, <2>5, <2>6, Zenon
  <2> QED
    BY <2>7 DEF RetireRenaming, t
<1> QED
  BY <1>1, <1>2

LEMMA CommitRenaming ==
    ASSUME MachineOK, RenamingOK, CommitStage
    PROVE  RenamingOK'
<1> DEFINE first == [rob |-> rob, arf |-> arf, free |-> freeList,
                     checkpoints |-> checkpoints, lsq |-> lsq, buffer |-> storeBuffer,
                     stores |-> 0, halted |-> FALSE]
           second == RetireHead(first)
           retired == RetireHead(second)
<1>1. prf \in [Physical -> Cell]
  BY DEF MachineOK
<1>2. RetireOK(first, 0) /\ RetireRenaming(first)
  BY DEF MachineOK, RetireOK, RenamingOK, RetireRenaming
<1>3. /\ rob' = retired.rob /\ freeList' = retired.free
      /\ rat' = rat /\ prf' = prf /\ iq' = iq
  BY DEF CommitStage
<1> HIDE DEF first
<1>4. RetireOK(second, 1) /\ RetireRenaming(second)
  BY <1>1, <1>2, RetireHeadTyped, HeadRenaming
<1> HIDE DEF second
<1>5. RetireRenaming(retired)
  BY <1>4, HeadRenaming
<1> HIDE DEF retired
<1>6. PICK m : Mapped(m, retired.rob, rat, retired.free, prf)
  BY <1>5 DEF RetireRenaming
<1>7. Supplied(iq, retired.rob)
  BY <1>5 DEF RetireRenaming
<1>8. Mapped(m, rob', rat', freeList', prf') /\ Supplied(iq', rob')
  BY <1>3, <1>6, <1>7, Zenon
<1> QED
  BY <1>8 DEF RenamingOK

LEMMA RenameRenaming ==
    ASSUME MachineOK, RenamingOK, RenameAndDispatch, WritersDispatched, NoWriterBehindBranch
    PROVE  RenamingOK'
<1> DEFINE x == Renamed(Lanes)
           s == Dispatched(x)
<1>1. BundleRenames
  BY DEF RenameAndDispatch, BundleRenames
<1>2. Consistent(x, s)
  BY <1>1, BundleEnters
<1>3. /\ rat' = x.rat /\ freeList' = x.freeList /\ prf' = x.prf
      /\ rob' = s.rob /\ iq' = s.iq
  BY DEF RenameAndDispatch
<1> HIDE DEF x, s
<1>4. PICK m : Mapped(m, s.rob, x.rat, x.freeList, x.prf)
  BY <1>2 DEF Consistent
<1>5. Supplied(s.iq, s.rob)
  BY <1>2 DEF Consistent
<1>6. Mapped(m, rob', rat', freeList', prf') /\ Supplied(iq', rob')
  BY <1>3, <1>4, <1>5, Zenon
<1> QED
  BY <1>6 DEF RenamingOK

LEMMA RenamingInit == Init => RenamingOK
<1> SUFFICES ASSUME Init PROVE RenamingOK
  OBVIOUS
<1>1. /\ rob.count = 0
      /\ rat = [a \in Register |-> a]
      /\ prf = [p \in Physical |-> [ready |-> p \in Register, value |-> 0]]
      /\ freeList = [k \in 1 .. PRFCount - NumRegisters |-> NumRegisters + k - 1]
      /\ iq = [i \in IQSlot |-> FreeSlot]
  BY FreeListAssumption DEF Init, ResetRob, ResetIQ, ResetFreeList
<1>2. MachineOK
  BY MachineInit
<1>3. \A i \in Index : ~InWindow(rob, i) /\ ~Writes(rob, i)
  <2>1. Ring(rob)
    BY <1>2 DEF MachineOK
  <2>2. \A i \in Index : Position(rob, i) \in Nat
    BY <2>1, RingPositions
  <2> QED
    BY <1>1, <2>2 DEF InWindow, Writes
<1> DEFINE m == [k \in 0 .. 0 |-> rat]
<1>4. m[0] = rat /\ \A a \in Register : m[0][a] = a
  BY <1>1
<1>5. History(m, rob)
  BY <1>1, <1>2, <1>3 DEF History, MachineOK
<1>6. /\ NumRegisters \in Nat \ {0} /\ PRFCount \in Nat /\ PRFCount > NumRegisters
  BY SizeAssumption
<1>7. /\ Len(freeList) = PRFCount - NumRegisters
      /\ \A k \in 1 .. Len(freeList) : freeList[k] = NumRegisters + k - 1
  <2> DEFINE n == PRFCount - NumRegisters
             v(k) == NumRegisters + k - 1
  <2>1. n \in Nat
    BY <1>6
  <2>2. freeList = [k \in 1 .. n |-> v(k)]
    BY <1>1
  <2> HIDE DEF n, v
  <2>3. Len(freeList) = n /\ \A k \in 1 .. n : freeList[k] = v(k)
    BY <2>1, <2>2
  <2> QED
    BY <2>3 DEF n, v
<1>8. Register = 0 .. NumRegisters - 1 /\ Physical = 0 .. PRFCount - 1
  BY DEF Register, Physical
<1> HIDE DEF m
<1>9. Partitioned(m[0], rob, freeList)
  <2>1. \A j, k \in 1 .. Len(freeList) : freeList[j] = freeList[k] => j = k
    BY <1>6, <1>7
  <2>2. \A k \in 1 .. Len(freeList) : \A a \in Register : freeList[k] # m[0][a]
    BY <1>4, <1>6, <1>7, <1>8
  <2>3. ASSUME NEW p \in Physical
        PROVE  (\E k \in 1 .. Len(freeList) : freeList[k] = p) \/ \E a \in Register : m[0][a] = p
    <3>1. CASE p < NumRegisters
      BY <1>4, <1>6, <1>8, <3>1
    <3>2. CASE p >= NumRegisters
      <4> DEFINE k == p - NumRegisters + 1
      <4>1. k \in 1 .. Len(freeList) /\ NumRegisters + k - 1 = p
        BY <1>6, <1>7, <1>8, <3>2
      <4> QED
        BY <1>7, <4>1
    <3> QED
      BY <1>6, <1>8, <3>1, <3>2
  <2> QED
    BY <1>3, <1>4, <2>1, <2>2, <2>3 DEF Partitioned
<1>10. Computed(m[0], rob, prf)
  BY <1>1, <1>3, <1>4, ZeroTyped DEF Computed
<1>11. Mapped(m, rob, rat, freeList, prf)
  BY <1>1, <1>4, <1>5, <1>9, <1>10 DEF Mapped
<1>12. Supplied(iq, rob)
  BY <1>1 DEF Supplied, FreeSlot
<1> QED
  BY <1>11, <1>12 DEF RenamingOK

LEMMA RenamingStep ==
    MachineOK /\ RenamingOK /\ WritersDispatched /\ NoWriterBehindBranch /\ [Next]_vars =>
        RenamingOK'
<1> SUFFICES ASSUME MachineOK, RenamingOK, WritersDispatched, NoWriterBehindBranch, [Next]_vars
             PROVE  RenamingOK'
  OBVIOUS
<1>1. CASE CommitStage
  BY <1>1, CommitRenaming
<1>2. CASE ExecuteAlu \/ ExecuteLoad
  BY <1>2, WriterStages
<1>3. CASE ExecuteStore \/ BranchAsPredicted
  BY <1>3, NonWriterStages
<1>4. CASE BranchMispredicted
  BY <1>4, RecoveryRenaming
<1>5. CASE RenameAndDispatch
  BY <1>5, RenameRenaming
<1>6. CASE MemoryIdle
  BY <1>6, RenamingUntouched DEF MemoryIdle, renaming
<1>7. CASE NoBranchReady \/ AluIdle \/ RenameIdle
  BY <1>7, RenamingUntouched DEF NoBranchReady, AluIdle, RenameIdle, renaming
<1>8. CASE BundleNotRenamed \/ Fetch
  BY <1>8, RenamingUntouched DEF BundleNotRenamed, Fetch, renaming
<1>9. CASE UNCHANGED vars
  BY <1>9, RenamingUntouched DEF vars, renaming
<1> QED
  BY <1>1, <1>2, <1>3, <1>4, <1>5, <1>6, <1>7, <1>8, <1>9 DEF Next

(* The RAT is what the instructions in flight have made of the committed    *)
(* mapping, every physical register has one owner, a destination is ready   *)
(* when its instruction has executed, and an operand in the issue queue     *)
(* that is not ready has an older instruction to wait for.                  *)
THEOREM RenamingHolds ==
    Spec /\ []WritersDispatched /\ []NoWriterBehindBranch => []RenamingOK
<1>1. MachineOK /\ RenamingOK /\ WritersDispatched /\ NoWriterBehindBranch /\ [Next]_vars =>
         RenamingOK'
  BY RenamingStep
<1> QED
  BY <1>1, MachineHolds, RenamingInit, PTL DEF Spec

(* No instruction waits for a result nobody will produce: an operand that   *)
(* is not ready is the destination of an older instruction in flight that   *)
(* has not executed.                                                        *)
THEOREM EveryWaiterHasProducer ==
    Spec /\ []WritersDispatched /\ []NoWriterBehindBranch => []WaitersHaveProducers
<1>1. MachineOK /\ RenamingOK => WaitersHaveProducers
  BY WaitersFollow
<1> QED
  BY <1>1, MachineHolds, RenamingHolds, PTL

(* The RAT maps a register to the destination of its youngest writer in     *)
(* flight, also after a recovery from a branch's checkpoint.                *)
THEOREM RatMapsYoungestWriter ==
    Spec /\ []WritersDispatched /\ []NoWriterBehindBranch => []RatFollowsWindow
<1>1. MachineOK /\ RenamingOK => RatFollowsWindow
  BY RatFollows
<1> QED
  BY <1>1, MachineHolds, RenamingHolds, PTL

(* A physical register is free, committed or the destination of one         *)
(* instruction in flight, and only one of them.                             *)
THEOREM RegistersHaveOneOwner ==
    Spec /\ []WritersDispatched /\ []NoWriterBehindBranch => []RegistersPartitioned
<1>1. MachineOK /\ RenamingOK => RegistersPartitioned
  BY PartitionFollows
<1> QED
  BY <1>1, MachineHolds, RenamingHolds, PTL

(* Renaming, commit and recovery lose no physical register. *)
THEOREM RegistersReturn ==
    Spec /\ []WritersDispatched /\ []NoWriterBehindBranch => []NoRegisterLeaked
<1>1. MachineOK /\ RenamingOK => NoRegisterLeaked
  BY NothingLeaks
<1> QED
  BY <1>1, MachineHolds, RenamingHolds, PTL

-----------------------------------------------------------------------------
(* Program order.  d is an instruction in flight: what may come behind it,  *)
(* and whether pc is such a place.                                          *)
Behind(d) == (d.pc + InsnBytes) % PcMod

Follows(d, pc) == \/ pc = Behind(d)
                  \/ d.ins.op \in BranchOps /\ pc = Target(d.ins, d.pc)

Chained(r) == \A i, j \in Index :
    InWindow(r, i) /\ InWindow(r, j) /\ Position(r, j) = Position(r, i) + 1 =>
        Follows(r.slot[i].data, r.slot[j].data.pc)

(* The youngest instruction in flight leads to pc. *)
LeadsTo(r, pc) == \A i \in Index :
    InWindow(r, i) /\ Position(r, i) = r.count - 1 => Follows(r.slot[i].data, pc)

FetchedFrom(program, r) == \A i \in Index :
    InWindow(r, i) => r.slot[i].data.ins = Meaning!InstructionAt(program, r.slot[i].data.pc)

(* The instructions in flight are a path through the program that goes on   *)
(* at pc, or has come to a HALT.                                            *)
Path(program, r, pc, stopped) ==
    Chained(r) /\ FetchedFrom(program, r) /\ (stopped \/ LeadsTo(r, pc))

(* What the predictor has a tag of is a branch, and the target is its own. *)
PredictsBranches(program, bp) ==
    \A n \in 0 .. BPTableSize - 1 : bp[n].tag # NoTag =>
        LET ins == Meaning!InstructionAt(program, bp[n].tag)
        IN  ins.op \in BranchOps /\ bp[n].target = Target(ins, bp[n].tag)

(* Where the next bundle to be renamed comes from. *)
Coming == IF redirect.on THEN redirect.pc
          ELSE IF fd.valid /\ stage # "fetch" THEN fd.pc ELSE fetchPc

OrderOK == /\ Path(rom, rob, Coming, haltDispatched)
           /\ PredictsBranches(rom, predictor)
           /\ fd.valid => fetchPc = (fd.pc + FetchWidth * InsnBytes) % PcMod

LEMMA PathCompletes ==
    ASSUME NEW p, NEW r, Ring(r), NEW pc, NEW stopped, Path(p, r, pc, stopped),
           NEW i \in Index, InWindow(r, i)
    PROVE  Path(p, Complete(r, i), pc, stopped)
<1> DEFINE s == Complete(r, i)
<1>1. /\ s.count = r.count
      /\ \A j \in Index : /\ Position(s, j) = Position(r, j)
                          /\ InWindow(s, j) <=> InWindow(r, j)
                          /\ s.slot[j].data = r.slot[j].data
  BY CompleteRing
<1> HIDE DEF s
<1>2. Chained(s) /\ FetchedFrom(p, s)
  BY <1>1 DEF Path, Chained, FetchedFrom
<1>3. LeadsTo(r, pc) => LeadsTo(s, pc)
  BY <1>1 DEF LeadsTo
<1> QED
  BY <1>2, <1>3 DEF Path, s

LEMMA PathCommits ==
    ASSUME NEW p, NEW r, Ring(r), CanCommit(r), NEW pc, NEW stopped, Path(p, r, pc, stopped)
    PROVE  Path(p, Commit(r), pc, stopped)
<1> DEFINE s == Commit(r)
<1>1. /\ s.count = r.count - 1 /\ Ring(s)
      /\ \A j \in Index : /\ InWindow(s, j) <=> InWindow(r, j) /\ j # r.head
                          /\ j # r.head => /\ Position(s, j) = Position(r, j) - 1
                                           /\ s.slot[j] = r.slot[j]
  BY CommitRing
<1>2. r.count \in Nat /\ \A j \in Index : Position(r, j) \in Nat
  BY RingPositions
<1> HIDE DEF s
<1>3. Chained(s)
  <2> SUFFICES ASSUME NEW i \in Index, NEW j \in Index, InWindow(s, i), InWindow(s, j),
                      Position(s, j) = Position(s, i) + 1
               PROVE  Follows(s.slot[i].data, s.slot[j].data.pc)
    BY DEF Chained
  <2>1. /\ InWindow(r, i) /\ InWindow(r, j)
        /\ s.slot[i] = r.slot[i] /\ s.slot[j] = r.slot[j]
        /\ Position(r, j) = Position(r, i) + 1
    BY <1>1, <1>2
  <2> QED
    BY <2>1 DEF Path, Chained
<1>4. FetchedFrom(p, s)
  BY <1>1 DEF Path, FetchedFrom
<1>5. LeadsTo(r, pc) => LeadsTo(s, pc)
  <2> SUFFICES ASSUME LeadsTo(r, pc), NEW i \in Index, InWindow(s, i),
                      Position(s, i) = s.count - 1
               PROVE  Follows(s.slot[i].data, pc)
    BY DEF LeadsTo
  <2>1. InWindow(r, i) /\ s.slot[i] = r.slot[i] /\ Position(r, i) = r.count - 1
    BY <1>1, <1>2
  <2> QED
    BY <2>1 DEF LeadsTo
<1> QED
  BY <1>3, <1>4, <1>5 DEF Path, s

(* Behind a squashed branch the path goes on wherever the branch may go. *)
LEMMA PathSquashed ==
    ASSUME NEW p, NEW r, Ring(r), NEW pc, NEW stopped, Path(p, r, pc, stopped),
           NEW b \in Index, InWindow(r, b), NEW next, Follows(r.slot[b].data, next)
    PROVE  Path(p, SquashYoungerThan(r, b), next, FALSE)
<1> DEFINE s == SquashYoungerThan(r, b)
<1>1. /\ s.count = Position(r, b) + 1 /\ Ring(s)
      /\ \A j \in Index : /\ Position(s, j) = Position(r, j)
                          /\ InWindow(s, j) => InWindow(r, j)
                          /\ InWindow(s, j) => s.slot[j] = r.slot[j]
  BY SquashRing
<1>2. /\ \A j \in Index : Position(r, j) \in Nat
      /\ \A i, j \in Index : Position(r, i) = Position(r, j) => i = j
  BY RingPositions
<1> HIDE DEF s
<1>3. Chained(s)
  BY <1>1 DEF Path, Chained
<1>4. FetchedFrom(p, s)
  BY <1>1 DEF Path, FetchedFrom
<1>5. LeadsTo(s, next)
  <2> SUFFICES ASSUME NEW i \in Index, InWindow(s, i), Position(s, i) = s.count - 1
               PROVE  Follows(s.slot[i].data, next)
    BY DEF LeadsTo
  <2>1. Position(r, i) = Position(r, b) /\ s.slot[i] = r.slot[i]
    BY <1>1, <1>2
  <2>2. i = b
    BY <1>2, <2>1
  <2> QED
    BY <2>1, <2>2
<1> QED
  BY <1>3, <1>4, <1>5 DEF Path, s

(* The next instruction of the path joins it. *)
LEMMA PathAllocated ==
    ASSUME NEW p, NEW r, Ring(r), ~Full(r), NEW d, DataOK(d), Path(p, r, d.pc, FALSE),
           d.ins = Meaning!InstructionAt(p, d.pc), NEW next, Follows(d, next)
    PROVE  Path(p, Allocate(r, d), next, FALSE)
<1> DEFINE s == Allocate(r, d)
<1>1. /\ Ring(s) /\ s.count = r.count + 1
      /\ r.tail \in Index /\ ~InWindow(r, r.tail) /\ Position(r, r.tail) = r.count
      /\ s.slot[r.tail].data = d
      /\ \A j \in Index : /\ Position(s, j) = Position(r, j)
                          /\ InWindow(s, j) <=> InWindow(r, j) \/ j = r.tail
                          /\ j # r.tail => s.slot[j] = r.slot[j]
  BY AllocateRing
<1>2. /\ r.count \in Nat
      /\ \A j \in Index : Position(r, j) \in Nat /\ (InWindow(r, j) <=> Position(r, j) < r.count)
      /\ \A i, j \in Index : Position(r, i) = Position(r, j) => i = j
  BY RingPositions
<1>3. Chained(r) /\ FetchedFrom(p, r) /\ LeadsTo(r, d.pc)
  BY DEF Path
<1> HIDE DEF s
<1>4. Chained(s)
  <2> SUFFICES ASSUME NEW i \in Index, NEW j \in Index, InWindow(s, i), InWindow(s, j),
                      Position(s, j) = Position(s, i) + 1
               PROVE  Follows(s.slot[i].data, s.slot[j].data.pc)
    BY DEF Chained
  <2>1. Position(r, j) = Position(r, i) + 1
    BY <1>1
  <2>2. i # r.tail
    <3>1. Position(r, j) <= r.count
      BY <1>1, <1>2
    <3> QED
      BY <1>1, <1>2, <2>1, <3>1
  <2>3. InWindow(r, i) /\ s.slot[i] = r.slot[i]
    BY <1>1, <2>2
  <2>4. CASE j = r.tail
    <3>1. Position(r, i) = r.count - 1
      BY <1>1, <1>2, <2>1, <2>4
    <3>2. Follows(r.slot[i].data, d.pc)
      BY <1>3, <2>3, <3>1 DEF LeadsTo
    <3> QED
      BY <1>1, <2>3, <2>4, <3>2
  <2>5. CASE j # r.tail
    <3>1. InWindow(r, j) /\ s.slot[j] = r.slot[j]
      BY <1>1, <2>5
    <3> QED
      BY <1>3, <2>1, <2>3, <3>1 DEF Chained
  <2> QED
    BY <2>4, <2>5
<1>5. FetchedFrom(p, s)
  <2> SUFFICES ASSUME NEW i \in Index, InWindow(s, i)
               PROVE  s.slot[i].data.ins = Meaning!InstructionAt(p, s.slot[i].data.pc)
    BY DEF FetchedFrom
  <2>1. CASE i = r.tail
    BY <1>1, <2>1
  <2>2. CASE i # r.tail
    BY <1>1, <1>3, <2>2 DEF FetchedFrom
  <2> QED
    BY <2>1, <2>2
<1>6. LeadsTo(s, next)
  <2> SUFFICES ASSUME NEW i \in Index, InWindow(s, i), Position(s, i) = s.count - 1
               PROVE  Follows(s.slot[i].data, next)
    BY DEF LeadsTo
  <2>1. Position(r, i) = r.count
    BY <1>1, <1>2
  <2>2. i = r.tail
    BY <1>1, <1>2, <2>1
  <2> QED
    BY <1>1, <2>2
<1> QED
  BY <1>4, <1>5, <1>6 DEF Path, s

-----------------------------------------------------------------------------
(* The predictor: an entry is a branch's own, because its tag is a whole    *)
(* PC and the program does not change.                                      *)

LEMMA TableIndex ==
    ASSUME NEW pc \in PcValue
    PROVE  Hash(pc) \in 0 .. BPTableSize - 1 /\ pc # NoTag
<1>1. pc \div 4 \in Int /\ BPTableSize \in Nat \ {0}
  BY SizeAssumption, DivMod DEF PcValue
<1>2. pc # NoTag
  BY DEF PcValue, NoTag
<1> HIDE SizeAssumption
<1> QED
  BY <1>1, <1>2, Remainder DEF Hash

LEMMA PredictedTarget ==
    ASSUME NEW p, NEW bp, PredictsBranches(p, bp), NEW pc \in PcValue, Predict(bp, pc).hit
    PROVE  LET ins == Meaning!InstructionAt(p, pc)
           IN  ins.op \in BranchOps /\ Predict(bp, pc).target = Target(ins, pc)
<1>1. Hash(pc) \in 0 .. BPTableSize - 1 /\ pc # NoTag
  BY TableIndex
<1>2. bp[Hash(pc)].tag = pc /\ Predict(bp, pc).target = bp[Hash(pc)].target
  BY DEF Predict
<1> QED
  BY <1>1, <1>2 DEF PredictsBranches

LEMMA PredictorLearns ==
    ASSUME NEW p, NEW bp \in [0 .. BPTableSize - 1 -> PredictionSet], PredictsBranches(p, bp),
           NEW pc \in PcValue, NEW ins, ins = Meaning!InstructionAt(p, pc),
           ins.op \in BranchOps, NEW taken
    PROVE  PredictsBranches(p, Update(bp, pc, taken, Target(ins, pc)))
<1> DEFINE t == Update(bp, pc, taken, Target(ins, pc))
           e == bp[Hash(pc)]
           d == IF taken
                THEN [counter |-> IF e.counter < 3 THEN e.counter + 1 ELSE 3,
                      tag |-> pc, target |-> Target(ins, pc)]
                ELSE [e EXCEPT !.counter = IF e.counter > 0 THEN e.counter - 1 ELSE 0]
<1>1. Hash(pc) \in 0 .. BPTableSize - 1
  BY TableIndex
<1>2. t = [bp EXCEPT ![Hash(pc)] = d]
  BY DEF Update
<1>3. \/ d.tag = e.tag /\ d.target = e.target
      \/ d.tag = pc /\ d.target = Target(ins, pc)
  <2>1. e \in PredictionSet
    BY <1>1
  <2> HIDE DEF e
  <2> QED
    BY <2>1 DEF PredictionSet
<1> HIDE DEF d, t
<1>4. t[Hash(pc)] = d /\ \A n \in 0 .. BPTableSize - 1 : n # Hash(pc) => t[n] = bp[n]
  BY <1>1, <1>2
<1>5. ASSUME NEW n \in 0 .. BPTableSize - 1, t[n].tag # NoTag
      PROVE  LET i == Meaning!InstructionAt(p, t[n].tag)
             IN  i.op \in BranchOps /\ t[n].target = Target(i, t[n].tag)
  <2>1. CASE t[n].tag = bp[n].tag /\ t[n].target = bp[n].target
    BY <1>5, <2>1 DEF PredictsBranches
  <2>2. CASE t[n].tag = pc /\ t[n].target = Target(ins, pc)
    BY <2>2
  <2>3. t[n] = IF n = Hash(pc) THEN d ELSE bp[n]
    BY <1>4
  <2> QED
    BY <1>3, <2>1, <2>2, <2>3
<1> QED
  BY <1>5 DEF PredictsBranches, t

-----------------------------------------------------------------------------
(* The bundle enters.  A lane that finds the reorder buffer or the issue    *)
(* queue full is lost, and a bundle that finds too few free registers as a  *)
(* whole, because the front end has no stall input: the window is a path    *)
(* through the program as long as that does not happen.                     *)
BundleArrives == stage = "rename" /\ ~redirect.on /\ ~haltDispatched /\ fd.valid

LanesEnter ==
    BundleArrives =>
        /\ CanRename(Lanes)
        /\ \A k \in DOMAIN Lanes : DispatchedBefore(k).halt \/ Accepts(DispatchedBefore(k))

(* One lane: l is the next instruction of the path. *)
LEMMA LanePath ==
    ASSUME NEW p, NEW R, RenameOK(R), NEW b \in BundleSet, NEW n \in Nat, NEW s,
           DispatchOK(s, n), Accepts(s), Path(p, s.rob, b.lane.pc, FALSE),
           b.lane.ins = Meaning!InstructionAt(p, b.lane.pc),
           NEW next, Follows(b.lane, next)
    PROVE  /\ Path(p, Dispatch(R, s, b).rob, next, FALSE)
           /\ Dispatch(R, s, b).halt = (b.lane.ins.op = "HALT")
<1> DEFINE r == s.rob
           d == RobData(R, b)
           a == Allocate(r, d)
           t == Dispatch(R, s, b)
<1>1. /\ t.rob = IF CompletesAtDispatch(b.lane.ins) THEN Complete(a, r.tail) ELSE a
      /\ t.halt = (b.lane.ins.op = "HALT")
  BY DEF Dispatch, Accepts
<1>2. Ring(r) /\ ~Full(r)
  BY DEF DispatchOK, Accepts
<1>3. DataOK(d)
  <2>1. r.tail \in Index
    BY <1>2 DEF Ring, InOrder
  <2> QED
    BY <2>1, DispatchedData
<1>4. d.pc = b.lane.pc /\ d.ins = b.lane.ins
  BY DEF RobData
<1>5. Follows(d, next)
  BY <1>4 DEF Follows, Behind
<1> HIDE DEF t, d, r
<1>6. Path(p, a, next, FALSE)
  <2>1. Path(p, r, d.pc, FALSE)
    BY <1>4 DEF r
  <2> QED
    BY <1>2, <1>3, <1>4, <1>5, <2>1, PathAllocated
<1>7. Ring(a) /\ InWindow(a, r.tail) /\ r.tail \in Index
  BY <1>2, <1>3, AllocateRing
<1> HIDE DEF a
<1>8. Path(p, Complete(a, r.tail), next, FALSE)
  BY <1>6, <1>7, PathCompletes
<1> QED
  BY <1>1, <1>6, <1>8 DEF t

LEMMA LaneThrough ==
    ASSUME NEW x, RenameOK(x), NEW l \in LaneSet, WritesRegister(l.ins) => Len(x.freeList) >= 1
    PROVE  \E b \in BundleSet : Rename(x, l).out = Append(x.out, b) /\ b.lane = l
BY RenameKeeps

LEMMA RenamedLanes ==
    ASSUME MachineOK, CanRename(Lanes)
    PROVE  /\ \E b \in BundleSet : b.lane = Lanes[1] /\ Renamed(Lanes).out[1] = b
           /\ Len(Lanes) = 2 =>
                 \E b \in BundleSet : b.lane = Lanes[2] /\ Renamed(Lanes).out[2] = b
<1> DEFINE x0 == [rat |-> rat, freeList |-> freeList, prf |-> prf, out |-> << >>]
           lanes == Lanes
           R == Renamed(lanes)
<1>1. lanes \in Seq(LaneSet) /\ Len(lanes) \in {1, 2}
  BY LanesTyped
<1>2. RenameOK(x0) /\ x0.out = << >> /\ x0.freeList = freeList /\ Len(freeList) \in Nat
  BY DEF MachineOK, RenameOK
<1>3. /\ Len(lanes) = 1 => R = Rename(x0, lanes[1])
      /\ Len(lanes) = 2 => R = Rename(Rename(x0, lanes[1]), lanes[2])
  BY DEF Renamed, ForEach
<1>4. /\ WritesRegister(lanes[1].ins) => Len(freeList) >= 1
      /\ Len(lanes) = 2 /\ WritesRegister(lanes[2].ins) =>
            Len(freeList) >= IF WritesRegister(lanes[1].ins) THEN 2 ELSE 1
  BY BundleRegisters
<1> HIDE DEF x0, lanes, R
<1>5. lanes[1] \in LaneSet /\ (Len(lanes) = 2 => lanes[2] \in LaneSet)
  BY <1>1
<1> DEFINE x1 == Rename(x0, lanes[1])
<1>6. /\ RenameOK(x1)
      /\ Len(x1.freeList) = IF WritesRegister(lanes[1].ins) THEN Len(freeList) - 1
                            ELSE Len(freeList)
  BY <1>2, <1>4, <1>5, RenameTyped
<1>7. PICK b1 \in BundleSet : x1.out = Append(x0.out, b1) /\ b1.lane = lanes[1]
  BY <1>2, <1>4, <1>5, LaneThrough
<1>8. x1.out = <<b1>>
  BY <1>2, <1>7
<1> HIDE DEF x1
<1>9. CASE Len(lanes) = 1
  <2>1. R.out[1] = b1
    BY <1>3, <1>8, <1>9 DEF x1
  <2> QED
    BY <1>7, <1>9, <2>1 DEF lanes, R
<1>10. CASE Len(lanes) = 2
  <2>1. WritesRegister(lanes[2].ins) => Len(x1.freeList) >= 1
    BY <1>2, <1>4, <1>6, <1>10
  <2>2. PICK b2 \in BundleSet :
           Rename(x1, lanes[2]).out = Append(x1.out, b2) /\ b2.lane = lanes[2]
    BY <1>5, <1>6, <1>10, <2>1, LaneThrough
  <2>3. R.out = Append(<<b1>>, b2)
    BY <1>3, <1>8, <1>10, <2>2 DEF x1
  <2>4. Append(<<b1>>, b2) = <<b1, b2>>
    BY PairOf
  <2>5. R.out[1] = b1 /\ R.out[2] = b2
    BY <2>3, <2>4
  <2> QED
    BY <1>7, <2>2, <2>5 DEF lanes, R
<1> QED
  BY <1>1, <1>9, <1>10

(* Each lane is the next instruction of the path, and behind the last one   *)
(* the path goes on where the front end goes on: at the predicted target of *)
(* the last lane, or behind the bundle.                                     *)
LEMMA LanesFollow ==
    ASSUME MachineOK, OrderOK, BundleArrives
    PROVE  LET after == PredictedRedirect(Lanes)
               next == IF after.on THEN after.pc ELSE fetchPc
           IN  /\ Lanes[1].pc = fd.pc
               /\ \A k \in 1 .. Len(Lanes) :
                     Lanes[k].ins = Meaning!InstructionAt(rom, Lanes[k].pc)
               /\ Len(Lanes) = 2 => Follows(Lanes[1], Lanes[2].pc)
               /\ Follows(Lanes[Len(Lanes)], next)
<1> DEFINE a == Lane(fd.pc)
           pc2 == (fd.pc + InsnBytes) % PcMod
           b == Lane(pc2)
           after == PredictedRedirect(Lanes)
           next == IF after.on THEN after.pc ELSE fetchPc
<1>1. fd.pc \in PcValue /\ fd.pc + InsnBytes \in Int /\ pc2 \in PcValue
  <2>1. fd.pc \in PcValue
    BY DEF MachineOK
  <2>2. fd.pc + InsnBytes \in Int
    BY <2>1 DEF PcValue, InsnBytes
  <2> QED
    BY <2>1, <2>2, PcOf
<1>2. Lanes = IF Redirects(a) THEN <<a>> ELSE <<a, b>>
  BY DEF Lanes, Bundle
<1>3. ASSUME NEW pc \in PcValue
      PROVE  /\ Lane(pc).pc = pc /\ Lane(pc).ins = Meaning!InstructionAt(rom, pc)
             /\ Redirects(Lane(pc)) => Follows(Lane(pc), Lane(pc).pred.target)
  <2> DEFINE l == Lane(pc)
  <2>1. l.pc = pc /\ l.ins = Meaning!InstructionAt(rom, pc)
    BY DEF Lane
  <2>2. l.pred = IF IsControlFlow(l.ins) THEN Predict(predictor, pc) ELSE NotPredicted
    BY DEF Lane
  <2> HIDE DEF l
  <2>3. CASE Redirects(l)
    <3>1. l.pred = Predict(predictor, pc) /\ l.pred.hit
      BY <2>2, <2>3 DEF Redirects, NotPredicted
    <3>2. PredictsBranches(rom, predictor)
      BY DEF OrderOK
    <3>3. l.ins.op \in BranchOps /\ l.pred.target = Target(l.ins, pc)
      BY <2>1, <3>1, <3>2, PredictedTarget
    <3> QED
      BY <2>1, <3>3 DEF Follows, l
  <2> QED
    BY <2>1, <2>3 DEF l
<1>4. a.pc = fd.pc /\ a.ins = Meaning!InstructionAt(rom, a.pc)
  BY <1>1, <1>3
<1>5. b.pc = pc2 /\ b.ins = Meaning!InstructionAt(rom, b.pc)
  BY <1>1, <1>3
<1>6. /\ Redirects(a) => Follows(a, a.pred.target)
      /\ Redirects(b) => Follows(b, b.pred.target)
  BY <1>1, <1>3
<1>7. ~redirect.on
  BY DEF BundleArrives
<1>8. (pc2 + InsnBytes) % PcMod = fetchPc
  <2>1. fetchPc = (fd.pc + FetchWidth * InsnBytes) % PcMod
    BY DEF OrderOK, BundleArrives
  <2>2. fd.pc \in Int /\ PcMod \in Nat \ {0}
    BY <1>1, SizeAssumption DEF PcValue
  <2>3. fd.pc + 4 \in Int
    BY <2>2
  <2>4. (4 + ((fd.pc + 4) % PcMod)) % PcMod = (4 + (fd.pc + 4)) % PcMod
    <3>1. 4 \in Int /\ PcMod \in Nat \ {0}
      BY <2>2
    <3> DEFINE x == fd.pc + 4
    <3>2. x \in Int
      BY <2>3
    <3> HIDE DEF x
    <3>3. (4 + (x % PcMod)) % PcMod = (4 + x) % PcMod
      BY <3>1, <3>2, RemainderOfSum, Zenon
    <3> QED
      BY <3>3 DEF x
  <2>5. (fd.pc + 4) % PcMod \in Int
    BY <1>1 DEF InsnBytes, pc2, PcValue
  <2>6. 4 + ((fd.pc + 4) % PcMod) = ((fd.pc + 4) % PcMod) + 4
    BY <2>5
  <2>7. 4 + (fd.pc + 4) = fd.pc + 2 * 4
    BY <2>2
  <2> QED
    BY <2>1, <2>4, <2>6, <2>7 DEF InsnBytes, FetchWidth
<1> HIDE DEF a, b, pc2
<1>9. CASE Redirects(a)
  <2>1. Lanes = <<a>> /\ Len(Lanes) = 1 /\ Lanes[1] = a /\ Last(Lanes) = a
    BY <1>2, <1>9 DEF Last
  <2>2. \E k \in DOMAIN Lanes : Redirects(Lanes[k])
    BY <1>9, <2>1
  <2>3. after.on /\ after.pc = a.pred.target
    BY <2>1, <2>2 DEF PredictedRedirect
  <2> QED
    BY <1>4, <1>6, <1>9, <2>1, <2>3
<1>10. CASE ~Redirects(a)
  <2>1. /\ Lanes = <<a, b>> /\ Len(Lanes) = 2 /\ Lanes[1] = a /\ Lanes[2] = b
        /\ Last(Lanes) = b
    BY <1>2, <1>10 DEF Last
  <2>2. Follows(a, b.pc)
    BY <1>4, <1>5 DEF Follows, Behind, pc2
  <2>3. Follows(b, next)
    <3>1. CASE Redirects(b)
      <4>1. \E k \in DOMAIN Lanes : Redirects(Lanes[k])
        BY <2>1, <3>1
      <4>2. after.on /\ after.pc = b.pred.target
        BY <2>1, <4>1 DEF PredictedRedirect
      <4> QED
        BY <1>6, <3>1, <4>2
    <3>2. CASE ~Redirects(b)
      <4>1. ~\E k \in DOMAIN Lanes : Redirects(Lanes[k])
        BY <1>10, <2>1, <3>2
      <4>2. after = redirect
        BY <4>1, Zenon DEF PredictedRedirect
      <4>3. next = (pc2 + InsnBytes) % PcMod
        BY <1>7, <1>8, <4>2
      <4> QED
        BY <1>5, <4>3 DEF Follows, Behind
    <3> QED
      BY <3>1, <3>2
  <2> HIDE DEF next
  <2>4. \A k \in 1 .. Len(Lanes) : k = 1 \/ k = 2
    BY <2>1
  <2> QED
    BY <1>4, <1>5, <2>1, <2>2, <2>3, <2>4 DEF next
<1> QED
  BY <1>9, <1>10

LEMMA BundlePath ==
    ASSUME MachineOK, OrderOK, BundleArrives, LanesEnter
    PROVE  LET after == PredictedRedirect(Lanes)
               s == Dispatched(Renamed(Lanes))
           IN  Path(rom, s.rob, IF after.on THEN after.pc ELSE fetchPc, s.halt)
<1> DEFINE lanes == Lanes
           R == Renamed(Lanes)
           s0 == NothingDispatched
           after == PredictedRedirect(Lanes)
           next == IF after.on THEN after.pc ELSE fetchPc
<1>1. lanes \in Seq(LaneSet) /\ Len(lanes) \in {1, 2} /\ DOMAIN lanes = 1 .. Len(lanes)
  BY LanesTyped
<1>2. CanRename(Lanes)
  BY DEF LanesEnter
<1>3. RenameOK(R) /\ Len(R.out) = Len(lanes)
  BY <1>2, RenamedTyped
<1>4. /\ Len(R.out) = 1 => Dispatched(R) = Dispatch(R, s0, R.out[1])
      /\ Len(R.out) = 2 => Dispatched(R) = Dispatch(R, Dispatch(R, s0, R.out[1]), R.out[2])
  BY DEF Dispatched, ForEach, NothingDispatched
<1>5. DispatchOK(s0, 0) /\ ~s0.halt /\ s0.rob = rob
  BY DEF DispatchOK, MachineOK, NothingDispatched
<1>6. Path(rom, s0.rob, fd.pc, FALSE)
  <2>1. Coming = fd.pc /\ haltDispatched = FALSE
    BY DEF BundleArrives, Coming, MachineOK
  <2> QED
    BY <1>5, <2>1 DEF OrderOK
<1>7. /\ lanes[1].pc = fd.pc
      /\ \A k \in 1 .. Len(lanes) : lanes[k].ins = Meaning!InstructionAt(rom, lanes[k].pc)
      /\ Len(lanes) = 2 => Follows(lanes[1], lanes[2].pc)
      /\ Follows(lanes[Len(lanes)], next)
  BY LanesFollow
<1>8. /\ \E b \in BundleSet : b.lane = lanes[1] /\ R.out[1] = b
      /\ Len(lanes) = 2 => \E b \in BundleSet : b.lane = lanes[2] /\ R.out[2] = b
  BY <1>2, RenamedLanes
<1> DEFINE s1 == Dispatch(R, s0, R.out[1])
<1>9. /\ Accepts(s0)
      /\ Len(lanes) = 2 => s1.halt \/ Accepts(s1)
  <2>1. 1 \in DOMAIN lanes /\ (Len(lanes) = 2 => 2 \in DOMAIN lanes) /\ 2 # 1
    BY <1>1
  <2>2. DispatchedBefore(1) = s0 /\ DispatchedBefore(2) = s1
    BY DEF DispatchedBefore
  <2>3. \A k \in DOMAIN lanes : DispatchedBefore(k).halt \/ Accepts(DispatchedBefore(k))
    BY DEF LanesEnter
  <2> HIDE DEF lanes, s0, s1
  <2> QED
    BY <1>5, <2>1, <2>2, <2>3
<1>10. PICK b1 \in BundleSet : b1.lane = lanes[1] /\ R.out[1] = b1
  BY <1>8
<1>11. ASSUME NEW pc, Follows(lanes[1], pc)
       PROVE  Path(rom, s1.rob, pc, FALSE)
  <2> HIDE DEF lanes, R, s0
  <2>1. b1.lane.pc = fd.pc /\ b1.lane.ins = Meaning!InstructionAt(rom, b1.lane.pc)
    BY <1>1, <1>7, <1>10
  <2>2. Path(rom, s0.rob, b1.lane.pc, FALSE) /\ Follows(b1.lane, pc)
    BY <1>6, <1>10, <1>11, <2>1
  <2> QED
    BY <1>3, <1>5, <1>9, <1>10, <2>1, <2>2, LanePath
<1>12. DispatchOK(s1, 1)
  BY <1>3, <1>5, <1>10, DispatchTyped
<1> HIDE DEF lanes, R, s0, next, s1
<1>13. CASE Len(lanes) = 1
  <2>1. Path(rom, s1.rob, next, FALSE)
    BY <1>7, <1>11, <1>13
  <2>2. Dispatched(R) = s1
    BY <1>3, <1>4, <1>13 DEF s1
  <2>3. Path(rom, Dispatched(R).rob, next, Dispatched(R).halt)
    BY <2>1, <2>2 DEF Path
  <2> QED
    BY <2>3 DEF next, R
<1>14. CASE Len(lanes) = 2
  <2>1. Path(rom, s1.rob, lanes[2].pc, FALSE)
    BY <1>7, <1>11, <1>14
  <2>2. PICK b2 \in BundleSet : b2.lane = lanes[2] /\ R.out[2] = b2
    BY <1>8, <1>14
  <2>3. Dispatched(R) = Dispatch(R, s1, b2)
    BY <1>3, <1>4, <1>14, <2>2 DEF s1
  <2>4. CASE s1.halt
    <3>1. Dispatch(R, s1, b2) = s1
      BY <2>4 DEF Dispatch
    <3>2. Path(rom, s1.rob, next, s1.halt)
      BY <2>1, <2>4 DEF Path
    <3>3. Path(rom, Dispatched(R).rob, next, Dispatched(R).halt)
      BY <2>3, <3>1, <3>2
    <3> QED
      BY <3>3 DEF next, R
  <2>5. CASE ~s1.halt
    <3>1. /\ b2.lane.ins = Meaning!InstructionAt(rom, b2.lane.pc)
          /\ Path(rom, s1.rob, b2.lane.pc, FALSE) /\ Follows(b2.lane, next)
      <4>1. 2 \in 1 .. Len(lanes) /\ b2.lane = lanes[2]
        BY <1>14, <2>2
      <4>2. lanes[2].ins = Meaning!InstructionAt(rom, lanes[2].pc)
        BY <1>7, <4>1
      <4>3. Follows(lanes[2], next)
        BY <1>7, <1>14
      <4> QED
        BY <2>1, <4>1, <4>2, <4>3, Zenon
    <3>2. Accepts(s1)
      BY <1>9, <1>14, <2>5
    <3>3. Path(rom, Dispatch(R, s1, b2).rob, next, FALSE)
      BY <1>3, <1>12, <3>1, <3>2, LanePath
    <3>4. Path(rom, Dispatched(R).rob, next, Dispatched(R).halt)
      BY <2>3, <3>3 DEF Path
    <3> QED
      BY <3>4 DEF next, R
  <2> QED
    BY <2>4, <2>5
<1> QED
  BY <1>1, <1>13, <1>14

-----------------------------------------------------------------------------
(* The stages and the path. *)

(* A stage behind which the same bundle comes next. *)
LEMMA PathStage ==
    ASSUME OrderOK, UNCHANGED <<rom, fetchPc, fd, redirect, haltDispatched>>,
           stage # "fetch", stage' # "fetch",
           Path(rom, rob', Coming, haltDispatched), PredictsBranches(rom, predictor')
    PROVE  OrderOK'
<1>1. Coming' = Coming
  BY DEF Coming
<1>2. /\ Path(rom', rob', Coming', haltDispatched') /\ PredictsBranches(rom', predictor')
      /\ fd'.valid => fetchPc' = (fd'.pc + FetchWidth * InsnBytes) % PcMod
  BY <1>1 DEF OrderOK
<1> QED
  BY <1>2 DEF OrderOK

LEMMA ExecuteOrder ==
    ASSUME MachineOK, OrderOK, ExecuteAlu \/ ExecuteLoad \/ ExecuteStore \/ BranchAsPredicted
    PROVE  OrderOK'
<1>1. /\ UNCHANGED <<rom, fetchPc, fd, redirect, haltDispatched>>
      /\ stage # "fetch" /\ stage' # "fetch"
  BY DEF ExecuteAlu, ExecuteLoad, ExecuteStore, BranchAsPredicted, frontend
<1>2. PICK i \in IQSlot : iq[i].valid /\ rob' = Complete(rob, iq[i].rob)
  <2>1. CASE ExecuteAlu
    BY <2>1 DEF ExecuteAlu, FirstSlot, ReadyAlus, Ready
  <2>2. CASE ExecuteLoad \/ ExecuteStore
    BY <2>2, ProceedingSlot DEF ExecuteLoad, ExecuteStore
  <2>3. CASE BranchAsPredicted
    BY <2>3, ReadyBranchSlot DEF BranchAsPredicted
  <2> QED
    BY <2>1, <2>2, <2>3
<1>3. Path(rom, rob', Coming, haltDispatched)
  <2>1. iq[i].rob \in Index /\ Ring(rob) /\ InWindow(rob, iq[i].rob)
    BY <1>2, IssuedInstruction
  <2> QED
    BY <1>2, <2>1, PathCompletes DEF OrderOK
<1>4. PredictsBranches(rom, predictor')
  <2>1. CASE ~BranchAsPredicted
    BY <2>1 DEF ExecuteAlu, ExecuteLoad, ExecuteStore, OrderOK
  <2>2. CASE BranchAsPredicted
    <3>1. PICK k \in FirstSlot(ReadyBranches) :
             predictor' = Update(predictor, iq[k].pc, Outcome(iq[k]), Target(iq[k].ins, iq[k].pc))
      BY <2>2 DEF BranchAsPredicted
    <3>2. k \in IQSlot /\ iq[k].valid /\ iq[k].ins.op \in BranchOps
      BY ReadyBranchSlot
    <3>3. iq[k].pc \in PcValue /\ iq[k].ins = Meaning!InstructionAt(rom, iq[k].pc)
      <4>1. /\ iq[k] \in EntrySet /\ iq[k].rob \in Index /\ InWindow(rob, iq[k].rob)
            /\ rob.slot[iq[k].rob].data.ins = iq[k].ins
        BY <3>2, IssuedInstruction
      <4>2. rob.slot[iq[k].rob].data.pc = iq[k].pc
        BY <3>2 DEF MachineOK, Linked, Describes
      <4> QED
        BY <4>1, <4>2, EntryFields DEF OrderOK, Path, FetchedFrom
    <3>4. predictor \in [0 .. BPTableSize - 1 -> PredictionSet]
      BY DEF MachineOK
    <3> QED
      BY <3>1, <3>2, <3>3, <3>4, PredictorLearns DEF OrderOK
  <2> QED
    BY <2>1, <2>2
<1> QED
  BY <1>1, <1>3, <1>4, PathStage

LEMMA RecoveryOrder ==
    ASSUME MachineOK, OrderOK, BranchMispredicted
    PROVE  OrderOK'
<1>1. PICK i \in FirstSlot(ReadyBranches) :
         LET e == iq[i]
         IN  /\ predictor' = Update(predictor, e.pc, Outcome(e), Target(e.ins, e.pc))
             /\ rob' = SquashYoungerThan(Complete(rob, e.rob), e.rob)
             /\ haltDispatched' = FALSE
             /\ redirect' = [on |-> TRUE,
                             pc |-> IF Outcome(e) THEN Target(e.ins, e.pc)
                                    ELSE (e.pc + InsnBytes) % PcMod]
             /\ UNCHANGED <<rom, fetchPc, fd>>
  BY DEF BranchMispredicted
<1> DEFINE e == iq[i]
           b == e.rob
           c == Complete(rob, b)
           next == IF Outcome(e) THEN Target(e.ins, e.pc) ELSE (e.pc + InsnBytes) % PcMod
<1>2. i \in IQSlot /\ e.valid /\ e.ins.op \in BranchOps
  BY ReadyBranchSlot
<1>3. /\ e \in EntrySet /\ b \in Index /\ Ring(rob) /\ InWindow(rob, b)
      /\ rob.slot[b].data.ins = e.ins
  BY <1>2, IssuedInstruction
<1>4. rob.slot[b].data.pc = e.pc
  BY <1>2 DEF MachineOK, Linked, Describes
<1>5. e.pc \in PcValue /\ e.ins = Meaning!InstructionAt(rom, e.pc)
  BY <1>3, <1>4, EntryFields DEF OrderOK, Path, FetchedFrom
<1>6. /\ predictor' = Update(predictor, e.pc, Outcome(e), Target(e.ins, e.pc))
      /\ rob' = SquashYoungerThan(c, b) /\ redirect'.on /\ redirect'.pc = next
      /\ haltDispatched' = FALSE /\ UNCHANGED <<rom, fetchPc, fd>>
  BY <1>1
<1>7. Follows(rob.slot[b].data, next)
  BY <1>2, <1>3, <1>4 DEF Follows, Behind
<1> HIDE DEF e, b, next
<1>8. /\ Path(rom, c, Coming, haltDispatched) /\ Ring(c) /\ InWindow(c, b)
      /\ c.slot[b].data = rob.slot[b].data
  BY <1>3, PathCompletes, CompleteRing DEF OrderOK
<1> HIDE DEF c
<1>9. Path(rom, rob', next, FALSE)
  BY <1>3, <1>6, <1>7, <1>8, PathSquashed
<1>10. PredictsBranches(rom, predictor')
  <2>1. predictor \in [0 .. BPTableSize - 1 -> PredictionSet]
    BY DEF MachineOK
  <2>2. e.ins.op \in BranchOps
    BY <1>2 DEF e
  <2> QED
    BY <1>5, <1>6, <2>1, <2>2, PredictorLearns DEF OrderOK
<1>11. /\ Path(rom', rob', Coming', haltDispatched') /\ PredictsBranches(rom', predictor')
       /\ fd'.valid => fetchPc' = (fd'.pc + FetchWidth * InsnBytes) % PcMod
  BY <1>6, <1>9, <1>10 DEF Coming, OrderOK
<1> QED
  BY <1>11 DEF OrderOK

LEMMA HeadPath ==
    ASSUME NEW n \in Nat, NEW s, RetireOK(s, n), NEW p, NEW pc, NEW stopped,
           Path(p, s.rob, pc, stopped)
    PROVE  Path(p, RetireHead(s).rob, pc, stopped)
<1>1. CASE s.halted \/ ~CanCommit(s.rob)
  BY <1>1 DEF RetireHead
<1>2. CASE ~(s.halted \/ ~CanCommit(s.rob))
  <2> DEFINE r == s.rob
  <2>1. RetireHead(s).rob = Commit(r) /\ CanCommit(r) /\ Ring(r)
    BY <1>2 DEF RetireHead, RetireOK
  <2> HIDE DEF r
  <2>2. Path(p, r, pc, stopped)
    BY DEF r
  <2> QED
    BY <2>1, <2>2, PathCommits
<1> QED
  BY <1>1, <1>2

LEMMA CommitOrder ==
    ASSUME MachineOK, OrderOK, CommitStage
    PROVE  OrderOK'
<1> DEFINE first == [rob |-> rob, arf |-> arf, free |-> freeList,
                     checkpoints |-> checkpoints, lsq |-> lsq, buffer |-> storeBuffer,
                     stores |-> 0, halted |-> FALSE]
           second == RetireHead(first)
<1>1. prf \in [Physical -> Cell]
  BY DEF MachineOK
<1>2. RetireOK(first, 0) /\ Path(rom, first.rob, Coming, haltDispatched)
  BY DEF MachineOK, RetireOK, OrderOK
<1>3. /\ rob' = RetireHead(second).rob /\ predictor' = predictor
      /\ UNCHANGED <<rom, fetchPc, fd, redirect, haltDispatched>>
      /\ stage # "fetch" /\ stage' # "fetch"
  BY DEF CommitStage, frontend
<1> HIDE DEF first
<1>4. RetireOK(second, 1) /\ Path(rom, second.rob, Coming, haltDispatched)
  BY <1>1, <1>2, RetireHeadTyped, HeadPath
<1> HIDE DEF second
<1>5. Path(rom, rob', Coming, haltDispatched)
  BY <1>3, <1>4, HeadPath
<1> QED
  BY <1>3, <1>5, PathStage DEF OrderOK

LEMMA RenameOrder ==
    ASSUME MachineOK, OrderOK, RenameAndDispatch, LanesEnter
    PROVE  OrderOK'
<1> DEFINE after == PredictedRedirect(Lanes)
           s == Dispatched(Renamed(Lanes))
<1>1. BundleArrives
  BY DEF RenameAndDispatch, BundleArrives
<1>2. Path(rom, s.rob, IF after.on THEN after.pc ELSE fetchPc, s.halt)
  BY <1>1, BundlePath
<1>3. /\ redirect' = after /\ rob' = s.rob /\ haltDispatched' = s.halt /\ stage' = "fetch"
      /\ UNCHANGED <<rom, fetchPc, fd, predictor>>
  BY DEF RenameAndDispatch
<1> HIDE DEF after, s
<1>4. Coming' = IF after.on THEN after.pc ELSE fetchPc
  BY <1>3 DEF Coming
<1>5. /\ Path(rom', rob', Coming', haltDispatched') /\ PredictsBranches(rom', predictor')
      /\ fd'.valid => fetchPc' = (fd'.pc + FetchWidth * InsnBytes) % PcMod
  BY <1>2, <1>3, <1>4 DEF OrderOK
<1> QED
  BY <1>5 DEF OrderOK

(* Nothing to rename: what comes next is still to be fetched. *)
LEMMA IdleRenameOrder ==
    ASSUME OrderOK, RenameIdle
    PROVE  OrderOK'
<1>1. /\ UNCHANGED <<rom, fetchPc, fd, redirect, haltDispatched, rob, predictor>>
      /\ stage' = "fetch" /\ (redirect.on \/ haltDispatched \/ ~fd.valid)
  BY DEF RenameIdle, frontend
<1>2. haltDispatched \/ Coming' = Coming
  BY <1>1 DEF Coming
<1>3. /\ Path(rom', rob', Coming', haltDispatched') /\ PredictsBranches(rom', predictor')
      /\ fd'.valid => fetchPc' = (fd'.pc + FetchWidth * InsnBytes) % PcMod
  BY <1>1, <1>2 DEF OrderOK, Path
<1> QED
  BY <1>3 DEF OrderOK

LEMMA FetchOrder ==
    ASSUME OrderOK, Fetch
    PROVE  OrderOK'
<1>1. /\ stage = "fetch" /\ stage' = "commit" /\ ~redirect'.on
      /\ fd' = IF redirect.on THEN Bubble ELSE [valid |-> TRUE, pc |-> fetchPc]
      /\ fetchPc' = IF redirect.on THEN redirect.pc
                    ELSE (fetchPc + FetchWidth * InsnBytes) % PcMod
      /\ UNCHANGED <<rom, haltDispatched, rob, predictor>>
  BY DEF Fetch, NoRedirect
<1>2. Coming' = Coming
  BY <1>1 DEF Coming, Bubble
<1>3. /\ Path(rom', rob', Coming', haltDispatched') /\ PredictsBranches(rom', predictor')
      /\ fd'.valid => fetchPc' = (fd'.pc + FetchWidth * InsnBytes) % PcMod
  BY <1>1, <1>2 DEF OrderOK, Bubble
<1> QED
  BY <1>3 DEF OrderOK

LEMMA OrderInit == Init => OrderOK
<1> SUFFICES ASSUME Init PROVE OrderOK
  OBVIOUS
<1>1. /\ rob.count = 0 /\ predictor = ResetPredictor /\ fd = Bubble
  BY DEF Init, ResetRob
<1>2. \A i \in Index : ~InWindow(rob, i)
  <2>1. Ring(rob)
    BY MachineInit DEF MachineOK
  <2> QED
    BY <1>1, <2>1, RingPositions
<1>3. Path(rom, rob, Coming, haltDispatched)
  BY <1>2 DEF Path, Chained, FetchedFrom, LeadsTo
<1>4. PredictsBranches(rom, predictor)
  BY <1>1 DEF PredictsBranches, ResetPredictor
<1> QED
  BY <1>1, <1>3, <1>4 DEF OrderOK, Bubble

LEMMA OrderStep == MachineOK /\ OrderOK /\ LanesEnter /\ [Next]_vars => OrderOK'
<1> SUFFICES ASSUME MachineOK, OrderOK, LanesEnter, [Next]_vars PROVE OrderOK'
  OBVIOUS
<1>1. CASE CommitStage
  BY <1>1, CommitOrder
<1>2. CASE ExecuteAlu \/ ExecuteLoad \/ ExecuteStore \/ BranchAsPredicted
  BY <1>2, ExecuteOrder
<1>3. CASE BranchMispredicted
  BY <1>3, RecoveryOrder
<1>4. CASE RenameAndDispatch
  BY <1>4, RenameOrder
<1>5. CASE MemoryIdle \/ NoBranchReady \/ AluIdle
  BY <1>5, PathStage DEF MemoryIdle, NoBranchReady, AluIdle, frontend, OrderOK
<1>6. CASE RenameIdle
  BY <1>6, IdleRenameOrder
<1>7. CASE BundleNotRenamed
  BY <1>7 DEF BundleNotRenamed, LanesEnter, BundleArrives
<1>8. CASE Fetch
  BY <1>8, FetchOrder
<1>9. CASE UNCHANGED vars
  BY <1>9 DEF vars, frontend, OrderOK, Coming
<1> QED
  BY <1>1, <1>2, <1>3, <1>4, <1>5, <1>6, <1>7, <1>8, <1>9 DEF Next

LEMMA NeighboursFollow ==
    ASSUME MachineOK, OrderOK
    PROVE  NoInstructionSkipped
<1>1. Ring(rob) /\ rob.head \in Index /\ rob.count \in 0 .. Capacity
  BY DEF MachineOK, Ring, InOrder
<1>2. ASSUME NEW k \in 1 .. rob.count - 1
      PROVE  Follows(Kth(k), Kth(k + 1).pc)
  <2>1. k \in 1 .. Capacity /\ k + 1 \in 1 .. Capacity /\ Capacity \in Nat \ {0}
    BY <1>1, CapacityAssumption
  <2> DEFINE i == SlotAt(rob, k)
             j == SlotAt(rob, k + 1)
  <2>2. i \in Index /\ Position(rob, i) = k - 1
    BY <1>1, <2>1, SlotAtValue
  <2>3. j \in Index /\ Position(rob, j) = (k + 1) - 1
    BY <1>1, <2>1, SlotAtValue
  <2> HIDE DEF i, j
  <2>4. InWindow(rob, i) /\ InWindow(rob, j) /\ Position(rob, j) = Position(rob, i) + 1
    BY <1>1, <2>2, <2>3 DEF InWindow
  <2>5. Follows(rob.slot[i].data, rob.slot[j].data.pc)
    BY <2>2, <2>3, <2>4 DEF OrderOK, Path, Chained
  <2> QED
    BY <2>5 DEF Kth, Data, i, j
<1> QED
  BY <1>2 DEF NoInstructionSkipped, Follows, Behind

(* The instructions in flight are a path through the program, and what the  *)
(* front end brings next continues it, also behind a recovery and behind a  *)
(* predicted branch.                                                        *)
THEOREM FetchFollowsProgram == Spec /\ []LanesEnter => []OrderOK
<1>1. MachineOK /\ OrderOK /\ LanesEnter /\ [Next]_vars => OrderOK'
  BY OrderStep
<1> QED
  BY <1>1, MachineHolds, OrderInit, PTL DEF Spec

(* Between two instructions in flight none is missing and none is there     *)
(* that was fetched behind a branch that goes elsewhere.                    *)
THEOREM NothingSkipped == Spec /\ []LanesEnter => []NoInstructionSkipped
<1>1. MachineOK /\ OrderOK => NoInstructionSkipped
  BY NeighboursFollow
<1> QED
  BY <1>1, MachineHolds, FetchFollowsProgram, PTL
=============================================================================
