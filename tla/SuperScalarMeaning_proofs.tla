----------------------- MODULE SuperScalarMeaning_proofs -----------------------
(***************************************************************************)
(* What the instructions in flight in the superscalar CPU compute is what  *)
(* the program computes, for every program and every size of its queues,   *)
(* register files and memories: with the invariants of                     *)
(* SuperScalarCPU_proofs on memory, renaming and the order of the program, *)
(* the CPU implements the sequential machine.                              *)
(***************************************************************************)
EXTENDS SuperScalarCPU_proofs

-----------------------------------------------------------------------------
(* What the program computes.  x[k] is the architectural state behind the k *)
(* oldest instructions in flight, x[0] the committed one.                   *)
ArchState == [pc : PcValue \cup {Meaning!Stopped}, regs : [Register -> Word],
              mem : [0 .. DMemWords - 1 -> Word]]

(* The effect of an instruction in flight on a state that has come to it.   *)
Does(d, s) == Meaning!Execute(d.ins, [pc |-> d.pc, regs |-> s.regs, mem |-> s.mem])

Trace(x, r) ==
    /\ x \in [0 .. r.count -> ArchState]
    /\ \A i \in Index : InWindow(r, i) =>
          x[Position(r, i) + 1] = Does(r.slot[i].data, x[Position(r, i)])

(* Where an instruction reads and writes memory, and what it writes.        *)
AddressIn(ins, s) == EffectiveAddress(ins, s.regs[ins.rs1])

(* The sequential machine and the superscalar CPU decode and compute alike. *)
LEMMA SameIsa ==
    /\ \A ins, a : Meaning!EffectiveAddress(ins, a) = EffectiveAddress(ins, a)
    /\ \A ins, a, b : Meaning!AluResult(ins, a, b) = AluResult(ins, a, b)
    /\ \A ins, a, b : Meaning!Taken(ins, a, b) = Taken(ins, a, b)
    /\ \A ins, pc : Meaning!Target(ins, pc) = Target(ins, pc)
    /\ \A ins : Meaning!IsControlFlow(ins) <=> IsControlFlow(ins)
    /\ Meaning!AluOps = AluOps
<1>1. \A ins, a : Meaning!EffectiveAddress(ins, a) = EffectiveAddress(ins, a)
  BY DEF Meaning!EffectiveAddress, EffectiveAddress
<1>2. \A ins, a, b : Meaning!AluResult(ins, a, b) = AluResult(ins, a, b)
  BY DEF Meaning!AluResult, AluResult
<1>3. \A ins, a, b : Meaning!Taken(ins, a, b) = Taken(ins, a, b)
  BY DEF Meaning!Taken, Taken
<1>4. \A ins, pc : Meaning!Target(ins, pc) = Target(ins, pc)
  BY DEF Meaning!Target, Target
<1>5. /\ \A ins : Meaning!IsControlFlow(ins) <=> IsControlFlow(ins)
      /\ Meaning!AluOps = AluOps
  BY DEF Meaning!IsControlFlow, IsControlFlow, Meaning!BranchOps, BranchOps, Meaning!AluOps,
         AluOps, Meaning!TwoSourceAlu, TwoSourceAlu
<1> QED
  BY <1>1, <1>2, <1>3, <1>4, <1>5

(* Execute, said of an instruction in flight. *)
LEMMA DoesWhat ==
    ASSUME NEW d, NEW s
    PROVE  LET ins == d.ins
               a == s.regs[ins.rs1]
               b == s.regs[ins.rs2]
               t == Does(d, s)
           IN  /\ t.pc = CASE ins.op = "HALT" -> Meaning!Stopped
                           [] IsControlFlow(ins) /\ Taken(ins, a, b) -> Target(ins, d.pc)
                           [] OTHER -> Behind(d)
               /\ t.regs = CASE ins.op \in AluOps ->
                                  [s.regs EXCEPT ![ins.rd] = AluResult(ins, a, b)]
                             [] ins.op = "LW" ->
                                  [s.regs EXCEPT ![ins.rd] = Meaning!ReadData(s.mem, AddressIn(ins, s))]
                             [] OTHER -> s.regs
               /\ t.mem = IF ins.op = "SW" THEN Meaning!WriteData(s.mem, AddressIn(ins, s), b)
                          ELSE s.mem
               /\ t = [pc |-> t.pc, regs |-> t.regs, mem |-> t.mem]
<1> DEFINE ins == d.ins
           a == s.regs[ins.rs1]
           b == s.regs[ins.rs2]
           t == Does(d, s)
           u == [pc |-> d.pc, regs |-> s.regs, mem |-> s.mem]
<1>1. t = [pc   |-> CASE ins.op = "HALT" -> Meaning!Stopped
                      [] IsControlFlow(ins) /\ Taken(ins, a, b) -> Target(ins, d.pc)
                      [] OTHER -> (d.pc + InsnBytes) % PcMod,
           regs |-> CASE ins.op \in AluOps -> [s.regs EXCEPT ![ins.rd] = AluResult(ins, a, b)]
                      [] ins.op = "LW"     -> [s.regs EXCEPT ![ins.rd] =
                                                 Meaning!ReadData(s.mem, EffectiveAddress(ins, a))]
                      [] OTHER -> s.regs,
           mem  |-> IF ins.op = "SW" THEN Meaning!WriteData(s.mem, EffectiveAddress(ins, a), b)
                    ELSE s.mem]
  <2>1. u.pc = d.pc /\ u.regs = s.regs /\ u.mem = s.mem
    OBVIOUS
  <2>2. t = Meaning!Execute(ins, u)
    BY DEF Does
  <2> HIDE DEF u, t
  <2> QED
    BY <2>1, <2>2, SameIsa DEF Meaning!Execute
<1> HIDE DEF t
<1> QED
  BY <1>1 DEF Behind, AddressIn, t

(* Opcodes that exclude each other. *)
LEMMA OpcodeKinds ==
    /\ "LW" \notin AluOps /\ "SW" \notin AluOps /\ "HALT" \notin AluOps /\ "NOP" \notin AluOps
    /\ "J" \notin AluOps /\ AluOps \cap BranchOps = {}
    /\ {"LW", "SW", "HALT", "NOP", "J"} \cap BranchOps = {}
    /\ \A ins : ins.op \in AluOps \cup {"LW"} <=> WritesRegister(ins)
    /\ \A ins : ins.op \in BranchOps \cup {"J"} <=> IsControlFlow(ins)
    /\ Opcode = AluOps \cup BranchOps \cup {"LW", "SW", "J", "NOP", "HALT"}
BY DEF AluOps, TwoSourceAlu, BranchOps, WritesRegister, IsControlFlow, Opcode

(* What an instruction changes, by its kind. *)
LEMMA DoesEffect ==
    ASSUME NEW d, DataOK(d), NEW s \in ArchState
    PROVE  LET ins == d.ins
               a == s.regs[ins.rs1]
               b == s.regs[ins.rs2]
               t == Does(d, s)
           IN  /\ t \in ArchState
               /\ ~WritesRegister(ins) => t.regs = s.regs
               /\ WritesRegister(ins) => \A n \in Register : n # ins.rd => t.regs[n] = s.regs[n]
               /\ ins.op \in AluOps => t.regs[ins.rd] = AluResult(ins, a, b)
               /\ ins.op = "LW" => t.regs[ins.rd] = Meaning!ReadData(s.mem, AddressIn(ins, s))
               /\ ins.op = "SW" => t.mem = Meaning!WriteData(s.mem, AddressIn(ins, s), b)
               /\ ins.op # "SW" => t.mem = s.mem
               /\ ins.op = "HALT" => t.pc = Meaning!Stopped
               /\ ins.op \in BranchOps => t.pc = IF Taken(ins, a, b) THEN Target(ins, d.pc)
                                                 ELSE Behind(d)
               /\ ins.op \notin BranchOps \cup {"HALT", "J"} => t.pc = Behind(d)
<1> DEFINE ins == d.ins
           a == s.regs[ins.rs1]
           b == s.regs[ins.rs2]
           t == Does(d, s)
           loaded == Meaning!ReadData(s.mem, AddressIn(ins, s))
           stored == Meaning!WriteData(s.mem, AddressIn(ins, s), b)
<1>1. /\ t.pc = CASE ins.op = "HALT" -> Meaning!Stopped
                  [] IsControlFlow(ins) /\ Taken(ins, a, b) -> Target(ins, d.pc)
                  [] OTHER -> Behind(d)
      /\ t.regs = CASE ins.op \in AluOps -> [s.regs EXCEPT ![ins.rd] = AluResult(ins, a, b)]
                    [] ins.op = "LW" -> [s.regs EXCEPT ![ins.rd] = loaded]
                    [] OTHER -> s.regs
      /\ t.mem = IF ins.op = "SW" THEN stored ELSE s.mem
      /\ t = [pc |-> t.pc, regs |-> t.regs, mem |-> t.mem]
  BY DoesWhat
<1>2. /\ ins \in Instruction /\ ins.rd \in Register /\ ins.rs1 \in Register /\ ins.rs2 \in Register
      /\ d.pc \in PcValue
  BY DEF DataOK, Instruction
<1>3. s.regs \in [Register -> Word] /\ s.mem \in [0 .. DMemWords - 1 -> Word]
  BY DEF ArchState
<1>4. a \in Word /\ b \in Word
  BY <1>2, <1>3
<1> HIDE DEF ins, a, b, t
<1>5. AddressIn(ins, s) \in Word
  BY <1>2, <1>4, AddressTyped DEF AddressIn, a
<1>6. loaded \in Word /\ stored \in [0 .. DMemWords - 1 -> Word]
  BY <1>3, <1>4, ReadTyped, WriteTyped
<1>7. Target(ins, d.pc) \in PcValue /\ Behind(d) \in PcValue
  <2>1. d.pc + InsnBytes \in Int
    BY <1>2, SizeAssumption DEF PcValue, InsnBytes
  <2> QED
    BY <1>2, <2>1, TargetTyped, PcOf DEF Behind
<1> HIDE DEF loaded, stored
<1>8. /\ ins.op = "HALT" => t.pc = Meaning!Stopped
      /\ ins.op \in BranchOps => t.pc = IF Taken(ins, a, b) THEN Target(ins, d.pc) ELSE Behind(d)
      /\ ins.op \notin BranchOps \cup {"HALT", "J"} => t.pc = Behind(d)
      /\ t.pc \in PcValue \cup {Meaning!Stopped}
  BY <1>1, <1>7, OpcodeKinds
<1>9. CASE ins.op \in AluOps
  <2>1. t.regs = [s.regs EXCEPT ![ins.rd] = AluResult(ins, a, b)] /\ t.mem = s.mem
    BY <1>1, <1>9, OpcodeKinds
  <2>2. AluResult(ins, a, b) \in Word
    BY <1>2, <1>4, <1>9, AluTyped
  <2>3. t.regs \in [Register -> Word]
    BY <1>2, <1>3, <2>1, <2>2
  <2>4. t \in ArchState
    BY <1>1, <1>3, <1>8, <2>1, <2>3 DEF ArchState
  <2>5. /\ t.regs[ins.rd] = AluResult(ins, a, b)
        /\ \A n \in Register : n # ins.rd => t.regs[n] = s.regs[n]
    BY <1>2, <1>3, <2>1
  <2>6. WritesRegister(ins) /\ ins.op # "LW" /\ ins.op # "SW"
    BY <1>9, OpcodeKinds
  <2> QED
    BY <1>8, <2>1, <2>4, <2>5, <2>6 DEF ins, a, b, t
<1>10. CASE ins.op = "LW"
  <2>1. t.regs = [s.regs EXCEPT ![ins.rd] = loaded] /\ t.mem = s.mem
    BY <1>1, <1>10, OpcodeKinds
  <2>2. t.regs \in [Register -> Word]
    BY <1>2, <1>3, <1>6, <2>1
  <2>3. t \in ArchState
    BY <1>1, <1>3, <1>8, <2>1, <2>2 DEF ArchState
  <2>4. /\ t.regs[ins.rd] = loaded
        /\ \A n \in Register : n # ins.rd => t.regs[n] = s.regs[n]
    BY <1>2, <1>3, <2>1
  <2>5. WritesRegister(ins) /\ ins.op \notin AluOps /\ ins.op # "SW"
    BY <1>10, OpcodeKinds
  <2> QED
    BY <1>8, <2>1, <2>3, <2>4, <2>5 DEF ins, a, b, t, loaded
<1>11. CASE ins.op \notin AluOps \cup {"LW"}
  <2>1. t.regs = s.regs /\ ~WritesRegister(ins)
    BY <1>1, <1>11, OpcodeKinds
  <2>2. t \in ArchState
    BY <1>1, <1>3, <1>6, <1>8, <2>1 DEF ArchState
  <2> QED
    BY <1>1, <1>8, <1>11, <2>1, <2>2 DEF ins, a, b, t, stored
<1> QED
  BY <1>9, <1>10, <1>11

(* A state of the trace, and its neighbours. *)
LEMMA TraceStates ==
    ASSUME NEW r, Ring(r), NEW x, Trace(x, r)
    PROVE  /\ \A k \in 0 .. r.count : x[k] \in ArchState
           /\ 0 \in 0 .. r.count
           /\ \A i \in Index : InWindow(r, i) =>
                 /\ Position(r, i) \in 0 .. r.count /\ Position(r, i) + 1 \in 0 .. r.count
                 /\ x[Position(r, i)] \in ArchState /\ DataOK(r.slot[i].data)
                 /\ x[Position(r, i) + 1] = Does(r.slot[i].data, x[Position(r, i)])
<1>1. /\ r.count \in Nat
      /\ \A i \in Index : Position(r, i) \in Nat /\ (InWindow(r, i) <=> Position(r, i) < r.count)
  BY RingPositions
<1>2. \A i \in Index : InWindow(r, i) =>
         Position(r, i) \in 0 .. r.count /\ Position(r, i) + 1 \in 0 .. r.count
  BY <1>1
<1>3. \A i \in Index : InWindow(r, i) => DataOK(r.slot[i].data)
  BY DEF Ring
<1>4. \A k \in 0 .. r.count : x[k] \in ArchState
  BY DEF Trace
<1> QED
  BY <1>1, <1>2, <1>3, <1>4 DEF Trace

(* A register before the k-th instruction has the value its mapping stands  *)
(* for: the committed one, or what its youngest writer has made of it.      *)
ValueFrom(m, x, r, k, a) ==
    \/ m[k][a] = m[0][a] /\ x[k].regs[a] = x[0].regs[a]
    \/ \E i \in Index : /\ Writes(r, i) /\ Rd(r, i) = a /\ m[k][a] = Prd(r, i)
                        /\ x[k].regs[a] = x[Position(r, i) + 1].regs[a]

(* A register has the value of its youngest writer, or the committed one. *)
LEMMA ValuesComeFrom ==
    ASSUME NEW r, Ring(r), NEW m, History(m, r), NEW x, Trace(x, r), NEW a \in Register
    PROVE  \A k \in 0 .. r.count : ValueFrom(m, x, r, k, a)
<1>1. /\ r.count \in Nat
      /\ \A i \in Index : Position(r, i) \in Nat /\ (InWindow(r, i) <=> Position(r, i) < r.count)
      /\ \A k \in 0 .. r.count - 1 : \E i \in Index : InWindow(r, i) /\ Position(r, i) = k
  BY RingPositions
<1> DEFINE F == {k \in 0 .. r.count : ~ValueFrom(m, x, r, k, a)}
<1>2. SUFFICES ASSUME F # {} PROVE FALSE
  OBVIOUS
<1>3. PICK k \in F : \A j \in F : k <= j
  <2>1. F \subseteq Nat
    BY <1>1
  <2> HIDE DEF F
  <2> QED
    BY <1>2, <2>1, LeastNat
<1>4. k \in 0 .. r.count /\ ~ValueFrom(m, x, r, k, a)
  OBVIOUS
<1>5. k # 0
  <2>1. ValueFrom(m, x, r, 0, a)
    BY DEF ValueFrom
  <2> QED
    BY <1>4, <2>1
<1> DEFINE n == k - 1
<1>6. n \in 0 .. r.count - 1 /\ n \in 0 .. r.count /\ k = n + 1 /\ n \in Nat
  BY <1>1, <1>4, <1>5
<1>7. ValueFrom(m, x, r, n, a)
  BY <1>1, <1>3, <1>6
<1> HIDE DEF n, F
<1>8. PICK i \in Index : InWindow(r, i) /\ Position(r, i) = n
  BY <1>1, <1>6
<1> DEFINE d == r.slot[i].data
<1>9. Renames(m[n], m[k], d) /\ m[n] \in [Register -> Physical]
  BY <1>6, <1>8 DEF History
<1>10. /\ x[k] = Does(d, x[n]) /\ x[n] \in ArchState /\ DataOK(d)
  BY <1>6, <1>8, TraceStates
<1>11. CASE WritesRegister(d.ins) /\ d.ins.rd = a
  <2>1. m[k][a] = d.prd
    BY <1>9, <1>11 DEF Renames
  <2>2. Writes(r, i) /\ Rd(r, i) = a /\ m[k][a] = Prd(r, i) /\ x[k].regs[a] = x[Position(r, i) + 1].regs[a]
    BY <1>6, <1>8, <1>11, <2>1 DEF Writes, Rd, Prd
  <2>3. ValueFrom(m, x, r, k, a)
    BY <2>2 DEF ValueFrom
  <2> QED
    BY <1>4, <2>3
<1>12. CASE ~(WritesRegister(d.ins) /\ d.ins.rd = a)
  <2> HIDE DEF d
  <2>1. m[k][a] = m[n][a]
    BY <1>9, <1>12 DEF Renames
  <2>2. x[k].regs[a] = x[n].regs[a]
    BY <1>10, <1>12, DoesEffect
  <2>3. ValueFrom(m, x, r, k, a)
    BY <1>7, <2>1, <2>2 DEF ValueFrom
  <2> QED
    BY <1>4, <2>3
<1> QED
  BY <1>11, <1>12

(* A register that is ready has the value of the instruction it belongs to. *)
Valued(m, x, r, file) ==
    /\ \A a \in Register : file[m[0][a]].value = x[0].regs[a]
    /\ \A i \in Index : Writes(r, i) /\ file[Prd(r, i)].ready =>
          file[Prd(r, i)].value = x[Position(r, i) + 1].regs[Rd(r, i)]

(* A ready register has the value of the program wherever it is mapped. *)
LEMMA ReadValue ==
    ASSUME NEW r, Ring(r), NEW m, History(m, r), NEW x, Trace(x, r),
           NEW file, Valued(m, x, r, file),
           NEW k \in 0 .. r.count, NEW a \in Register, file[m[k][a]].ready
    PROVE  file[m[k][a]].value = x[k].regs[a]
<1>1. ValueFrom(m, x, r, k, a)
  BY ValuesComeFrom
<1>2. CASE m[k][a] = m[0][a] /\ x[k].regs[a] = x[0].regs[a]
  BY <1>2 DEF Valued
<1>3. ASSUME NEW i \in Index, Writes(r, i), Rd(r, i) = a, m[k][a] = Prd(r, i),
             x[k].regs[a] = x[Position(r, i) + 1].regs[a]
      PROVE  file[m[k][a]].value = x[k].regs[a]
  BY <1>3 DEF Valued
<1> QED
  BY <1>1, <1>2, <1>3 DEF ValueFrom

(* A word of memory that none of the instructions at positions j to k - 1   *)
(* stores to. *)
StoresTo(x, r, i, n) ==
    LET ins == r.slot[i].data.ins
    IN  ins.op = "SW" /\ Meaning!DataIndex(AddressIn(ins, x[Position(r, i)])) = n

(* Such a word keeps its value from j to l. *)
LEMMA WordKept ==
    ASSUME NEW r, Ring(r), NEW x, Trace(x, r), NEW n \in 0 .. DMemWords - 1, NEW j \in 0 .. r.count,
           NEW l \in 0 .. r.count,
           \A i \in Index : InWindow(r, i) /\ j <= Position(r, i) /\ Position(r, i) < l =>
              ~StoresTo(x, r, i, n)
    PROVE  \A k \in j .. l : x[k].mem[n] = x[j].mem[n]
<1>1. /\ r.count \in Nat /\ j \in Nat /\ l \in Nat
      /\ \A i \in Index : Position(r, i) \in Nat /\ (InWindow(r, i) <=> Position(r, i) < r.count)
      /\ \A k \in 0 .. r.count - 1 : \E i \in Index : InWindow(r, i) /\ Position(r, i) = k
  BY RingPositions
<1> DEFINE F == {k \in j .. l : x[k].mem[n] # x[j].mem[n]}
<1>2. SUFFICES ASSUME F # {} PROVE FALSE
  OBVIOUS
<1>3. PICK k \in F : \A i \in F : k <= i
  <2>1. F \subseteq Nat
    BY <1>1
  <2> HIDE DEF F
  <2> QED
    BY <1>2, <2>1, LeastNat
<1>4. k \in j .. l /\ x[k].mem[n] # x[j].mem[n]
  OBVIOUS
<1> DEFINE p == k - 1
<1>5. p \in 0 .. r.count - 1 /\ p \in j .. l /\ k = p + 1 /\ p \in Nat /\ p < l /\ j <= p
  BY <1>1, <1>4
<1>6. x[p].mem[n] = x[j].mem[n]
  BY <1>1, <1>3, <1>5
<1> HIDE DEF p, F
<1>7. PICK i \in Index : InWindow(r, i) /\ Position(r, i) = p
  BY <1>1, <1>5
<1> DEFINE d == r.slot[i].data
<1>8. /\ x[k] = Does(d, x[p]) /\ x[p] \in ArchState /\ DataOK(d)
  BY <1>5, <1>7, TraceStates
<1>9. ~(d.ins.op = "SW" /\ Meaning!DataIndex(AddressIn(d.ins, x[p])) = n)
  BY <1>5, <1>7 DEF StoresTo
<1> HIDE DEF d
<1>10. x[k].mem[n] = x[p].mem[n]
  <2>1. CASE d.ins.op # "SW"
    BY <1>8, <2>1, DoesEffect
  <2>2. CASE d.ins.op = "SW"
    <3> DEFINE addr == AddressIn(d.ins, x[p])
               v == x[p].regs[d.ins.rs2]
    <3>1. x[k].mem = Meaning!WriteData(x[p].mem, addr, v)
      BY <1>8, <2>2, DoesEffect
    <3>2. Meaning!DataIndex(addr) # n
      BY <1>9, <2>2
    <3>3. x[p].mem \in [0 .. DMemWords - 1 -> Word]
      BY <1>8 DEF ArchState
    <3> HIDE DEF addr, v
    <3> QED
      BY <3>1, <3>2, <3>3 DEF Meaning!WriteData
  <2> QED
    BY <2>1, <2>2
<1> QED
  BY <1>4, <1>6, <1>10

(* What an operand is waiting for or has got: s is the state its            *)
(* instruction finds, map what the registers are mapped to there.           *)
Gets(o, map, s, a) == IF o.ready THEN o.value = s.regs[a] ELSE o.reg = map[a]

GetsOperands(e, map, s) == /\ ReadsRs1(e.ins) => Gets(e.op1, map, s, e.ins.rs1)
                           /\ ReadsRs2(e.ins) => Gets(e.op2, map, s, e.ins.rs2)

Operands(q, m, x, r) ==
    \A i \in IQSlot : q[i].valid =>
        GetsOperands(q[i], m[Position(r, q[i].rob)], x[Position(r, q[i].rob)])

(* What the memory queues know: the address of an access and the data of a  *)
(* store are those of the program.  n stores have retired.                  *)
FoundBy(i, x, r) == x[Position(r, i)]
InsAt(r, i)      == r.slot[i].data.ins

Accesses(l, x, r) ==
    \A k \in 1 .. Len(l) :
        LET s == FoundBy(l[k].rob, x, r)
            ins == InsAt(r, l[k].rob)
        IN  /\ l[k].addr # Unknown => l[k].addr = AddressIn(ins, s)
            /\ l[k].type = "STORE" /\ l[k].data # Unknown => l[k].data = s.regs[ins.rs2]

Stored(b, n, x, r) ==
    \A k \in 1 .. Len(b) : k > n /\ ~Pending(r, b[k].rob) =>
        LET s == FoundBy(b[k].rob, x, r)
            ins == InsAt(r, b[k].rob)
        IN  b[k].addr = AddressIn(ins, s) /\ b[k].data = s.regs[ins.rs2]

(* Behind instruction i comes n, be it in flight or still to be fetched: G  *)
(* is where the front end goes on, or empty behind a HALT.                  *)
NextIs(r, G, i, n) ==
    /\ Position(r, i) + 1 = r.count => \A g \in G : g = n
    /\ \A j \in Index : InWindow(r, j) /\ Position(r, j) = Position(r, i) + 1 =>
          r.slot[j].data.pc = n

(* A branch that has executed is followed by what the program goes on with, *)
(* any other one by what it was predicted to be followed by.                *)
Decided(x, r, G) ==
    \A i \in Index : InWindow(r, i) /\ ~Pending(r, i) /\ InsAt(r, i).op \in BranchOps =>
        NextIs(r, G, i, x[Position(r, i) + 1].pc)

Guess(e) == IF e.predTaken THEN Target(e.ins, e.pc) ELSE Behind(e)

Guessed(q, r, G) ==
    \A i \in IQSlot : q[i].valid /\ q[i].ins.op \in BranchOps => NextIs(r, G, q[i].rob, Guess(q[i]))

(* J is never selected. *)
JumpsWait(r) == \A i \in Index : InWindow(r, i) /\ InsAt(r, i).op = "J" => Pending(r, i)

Goes(x, r, q, G) == Decided(x, r, G) /\ Guessed(q, r, G) /\ JumpsWait(r)

-----------------------------------------------------------------------------
(* An instruction executes. *)
SameWindow(r, s) ==
    /\ s.count = r.count
    /\ \A j \in Index : /\ Position(s, j) = Position(r, j)
                        /\ InWindow(s, j) <=> InWindow(r, j)
                        /\ s.slot[j].data = r.slot[j].data

(* Completing an instruction keeps the window. *)
LEMMA SameCompletes ==
    ASSUME NEW r, Ring(r), NEW i \in Index, InWindow(r, i)
    PROVE  SameWindow(r, Complete(r, i)) /\ SameWindow(r, r)
BY CompleteRing DEF SameWindow

(* The trace is of the window and what is in it. *)
LEMMA TraceSame ==
    ASSUME NEW r, NEW s, SameWindow(r, s), NEW x, Trace(x, r)
    PROVE  Trace(x, s)
BY DEF SameWindow, Trace

(* A result is written: the registers of the others keep theirs. *)
LEMMA ValuedSame ==
    ASSUME NEW r, Ring(r), NEW s, SameWindow(r, s), NEW x, NEW m, History(m, r),
           NEW file, Valued(m, x, r, file), NEW f, Partitioned(m[0], r, f),
           NEW i \in Index, NEW filled,
           \A p \in Physical : p # Prd(r, i) \/ ~Writes(r, i) => filled[p] = file[p],
           Writes(r, i) => filled[Prd(r, i)].value = x[Position(r, i) + 1].regs[Rd(r, i)]
    PROVE  Valued(m, x, s, filled)
<1>1. /\ \A j \in Index : Writes(r, j) => Prd(r, j) \in Physical /\ Rd(r, j) \in Register
      /\ m[0] \in [Register -> Physical]
  BY MappedTyped
<1>2. \A a \in Register : filled[m[0][a]] = file[m[0][a]]
  BY <1>1 DEF Partitioned
<1>3. \A j \in Index : /\ Writes(s, j) <=> Writes(r, j)
                       /\ Prd(s, j) = Prd(r, j) /\ Rd(s, j) = Rd(r, j) /\ Position(s, j) = Position(r, j)
  BY DEF SameWindow, Writes, Prd, Rd
<1>4. ASSUME NEW j \in Index, Writes(r, j), filled[Prd(r, j)].ready
      PROVE  filled[Prd(r, j)].value = x[Position(r, j) + 1].regs[Rd(r, j)]
  <2>1. CASE Writes(r, i) /\ Prd(r, j) = Prd(r, i)
    BY <1>4, <2>1 DEF Partitioned
  <2>2. CASE ~(Writes(r, i) /\ Prd(r, j) = Prd(r, i))
    <3>1. filled[Prd(r, j)] = file[Prd(r, j)]
      BY <1>1, <1>4, <2>2
    <3> QED
      BY <1>4, <3>1 DEF Valued
  <2> QED
    BY <2>1, <2>2
<1>5. \A a \in Register : filled[m[0][a]].value = x[0].regs[a]
  BY <1>2 DEF Valued
<1> QED
  BY <1>3, <1>4, <1>5 DEF Valued

(* What an execution leaves of an operand: as it was, or it has waited for  *)
(* p and has got v. *)
Woke(o, u, p, v) == u = o \/ (~o.ready /\ o.reg = p /\ u.ready /\ u.value = v)

(* The queue after instruction i has left it with result v in register p.   *)
LeftWith(q, t, i, p, v) ==
    \A k \in IQSlot : t[k].valid =>
        /\ q[k].valid /\ q[k].rob # i
        /\ t[k].rob = q[k].rob /\ t[k].ins = q[k].ins /\ t[k].pc = q[k].pc
        /\ t[k].predTaken = q[k].predTaken
        /\ Woke(q[k].op1, t[k].op1, p, v) /\ Woke(q[k].op2, t[k].op2, p, v)

(* An operand that is woken up with the right value gets the right value. *)
LEMMA GetsAwake ==
    ASSUME NEW r, Ring(r), NEW m, History(m, r), NEW x, Trace(x, r),
           NEW file, Valued(m, x, r, file),
           NEW k \in 0 .. r.count, NEW a \in Register, NEW o, Gets(o, m[k], x[k], a),
           NEW p, NEW v, file[p].ready, file[p].value = v,
           NEW u, Woke(o, u, p, v)
    PROVE  Gets(u, m[k], x[k], a)
<1>1. CASE u = o
  BY <1>1
<1>2. CASE ~o.ready /\ o.reg = p /\ u.ready /\ u.value = v
  <2>1. m[k][a] = p
    BY <1>2 DEF Gets
  <2>2. file[m[k][a]].value = x[k].regs[a]
    BY <2>1, ReadValue
  <2> QED
    BY <1>2, <2>1, <2>2 DEF Gets
<1> QED
  BY <1>1, <1>2 DEF Woke

(* An entry of the issue queue is an instruction in flight. *)
LEMMA SourcesTyped ==
    ASSUME NEW q, NEW r, Linked(q, r), Ring(r), NEW i \in IQSlot, q[i].valid
    PROVE  /\ q[i].ins.rs1 \in Register /\ q[i].ins.rs2 \in Register /\ q[i].rob \in Index
           /\ InWindow(r, q[i].rob) /\ Pending(r, q[i].rob) /\ Position(r, q[i].rob) \in 0 .. r.count
           /\ q[i].ins = r.slot[q[i].rob].data.ins /\ q[i].pc = r.slot[q[i].rob].data.pc
<1>1. q[i] \in EntrySet /\ q[i].rob \in Index
  BY ValidEntry
<1>2. q[i].ins \in Instruction
  BY <1>1 DEF EntrySet
<1>3. Pending(r, q[i].rob) /\ Describes(q[i], r.slot[q[i].rob].data)
  BY DEF Linked
<1>4. Position(r, q[i].rob) \in Nat /\ Position(r, q[i].rob) < r.count /\ r.count \in Nat
  BY <1>1, <1>3, RingPositions DEF Pending
<1> QED
  BY <1>1, <1>2, <1>3, <1>4 DEF Instruction, Pending, Describes

(* One entry leaves the issue queue and wakes up the others. *)
LEMMA OperandsLeft ==
    ASSUME NEW r, Ring(r), NEW s, SameWindow(r, s), NEW m, History(m, r), NEW x, Trace(x, r),
           NEW file, Valued(m, x, r, file), NEW q, Linked(q, r), Operands(q, m, x, r),
           NEW t, NEW i, NEW p, NEW v, LeftWith(q, t, i, p, v),
           (\A k \in IQSlot : t[k].valid => t[k].op1 = q[k].op1 /\ t[k].op2 = q[k].op2)
             \/ (file[p].ready /\ file[p].value = v)
    PROVE  Operands(t, m, x, s)
<1> SUFFICES ASSUME NEW k \in IQSlot, t[k].valid
             PROVE  GetsOperands(t[k], m[Position(s, t[k].rob)], x[Position(s, t[k].rob)])
  BY DEF Operands
<1> DEFINE n == Position(r, q[k].rob)
<1>1. /\ q[k].valid /\ t[k].rob = q[k].rob /\ t[k].ins = q[k].ins
      /\ Woke(q[k].op1, t[k].op1, p, v) /\ Woke(q[k].op2, t[k].op2, p, v)
  BY DEF LeftWith
<1>2. /\ q[k].ins.rs1 \in Register /\ q[k].ins.rs2 \in Register /\ q[k].rob \in Index
      /\ n \in 0 .. r.count
  BY <1>1, SourcesTyped
<1>3. Position(s, t[k].rob) = n
  BY <1>1, <1>2 DEF SameWindow
<1>4. GetsOperands(q[k], m[n], x[n])
  BY <1>1 DEF Operands
<1> HIDE DEF n
<1>5. CASE t[k].op1 = q[k].op1 /\ t[k].op2 = q[k].op2
  BY <1>1, <1>3, <1>4, <1>5 DEF GetsOperands
<1>6. CASE file[p].ready /\ file[p].value = v
  <2>1. \A a \in Register : Gets(q[k].op1, m[n], x[n], a) => Gets(t[k].op1, m[n], x[n], a)
    BY <1>1, <1>2, <1>6, GetsAwake
  <2>2. \A a \in Register : Gets(q[k].op2, m[n], x[n], a) => Gets(t[k].op2, m[n], x[n], a)
    BY <1>1, <1>2, <1>6, GetsAwake
  <2> QED
    BY <1>1, <1>2, <1>3, <1>4, <2>1, <2>2 DEF GetsOperands
<1> QED
  BY <1>5, <1>6

(* The queue knows of accesses what it knew. *)
LEMMA AccessesSame ==
    ASSUME NEW r, NEW s, SameWindow(r, s), NEW x, NEW l \in Seq(LoadStoreSet), Accesses(l, x, r)
    PROVE  Accesses(l, x, s)
<1> SUFFICES ASSUME NEW k \in 1 .. Len(l)
             PROVE  /\ FoundBy(l[k].rob, x, s) = FoundBy(l[k].rob, x, r)
                    /\ InsAt(s, l[k].rob) = InsAt(r, l[k].rob)
  BY DEF Accesses
<1>1. l[k] \in LoadStoreSet
  OBVIOUS
<1>2. l[k].rob \in Index
  BY <1>1 DEF LoadStoreSet
<1> QED
  BY <1>2 DEF SameWindow, FoundBy, InsAt

(* What comes behind an instruction is a matter of the window. *)
LEMMA NextSame ==
    ASSUME NEW r, NEW s, SameWindow(r, s), NEW G, NEW i \in Index, NEW n
    PROVE  NextIs(s, G, i, n) <=> NextIs(r, G, i, n)
BY DEF SameWindow, NextIs

(* One entry leaves the issue queue and, if it is a branch, is decided. *)
LEMMA GoesLeft ==
    ASSUME NEW r, Ring(r), NEW s, SameWindow(r, s), NEW x, NEW q, Linked(q, r), NEW G, Goes(x, r, q, G),
           NEW t, NEW i \in Index, NEW p, NEW v, LeftWith(q, t, i, p, v),
           \A j \in Index : Pending(s, j) <=> Pending(r, j) /\ j # i,
           InsAt(r, i).op # "J",
           InsAt(r, i).op \in BranchOps => NextIs(r, G, i, x[Position(r, i) + 1].pc)
    PROVE  Goes(x, s, t, G)
<1>1. ASSUME NEW j \in Index, InWindow(s, j), ~Pending(s, j), InsAt(s, j).op \in BranchOps
      PROVE  NextIs(s, G, j, x[Position(s, j) + 1].pc)
  <2>1. InWindow(r, j) /\ InsAt(r, j).op \in BranchOps /\ Position(s, j) = Position(r, j)
    BY <1>1 DEF SameWindow, InsAt
  <2>2. NextIs(r, G, j, x[Position(r, j) + 1].pc)
    <3>1. CASE j = i
      BY <2>1, <3>1
    <3>2. CASE j # i
      BY <1>1, <2>1, <3>2 DEF Goes, Decided
    <3> QED
      BY <3>1, <3>2
  <2> QED
    BY <2>1, <2>2, NextSame
<1>2. ASSUME NEW k \in IQSlot, t[k].valid, t[k].ins.op \in BranchOps
      PROVE  NextIs(s, G, t[k].rob, Guess(t[k]))
  <2>1. /\ q[k].valid /\ t[k].rob = q[k].rob /\ t[k].ins = q[k].ins /\ t[k].pc = q[k].pc
        /\ t[k].predTaken = q[k].predTaken
    BY <1>2 DEF LeftWith
  <2>2. Guess(t[k]) = Guess(q[k])
    BY <2>1 DEF Guess, Behind
  <2>3. NextIs(r, G, q[k].rob, Guess(q[k])) /\ q[k].rob \in Index
    BY <1>2, <2>1, SourcesTyped DEF Goes, Guessed
  <2> QED
    BY <2>1, <2>2, <2>3, NextSame
<1>3. JumpsWait(s)
  BY DEF JumpsWait, Goes, SameWindow, InsAt
<1> QED
  BY <1>1, <1>2, <1>3 DEF Goes, Decided, Guessed

(* The values in the machine are those of the program: m is the history of  *)
(* the mapping, x the trace, and n stores have retired.                     *)
Meant(m, x, r, file, q, l, b, n, G) ==
    /\ Trace(x, r)
    /\ Valued(m, x, r, file)
    /\ Operands(q, m, x, r)
    /\ Accesses(l, x, r)
    /\ Stored(b, n, x, r)
    /\ Goes(x, r, q, G)

(* An instruction has executed: l and b are the memory queues behind it.    *)
LEMMA MeantCompletes ==
    ASSUME NEW r, Ring(r), NEW i \in Index, Pending(r, i), NEW q, Linked(q, r),
           NEW m, NEW map, NEW f, NEW file, Mapped(m, r, map, f, file),
           NEW x, NEW l, NEW b, NEW G, Trace(x, r), Valued(m, x, r, file), Operands(q, m, x, r),
           Goes(x, r, q, G),
           NEW filled,
           \A p \in Physical : p # Prd(r, i) \/ ~Writes(r, i) => filled[p] = file[p],
           Writes(r, i) => /\ filled[Prd(r, i)].ready
                           /\ filled[Prd(r, i)].value = x[Position(r, i) + 1].regs[Rd(r, i)],
           NEW t, NEW v, LeftWith(q, t, i, Prd(r, i), v),
           IF Writes(r, i) THEN v = filled[Prd(r, i)].value
           ELSE \A k \in IQSlot : t[k].valid => t[k].op1 = q[k].op1 /\ t[k].op2 = q[k].op2,
           InsAt(r, i).op # "J",
           InsAt(r, i).op \in BranchOps => NextIs(r, G, i, x[Position(r, i) + 1].pc),
           l \in Seq(LoadStoreSet), Accesses(l, x, r),
           Stored(b, 0, x, Complete(r, i))
    PROVE  /\ Mapped(m, Complete(r, i), map, f, filled)
           /\ Meant(m, x, Complete(r, i), filled, t, l, b, 0, G)
<1> DEFINE s == Complete(r, i)
<1>1. InWindow(r, i) /\ History(m, r) /\ Partitioned(m[0], r, f) /\ Computed(m[0], r, file)
  BY DEF Pending, Mapped
<1>2. SameWindow(r, s) /\ SameWindow(r, r) /\ \A j \in Index : Pending(s, j) <=> Pending(r, j) /\ j # i
  BY <1>1, SameCompletes, CompleteRing
<1>3. Valued(m, x, s, filled) /\ Valued(m, x, r, filled)
  BY <1>1, <1>2, ValuedSame
<1>4. Mapped(m, s, map, f, filled)
  <2>1. \A p \in Physical : filled[p].ready <=> file[p].ready \/ (Writes(r, i) /\ p = Prd(r, i))
    <3> SUFFICES ASSUME NEW p \in Physical
                 PROVE  filled[p].ready <=> file[p].ready \/ (Writes(r, i) /\ p = Prd(r, i))
      OBVIOUS
    <3>1. CASE Writes(r, i) /\ p = Prd(r, i)
      BY <3>1
    <3>2. CASE ~(Writes(r, i) /\ p = Prd(r, i))
      BY <3>2
    <3> QED
      BY <3>1, <3>2
  <2> QED
    BY <1>1, <2>1, MappedCompletes
<1> HIDE DEF s
<1>5. Operands(t, m, x, s)
  BY <1>1, <1>2, <1>3, OperandsLeft
<1>6. Trace(x, s)
  BY <1>2, TraceSame
<1>7. Accesses(l, x, s)
  BY <1>2, AccessesSame
<1>8. Goes(x, s, t, G)
  BY <1>2, GoesLeft
<1>9. Stored(b, 0, x, s)
  BY DEF s
<1> QED
  BY <1>3, <1>4, <1>5, <1>6, <1>7, <1>8, <1>9 DEF Meant, s

-----------------------------------------------------------------------------
(* The head retires: what it has made of the state is committed.            *)
Later(x, r) == [k \in 0 .. r.count - 1 |-> x[k + 1]]

(* Behind a retirement every position is one less. *)
LEMMA CommitShifts ==
    ASSUME NEW r, Ring(r), CanCommit(r), NEW x, NEW j \in Index, InWindow(Commit(r), j)
    PROVE  LET s == Commit(r)
           IN  /\ InWindow(r, j) /\ j # r.head /\ s.slot[j] = r.slot[j]
               /\ Position(r, j) = Position(s, j) + 1 /\ Position(s, j) \in Nat /\ s.count = r.count - 1
               /\ r.count \in Nat
               /\ Pending(s, j) <=> Pending(r, j)
               /\ Later(x, r)[Position(s, j)] = x[Position(r, j)]
               /\ Later(x, r)[Position(s, j) + 1] = x[Position(r, j) + 1]
<1> DEFINE s == Commit(r)
<1>1. /\ InWindow(r, j) /\ j # r.head /\ s.slot[j] = r.slot[j]
      /\ Position(s, j) = Position(r, j) - 1 /\ s.count = r.count - 1 /\ Ring(s)
      /\ Pending(s, j) <=> Pending(r, j)
  BY CommitRing
<1>2. Position(r, j) \in Nat /\ r.count \in Nat /\ Position(s, j) \in Nat /\ Position(s, j) < s.count
  BY <1>1, RingPositions
<1> HIDE DEF s
<1>3. Position(r, j) = Position(s, j) + 1 /\ Position(s, j) \in 0 .. r.count - 1
      /\ Position(s, j) + 1 \in 0 .. r.count - 1
  BY <1>1, <1>2
<1>4. /\ Later(x, r)[Position(s, j)] = x[Position(s, j) + 1]
      /\ Later(x, r)[Position(s, j) + 1] = x[Position(s, j) + 1 + 1]
  BY <1>3 DEF Later
<1> QED
  BY <1>1, <1>2, <1>3, <1>4 DEF s

(* The state behind the head becomes the committed one. *)
LEMMA TraceCommits ==
    ASSUME NEW r, Ring(r), CanCommit(r), NEW x, Trace(x, r)
    PROVE  /\ Trace(Later(x, r), Commit(r))
           /\ Later(x, r)[0] = x[1] /\ x[1] = Does(r.slot[r.head].data, x[0])
           /\ x[0] \in ArchState /\ x[1] \in ArchState /\ r.count >= 1
           /\ InWindow(r, r.head) /\ r.head \in Index /\ Position(r, r.head) = 0
<1> DEFINE s == Commit(r)
           y == Later(x, r)
<1>1. /\ r.head \in Index /\ InWindow(r, r.head) /\ Position(r, r.head) = 0
      /\ s.count = r.count - 1 /\ Ring(s)
  BY CommitRing
<1>2. r.count \in Nat /\ 0 < r.count
  BY <1>1, RingPositions
<1>3. /\ x[0] \in ArchState /\ x[0 + 1] = Does(r.slot[r.head].data, x[0])
      /\ \A k \in 0 .. r.count : x[k] \in ArchState
  BY <1>1, TraceStates
<1>4. y \in [0 .. s.count -> ArchState]
  <2>1. \A k \in 0 .. r.count - 1 : x[k + 1] \in ArchState
    BY <1>2, <1>3
  <2> HIDE DEF s
  <2> QED
    BY <1>1, <2>1 DEF Later
<1>5. \A j \in Index : InWindow(s, j) =>
         /\ InWindow(r, j) /\ s.slot[j] = r.slot[j]
         /\ y[Position(s, j)] = x[Position(r, j)]
         /\ y[Position(s, j) + 1] = x[Position(r, j) + 1]
  BY CommitShifts
<1>6. \A j \in Index : InWindow(r, j) => x[Position(r, j) + 1] = Does(r.slot[j].data, x[Position(r, j)])
  BY DEF Trace
<1>7. y[0] = x[1] /\ 1 \in 0 .. r.count
  BY <1>2 DEF Later
<1> HIDE DEF s, y
<1>8. Trace(y, s)
  BY <1>4, <1>5, <1>6 DEF Trace
<1> QED
  BY <1>1, <1>2, <1>3, <1>7, <1>8 DEF s, y

(* Ready registers keep their meaning when the head retires, *)
LEMMA ValuedCommits ==
    ASSUME NEW r, Ring(r), CanCommit(r), NEW x, Trace(x, r), NEW m, History(m, r),
           NEW file, Valued(m, x, r, file), Computed(Later(m, r)[0], Commit(r), file)
    PROVE  Valued(Later(m, r), Later(x, r), Commit(r), file)
<1>1. /\ Later(x, r)[0] = x[1] /\ r.count >= 1 /\ r.count \in Nat
  BY TraceCommits, RingPositions
<1>2. Later(m, r)[0] = m[1] /\ 1 \in 0 .. r.count
  BY <1>1 DEF Later
<1>3. \A a \in Register : file[m[1][a]].value = x[1].regs[a]
  <2> SUFFICES ASSUME NEW a \in Register PROVE file[m[1][a]].value = x[1].regs[a]
    OBVIOUS
  <2>1. file[m[1][a]].ready
    BY <1>2 DEF Computed
  <2> QED
    BY <1>2, <2>1, ReadValue
<1>4. ASSUME NEW j \in Index, Writes(Commit(r), j), file[Prd(Commit(r), j)].ready
      PROVE  file[Prd(Commit(r), j)].value = Later(x, r)[Position(Commit(r), j) + 1].regs[Rd(Commit(r), j)]
  <2>1. InWindow(Commit(r), j)
    BY <1>4 DEF Writes
  <2>2. /\ InWindow(r, j) /\ Commit(r).slot[j] = r.slot[j]
        /\ Later(x, r)[Position(Commit(r), j) + 1] = x[Position(r, j) + 1]
    BY <2>1, CommitShifts
  <2>3. Prd(Commit(r), j) = Prd(r, j) /\ Rd(Commit(r), j) = Rd(r, j) /\ Writes(r, j)
    BY <1>4, <2>2 DEF Prd, Rd, Writes
  <2> QED
    BY <1>4, <2>2, <2>3 DEF Valued
<1> QED
  BY <1>1, <1>2, <1>3, <1>4 DEF Valued

(* and so do the operands that wait, *)
LEMMA OperandsCommit ==
    ASSUME NEW r, Ring(r), CanCommit(r), NEW m, NEW x, NEW q, Linked(q, r), Operands(q, m, x, r)
    PROVE  Operands(q, Later(m, r), Later(x, r), Commit(r))
<1> SUFFICES ASSUME NEW k \in IQSlot, q[k].valid
             PROVE  LET n == Position(Commit(r), q[k].rob)
                    IN  GetsOperands(q[k], Later(m, r)[n], Later(x, r)[n])
  BY DEF Operands
<1>1. q[k].rob \in Index /\ Pending(r, q[k].rob)
  BY SourcesTyped
<1>2. Pending(Commit(r), q[k].rob)
  BY <1>1, CommitRing
<1>3. InWindow(Commit(r), q[k].rob)
  BY <1>2 DEF Pending
<1>4. /\ Later(m, r)[Position(Commit(r), q[k].rob)] = m[Position(r, q[k].rob)]
      /\ Later(x, r)[Position(Commit(r), q[k].rob)] = x[Position(r, q[k].rob)]
  BY <1>1, <1>3, CommitShifts
<1> QED
  BY <1>4 DEF Operands

(* and the accesses of what stays in the queue. *)
LEMMA AccessesCommit ==
    ASSUME NEW r, Ring(r), CanCommit(r), NEW x, NEW l \in Seq(LoadStoreSet), Accesses(l, x, r),
           LsqOK(l, r)
    PROVE  Accesses(LsqRemove(l, r.head), Later(x, r), Commit(r))
<1> DEFINE s == Commit(r)
           t == LsqRemove(l, r.head)
<1>1. LsqOK(t, s)
  BY LoadStoreRetires
<1>2. Len(t) \in Nat /\ \A k \in 1 .. Len(t) : \E j \in 1 .. Len(l) : t[k] = l[j]
  <2> DEFINE i == Find(l, r.head)
  <2>1. i \in 0 .. Len(l) /\ Len(l) \in Nat
    BY FindEntry
  <2>2. CASE i = 0
    BY <2>1, <2>2 DEF LsqRemove
  <2>3. CASE i # 0
    <3>1. i \in 1 .. Len(l) /\ t = RemoveAt(l, i)
      BY <2>1, <2>3 DEF LsqRemove
    <3> HIDE DEF i
    <3>2. /\ Len(t) = Len(l) - 1
          /\ \A k \in 1 .. Len(l) - 1 : t[k] = IF k < i THEN l[k] ELSE l[k + 1]
      BY <3>1, RemoveAtEntries
    <3> HIDE DEF t
    <3>3. \A k \in 1 .. Len(l) - 1 : k \in 1 .. Len(l) /\ k + 1 \in 1 .. Len(l)
      BY <2>1
    <3>4. Len(t) \in Nat
      BY <2>1, <3>1, <3>2
    <3> QED
      BY <3>2, <3>3, <3>4
  <2> QED
    BY <2>2, <2>3
<1>3. \A k \in 1 .. Len(t) : t[k].rob \in Index /\ InWindow(s, t[k].rob)
  <2>1. Tracks(t, 0, s, {"LW", "SW"}) /\ \A k \in 1 .. Len(t) : k > 0
    BY <1>1, <1>2 DEF LsqOK
  <2> HIDE DEF t, s
  <2> QED
    BY <2>1 DEF Tracks
<1> HIDE DEF t, s
<1> SUFFICES ASSUME NEW k \in 1 .. Len(t)
             PROVE  LET S == FoundBy(t[k].rob, Later(x, r), s)
                        ins == InsAt(s, t[k].rob)
                    IN  /\ t[k].addr # Unknown => t[k].addr = AddressIn(ins, S)
                        /\ t[k].type = "STORE" /\ t[k].data # Unknown => t[k].data = S.regs[ins.rs2]
  BY DEF Accesses, t, s
<1>4. PICK j \in 1 .. Len(l) : t[k] = l[j]
  BY <1>2
<1>5. FoundBy(t[k].rob, Later(x, r), s) = FoundBy(l[j].rob, x, r) /\ InsAt(s, t[k].rob) = InsAt(r, l[j].rob)
  <2> DEFINE p == t[k].rob
  <2>1. l[j].rob = p
    BY <1>4, Zenon
  <2>2. p \in Index /\ InWindow(Commit(r), p)
    BY <1>3 DEF s
  <2> HIDE DEF p
  <2>3. /\ Commit(r).slot[p] = r.slot[p]
        /\ Later(x, r)[Position(Commit(r), p)] = x[Position(r, p)]
    BY <2>2, CommitShifts
  <2>4. FoundBy(p, Later(x, r), s) = FoundBy(p, x, r) /\ InsAt(s, p) = InsAt(r, p)
    BY <2>3 DEF FoundBy, InsAt, s
  <2> QED
    BY <2>1, <2>4 DEF p
<1> QED
  BY <1>4, <1>5 DEF Accesses

(* The store buffer behind the retirement of the head of r. *)
Marked(b, r) == IF InsAt(r, r.head).op = "SW" THEN MarkCommitted(b, r.head) ELSE b
Retired(n, r) == IF InsAt(r, r.head).op = "SW" THEN n + 1 ELSE n

(* Marking a store committed changes neither its address nor its data. *)
LEMMA MarkedEntries ==
    ASSUME NEW b \in Seq(StoreSet), NEW r
    PROVE  /\ Marked(b, r) \in Seq(StoreSet) /\ Len(Marked(b, r)) = Len(b)
           /\ \A k \in 1 .. Len(b) : /\ Marked(b, r)[k].rob = b[k].rob
                                     /\ Marked(b, r)[k].addr = b[k].addr
                                     /\ Marked(b, r)[k].data = b[k].data
<1>1. CASE InsAt(r, r.head).op = "SW"
  <2> DEFINE t == MarkCommitted(b, r.head)
  <2>1. /\ t \in Seq(StoreSet) /\ EntriesKept(b, t)
        /\ \A k \in 1 .. Len(b) : IF k = Find(b, r.head) THEN t[k].addr = b[k].addr /\ t[k].data = b[k].data
                                  ELSE t[k] = b[k]
    BY MarkCommittedEntries
  <2>2. Marked(b, r) = t
    BY <1>1 DEF Marked
  <2> HIDE DEF t
  <2> QED
    BY <2>1, <2>2 DEF EntriesKept
<1>2. CASE InsAt(r, r.head).op # "SW"
  BY <1>2 DEF Marked
<1> QED
  BY <1>1, <1>2

(* The stores that have not retired keep their meaning. *)
LEMMA StoredCommits ==
    ASSUME NEW r, Ring(r), CanCommit(r), NEW x, NEW b \in Seq(StoreSet), NEW n \in Nat,
           BufferOK(b, n, r), Stored(b, n, x, r)
    PROVE  /\ BufferOK(Marked(b, r), Retired(n, r), Commit(r))
           /\ Stored(Marked(b, r), Retired(n, r), Later(x, r), Commit(r))
<1> DEFINE s == Commit(r)
           t == Marked(b, r)
           k == Retired(n, r)
<1>1. BufferOK(t, k, s)
  BY StoreRetires DEF Marked, Retired, InsAt
<1>2. k \in Nat /\ n <= k
  BY DEF Retired
<1>3. /\ Len(t) = Len(b) /\ Len(b) \in Nat
      /\ \A j \in 1 .. Len(b) : t[j].rob = b[j].rob /\ t[j].addr = b[j].addr /\ t[j].data = b[j].data
  BY MarkedEntries
<1>4. \A j \in 1 .. Len(t) : t[j].rob \in Index /\ (InWindow(s, t[j].rob) <=> j > k)
  <2> HIDE DEF s, t, k
  <2> QED
    BY <1>1 DEF BufferOK, Tracks
<1> HIDE DEF s, t, k
<1> SUFFICES ASSUME NEW j \in 1 .. Len(t), j > k, ~Pending(s, t[j].rob)
             PROVE  LET S == FoundBy(t[j].rob, Later(x, r), s)
                        ins == InsAt(s, t[j].rob)
                    IN  t[j].addr = AddressIn(ins, S) /\ t[j].data = S.regs[ins.rs2]
  BY <1>1 DEF Stored, s, t, k
<1> DEFINE p == t[j].rob
<1>5. j \in 1 .. Len(b) /\ j > n /\ p \in Index /\ InWindow(s, p) /\ b[j].rob = p
  BY <1>2, <1>3, <1>4
<1>6. ~Pending(s, p)
  OBVIOUS
<1> HIDE DEF p
<1>7. /\ s.slot[p] = r.slot[p] /\ (Pending(s, p) <=> Pending(r, p))
      /\ Later(x, r)[Position(s, p)] = x[Position(r, p)]
  BY <1>5, CommitShifts DEF s
<1>8. FoundBy(p, Later(x, r), s) = FoundBy(p, x, r) /\ InsAt(s, p) = InsAt(r, p)
  BY <1>7 DEF FoundBy, InsAt
<1>9. b[j].addr = AddressIn(InsAt(r, p), FoundBy(p, x, r)) /\ b[j].data = FoundBy(p, x, r).regs[InsAt(r, p).rs2]
  BY <1>5, <1>6, <1>7 DEF Stored
<1>10. t[j].addr = b[j].addr /\ t[j].data = b[j].data
  BY <1>3, <1>5
<1> QED
  BY <1>8, <1>9, <1>10 DEF p

(* Behind each other instruction comes what came before, *)
LEMMA NextCommits ==
    ASSUME NEW r, Ring(r), CanCommit(r), NEW G, NEW j \in Index, InWindow(Commit(r), j), NEW n,
           NextIs(r, G, j, n)
    PROVE  NextIs(Commit(r), G, j, n)
<1> DEFINE s == Commit(r)
<1>1. /\ Position(r, j) = Position(s, j) + 1 /\ Position(s, j) \in Nat /\ s.count = r.count - 1 /\ r.count \in Nat
  BY CommitShifts
<1>2. \A i \in Index : InWindow(s, i) =>
         /\ InWindow(r, i) /\ s.slot[i] = r.slot[i] /\ Position(r, i) = Position(s, i) + 1 /\ Position(s, i) \in Nat
  BY CommitShifts
<1> HIDE DEF s
<1>3. Position(s, j) + 1 = s.count => Position(r, j) + 1 = r.count
  BY <1>1
<1>4. \A i \in Index : InWindow(s, i) /\ Position(s, i) = Position(s, j) + 1 =>
         InWindow(r, i) /\ Position(r, i) = Position(r, j) + 1
  BY <1>1, <1>2
<1> QED
  BY <1>2, <1>3, <1>4 DEF NextIs, s

(* so that branches go where they went. *)
LEMMA GoesCommits ==
    ASSUME NEW r, Ring(r), CanCommit(r), NEW x, NEW q, Linked(q, r), NEW G, Goes(x, r, q, G)
    PROVE  Goes(Later(x, r), Commit(r), q, G)
<1> DEFINE s == Commit(r)
<1>1. \A j \in Index : InWindow(s, j) =>
         /\ InWindow(r, j) /\ InsAt(s, j) = InsAt(r, j) /\ (Pending(s, j) <=> Pending(r, j))
         /\ Later(x, r)[Position(s, j) + 1] = x[Position(r, j) + 1]
  BY CommitShifts DEF InsAt
<1>2. \A j \in Index : InWindow(s, j) => \A n : NextIs(r, G, j, n) => NextIs(s, G, j, n)
  BY NextCommits
<1>3. \A k \in IQSlot : q[k].valid => q[k].rob \in Index /\ Pending(r, q[k].rob)
  BY SourcesTyped
<1>4. \A k \in IQSlot : q[k].valid => q[k].rob \in Index /\ InWindow(s, q[k].rob)
  <2>1. \A j \in Index : Pending(s, j) <=> Pending(r, j)
    BY CommitRing
  <2> QED
    BY <1>3, <2>1 DEF Pending
<1> HIDE DEF s
<1>5. Decided(Later(x, r), s, G)
  BY <1>1, <1>2 DEF Decided, Goes
<1>6. Guessed(q, s, G)
  BY <1>2, <1>4 DEF Guessed, Goes
<1>7. JumpsWait(s)
  BY <1>1 DEF JumpsWait, Goes
<1> QED
  BY <1>5, <1>6, <1>7 DEF Goes, s

(* All of it together, when the head retires. *)
LEMMA MeantCommits ==
    ASSUME NEW r, Ring(r), CanCommit(r), NEW q, Linked(q, r), NEW m, NEW map, NEW f \in Seq(Physical),
           NEW file, Mapped(m, r, map, f, file), NEW x, NEW l \in Seq(LoadStoreSet), LsqOK(l, r),
           NEW b \in Seq(StoreSet), NEW n \in Nat, BufferOK(b, n, r), NEW G,
           Meant(m, x, r, file, q, l, b, n, G), NEW d, d = r.slot[r.head].data
    PROVE  /\ Mapped(Later(m, r), Commit(r), map, IF WritesRegister(d.ins) THEN Append(f, d.old) ELSE f, file)
           /\ Meant(Later(m, r), Later(x, r), Commit(r), file, q, LsqRemove(l, r.head),
                    Marked(b, r), Retired(n, r), G)
           /\ BufferOK(Marked(b, r), Retired(n, r), Commit(r))
<1>1. Mapped(Later(m, r), Commit(r), map, IF WritesRegister(d.ins) THEN Append(f, d.old) ELSE f, file)
  BY MappedCommits DEF Later
<1>2. Computed(Later(m, r)[0], Commit(r), file) /\ History(m, r)
  BY <1>1 DEF Mapped
<1>3. /\ Trace(x, r) /\ Valued(m, x, r, file) /\ Operands(q, m, x, r) /\ Accesses(l, x, r)
      /\ Stored(b, n, x, r) /\ Goes(x, r, q, G)
  BY DEF Meant
<1>4. Trace(Later(x, r), Commit(r))
  BY <1>3, TraceCommits
<1>5. Valued(Later(m, r), Later(x, r), Commit(r), file)
  BY <1>2, <1>3, ValuedCommits
<1>6. Operands(q, Later(m, r), Later(x, r), Commit(r))
  BY <1>3, OperandsCommit
<1>7. Accesses(LsqRemove(l, r.head), Later(x, r), Commit(r))
  BY <1>3, AccessesCommit
<1>8. /\ Stored(Marked(b, r), Retired(n, r), Later(x, r), Commit(r))
      /\ BufferOK(Marked(b, r), Retired(n, r), Commit(r))
  BY <1>3, StoredCommits
<1>9. Goes(Later(x, r), Commit(r), q, G)
  BY <1>3, GoesCommits
<1> QED
  BY <1>1, <1>4, <1>5, <1>6, <1>7, <1>8, <1>9 DEF Meant

-----------------------------------------------------------------------------
(* Where the program goes on behind the head of the reorder buffer.         *)
PcAt(r, stop, next) == IF stop THEN Meaning!Stopped
                       ELSE IF r.count > 0 THEN r.slot[r.head].data.pc ELSE next

HaltComing(r, stopped) == stopped => \E i \in Index : InWindow(r, i) /\ InsAt(r, i).op = "HALT"

(* The head is the oldest instruction. *)
LEMMA RingHead ==
    ASSUME NEW r, Ring(r)
    PROVE  /\ r.head \in Index /\ Position(r, r.head) = 0 /\ r.count \in Nat
           /\ r.count > 0 => InWindow(r, r.head)
<1>1. r.head \in Index /\ r.count \in Nat /\ Capacity \in Nat \ {0}
  BY RingPositions, CapacityAssumption DEF Ring, InOrder
<1>2. Position(r, r.head) = 0
  <2>1. r.head - r.head = 0 /\ 0 % Capacity = 0
    BY <1>1 DEF Index
  <2> QED
    BY <2>1 DEF Position
<1> QED
  BY <1>1, <1>2 DEF InWindow

(* Behind the head comes the instruction that the program goes on with. *)
LEMMA HeadNext ==
    ASSUME NEW r, Ring(r), CanCommit(r), NEW x, Trace(x, r), NEW pc, NEW stopped \in BOOLEAN, NEW q,
           NEW G, G = IF stopped THEN {} ELSE {pc}, Goes(x, r, q, G), NEW p, Path(p, r, pc, stopped),
           HaltComing(r, stopped), NEW d, d = r.slot[r.head].data
    PROVE  /\ PcAt(Commit(r), d.ins.op = "HALT", pc) = x[1].pc
           /\ d.ins.op # "HALT" => HaltComing(Commit(r), stopped)
<1> DEFINE s == Commit(r)
<1>1. /\ r.head \in Index /\ InWindow(r, r.head) /\ Position(r, r.head) = 0 /\ Ring(s)
      /\ s.count = r.count - 1
      /\ \A j \in Index : /\ InWindow(s, j) <=> InWindow(r, j) /\ j # r.head
                          /\ j # r.head => s.slot[j] = r.slot[j] /\ Position(s, j) = Position(r, j) - 1
      /\ \A j \in Index : Position(r, j) \in Nat
      /\ r.count \in Nat
  BY CommitRing, RingPositions
<1>2. s.head \in Index /\ Position(s, s.head) = 0 /\ s.count \in Nat /\ (s.count > 0 => InWindow(s, s.head))
  BY <1>1, RingHead
<1>3. DataOK(d) /\ x[0] \in ArchState /\ x[1] = Does(d, x[0])
  BY <1>1, TraceCommits, TraceStates
<1>4. ~Pending(r, r.head)
  BY DEF Pending, CanCommit
<1>5. d.ins.op # "J"
  BY <1>1, <1>4 DEF Goes, JumpsWait, InsAt
<1> HIDE DEF s
<1>6. CASE d.ins.op = "HALT"
  BY <1>3, <1>6, DoesEffect DEF PcAt
<1>7. CASE d.ins.op # "HALT"
  <2>1. HaltComing(s, stopped)
    <3>1. SUFFICES ASSUME stopped PROVE \E i \in Index : InWindow(s, i) /\ InsAt(s, i).op = "HALT"
      BY DEF HaltComing
    <3>2. PICK i \in Index : InWindow(r, i) /\ InsAt(r, i).op = "HALT"
      BY <3>1 DEF HaltComing
    <3>3. i # r.head
      BY <1>7, <3>2 DEF InsAt
    <3> QED
      BY <1>1, <3>2, <3>3 DEF InsAt
  <2>2. s.count > 0 => /\ s.head # r.head /\ InWindow(r, s.head) /\ Position(r, s.head) = 0 + 1
                       /\ s.slot[s.head] = r.slot[s.head]
    <3>1. SUFFICES ASSUME s.count > 0
                   PROVE  /\ s.head # r.head /\ InWindow(r, s.head) /\ Position(r, s.head) = 0 + 1
                          /\ s.slot[s.head] = r.slot[s.head]
      OBVIOUS
    <3>2. s.head # r.head /\ InWindow(r, s.head) /\ s.slot[s.head] = r.slot[s.head]
          /\ Position(s, s.head) = Position(r, s.head) - 1
      BY <1>1, <1>2, <3>1
    <3> QED
      BY <1>1, <1>2, <3>2
  <2>3. s.count = 0 => r.count - 1 = 0 /\ 0 + 1 = r.count /\ ~stopped
    <3>1. s.count = 0 => r.count - 1 = 0 /\ 0 + 1 = r.count
      BY <1>1
    <3>2. s.count = 0 => \A i \in Index : ~InWindow(s, i)
      BY <1>1, RingPositions
    <3> QED
      BY <2>1, <3>1, <3>2 DEF HaltComing
  <2>4. CASE d.ins.op \in BranchOps
    <3>1. NextIs(r, G, r.head, x[0 + 1].pc)
      BY <1>1, <1>4, <2>4 DEF Goes, Decided, InsAt
    <3>2. s.count > 0 => s.slot[s.head].data.pc = x[1].pc
      BY <1>1, <1>2, <2>2, <3>1 DEF NextIs
    <3>3. s.count = 0 => pc = x[1].pc
      BY <1>1, <2>3, <3>1 DEF NextIs
    <3> QED
      BY <1>2, <1>7, <2>1, <3>2, <3>3 DEF PcAt, s
  <2>5. CASE d.ins.op \notin BranchOps
    <3>1. x[1].pc = Behind(d)
      BY <1>3, <1>5, <1>7, <2>5, DoesEffect
    <3>2. s.count > 0 => s.slot[s.head].data.pc = x[1].pc
      <4>1. s.count > 0 => Follows(d, r.slot[s.head].data.pc)
        BY <1>1, <1>2, <2>2 DEF Path, Chained
      <4> QED
        BY <2>2, <2>5, <3>1, <4>1 DEF Follows
    <3>3. s.count = 0 => pc = x[1].pc
      <4>1. s.count = 0 => Follows(d, pc)
        BY <1>1, <2>3 DEF Path, LeadsTo
      <4> QED
        BY <2>5, <3>1, <4>1 DEF Follows
    <3> QED
      BY <1>2, <1>7, <2>1, <3>2, <3>3 DEF PcAt, s
  <2> QED
    BY <2>4, <2>5
<1> QED
  BY <1>6, <1>7

(* Memory with the first n stores of the buffer in it. *)
Written(b, n) ==
    CASE n = 0 -> dmem
      [] n = 1 -> Meaning!WriteData(dmem, b[1].addr, b[1].data)
      [] n = 2 -> Meaning!WriteData(Meaning!WriteData(dmem, b[1].addr, b[1].data), b[2].addr, b[2].data)

(* Memory with the n oldest stores written, and with one more. *)
LEMMA WrittenNext ==
    ASSUME NEW n \in {0, 1}, NEW b, NEW t,
           \A k \in 1 .. n + 1 : t[k].addr = b[k].addr /\ t[k].data = b[k].data
    PROVE  /\ Written(t, n) = Written(b, n)
           /\ Written(t, n + 1) = Meaning!WriteData(Written(b, n), b[n + 1].addr, b[n + 1].data)
<1>1. CASE n = 0
  <2>1. 1 \in 1 .. n + 1
    BY <1>1
  <2>2. t[1].addr = b[1].addr /\ t[1].data = b[1].data
    BY <2>1
  <2> QED
    BY <1>1, <2>2 DEF Written
<1>2. CASE n = 1
  <2>1. 1 \in 1 .. n + 1 /\ 2 \in 1 .. n + 1
    BY <1>2
  <2>2. t[1].addr = b[1].addr /\ t[1].data = b[1].data /\ t[2].addr = b[2].addr /\ t[2].data = b[2].data
    BY <2>1
  <2> QED
    BY <1>2, <2>2 DEF Written
<1> QED
  BY <1>1, <1>2

(* A store that retires is the next one of the buffer. *)
LEMMA StoreWritten ==
    ASSUME NEW r, Ring(r), CanCommit(r), NEW x, Trace(x, r), NEW b \in Seq(StoreSet), NEW n \in {0, 1},
           BufferOK(b, n, r), Stored(b, n, x, r), x[0].mem = Written(b, n)
    PROVE  x[1].mem = Written(Marked(b, r), Retired(n, r))
<1> DEFINE d == r.slot[r.head].data
           t == Marked(b, r)
<1>1. /\ r.head \in Index /\ InWindow(r, r.head) /\ Position(r, r.head) = 0
      /\ x[0] \in ArchState /\ x[1] = Does(d, x[0]) /\ DataOK(d)
  BY TraceCommits, TraceStates
<1>2. /\ Len(t) = Len(b) /\ Len(b) \in Nat
      /\ \A k \in 1 .. Len(b) : t[k].addr = b[k].addr /\ t[k].data = b[k].data
  BY MarkedEntries
<1>3. Tracks(b, n, r, {"SW"}) /\ n \in Nat /\ n \in 0 .. Len(b)
  BY DEF BufferOK, Tracks
<1>4. InsAt(r, r.head) = d.ins
  BY DEF InsAt
<1>5. CASE d.ins.op = "SW"
  <2>1. Find(b, r.head) = n + 1 /\ n + 1 \in 1 .. Len(b)
    <3>1. r.slot[r.head].data.ins.op \in {"SW"}
      BY <1>5
    <3> HIDE DEF d, t
    <3> QED
      BY <1>3, <3>1, TracksCommitted, Zenon
  <2>2. b[n + 1].rob = r.head
    <3>1. Find(b, r.head) > 0 /\ Find(b, r.head) \in 1 .. Len(b)
      BY <2>1
    <3>2. b[Find(b, r.head)].rob = r.head
      BY <3>1, FindEntry
    <3> QED
      BY <2>1, <3>2
  <2>3. ~Pending(r, r.head)
    BY DEF Pending, CanCommit
  <2>4. /\ b[n + 1].addr = AddressIn(d.ins, x[0]) /\ b[n + 1].data = x[0].regs[d.ins.rs2]
    <3>1. n + 1 > n /\ ~Pending(r, b[n + 1].rob)
      BY <1>3, <2>2, <2>3
    <3>2. FoundBy(b[n + 1].rob, x, r) = x[0] /\ InsAt(r, b[n + 1].rob) = d.ins
      BY <1>1, <1>4, <2>2 DEF FoundBy
    <3> QED
      BY <2>1, <3>1, <3>2 DEF Stored
  <2> HIDE DEF d
  <2>5. x[1].mem = Meaning!WriteData(x[0].mem, b[n + 1].addr, b[n + 1].data)
    <3>1. x[1].mem = Meaning!WriteData(x[0].mem, AddressIn(d.ins, x[0]), x[0].regs[d.ins.rs2])
      BY <1>1, <1>5, DoesEffect
    <3> QED
      BY <2>4, <3>1, Zenon
  <2>6. \A k \in 1 .. n + 1 : t[k].addr = b[k].addr /\ t[k].data = b[k].data
    BY <1>2, <2>1
  <2>7. Written(t, n + 1) = Meaning!WriteData(Written(b, n), b[n + 1].addr, b[n + 1].data)
    BY <2>6, WrittenNext
  <2>8. Retired(n, r) = n + 1
    BY <1>4, <1>5 DEF Retired
  <2> QED
    BY <2>5, <2>7, <2>8
<1>6. CASE d.ins.op # "SW"
  <2>1. x[1].mem = x[0].mem
    BY <1>1, <1>6, DoesEffect
  <2>2. t = b /\ Retired(n, r) = n
    BY <1>4, <1>6 DEF Marked, Retired
  <2> QED
    BY <2>1, <2>2
<1> QED
  BY <1>5, <1>6

(* What the retirement of d makes of the registers and of the free list. *)
Committed(regs, d, file) == IF WritesRegister(d.ins) THEN [regs EXCEPT ![d.ins.rd] = file[d.prd].value]
                            ELSE regs
Released(f, d)           == IF WritesRegister(d.ins) THEN Append(f, d.old) ELSE f

(* The registers are those the program has made. *)
LEMMA WriterCommitted ==
    ASSUME NEW r, Ring(r), CanCommit(r), NEW x, Trace(x, r), NEW m, NEW map, NEW f, NEW file,
           Mapped(m, r, map, f, file), Valued(m, x, r, file), NEW d, d = r.slot[r.head].data
    PROVE  x[1].regs = Committed(x[0].regs, d, file)
<1>1. /\ r.head \in Index /\ InWindow(r, r.head) /\ Position(r, r.head) = 0
      /\ x[0] \in ArchState /\ x[1] = Does(d, x[0]) /\ DataOK(d) /\ x[1] \in ArchState
  BY TraceCommits, TraceStates
<1>2. x[0].regs \in [Register -> Word] /\ x[1].regs \in [Register -> Word]
  BY <1>1 DEF ArchState
<1>3. CASE WritesRegister(d.ins)
  <2>1. Writes(r, r.head) /\ Prd(r, r.head) = d.prd /\ Rd(r, r.head) = d.ins.rd
    BY <1>1, <1>3 DEF Writes, Prd, Rd
  <2>2. ~Pending(r, r.head)
    BY DEF Pending, CanCommit
  <2>3. file[d.prd].ready
    BY <1>1, <2>1, <2>2 DEF Mapped, Computed
  <2>4. file[d.prd].value = x[0 + 1].regs[d.ins.rd]
    BY <1>1, <2>1, <2>3 DEF Valued
  <2>5. \A a \in Register : a # d.ins.rd => x[1].regs[a] = x[0].regs[a]
    BY <1>1, <1>3, DoesEffect
  <2> DEFINE g == x[1].regs
             h == x[0].regs
             a == d.ins.rd
  <2>6. g = [h EXCEPT ![a] = g[a]]
    <3>1. \A c \in Register : c # a => g[c] = h[c]
      BY <2>5
    <3>2. g \in [Register -> Word] /\ h \in [Register -> Word]
      BY <1>2
    <3> HIDE DEF g, h, a
    <3> QED
      BY <3>1, <3>2
  <2>7. x[1].regs[d.ins.rd] = file[d.prd].value
    BY <2>4
  <2> QED
    BY <1>3, <2>6, <2>7, Zenon DEF Committed
<1>4. CASE ~WritesRegister(d.ins)
  BY <1>1, <1>4, DoesEffect DEF Committed
<1> QED
  BY <1>3, <1>4

Going == IF haltDispatched THEN {} ELSE {Coming}

(* The commit stage between two retirements: m and x are of what is still   *)
(* in flight. *)
Retiring(s, n, m, x) ==
    /\ RetireOK(s, n) /\ RetireQueues(s)
    /\ Path(rom, s.rob, Coming, haltDispatched)
    /\ ~s.halted => HaltComing(s.rob, haltDispatched)
    /\ Mapped(m, s.rob, rat, s.free, prf)
    /\ Meant(m, x, s.rob, prf, iq, s.lsq, s.buffer, s.stores, Going)
    /\ x[0].regs = s.arf /\ x[0].mem = Written(s.buffer, s.stores)

(* The fields that a retirement gives the commit stage. *)
LEMMA RetiredFields ==
    ASSUME NEW s, ~s.halted, NEW r, r = s.rob, CanCommit(r),
           NEW t, t = RetireHead(s), NEW d, d = r.slot[r.head].data
    PROVE  /\ t.rob = Commit(r) /\ t.lsq = LsqRemove(s.lsq, r.head)
           /\ t.arf = Committed(s.arf, d, prf) /\ t.free = Released(s.free, d)
           /\ t.halted = (d.ins.op = "HALT")
           /\ t.buffer = Marked(s.buffer, r) /\ t.stores = Retired(s.stores, r)
<1> DEFINE e == s.rob.slot[s.rob.head].data
           y == RetireHead(s)
<1>1. /\ y.rob = Commit(s.rob) /\ y.lsq = LsqRemove(s.lsq, s.rob.head)
      /\ y.arf = Committed(s.arf, e, prf) /\ y.free = Released(s.free, e)
      /\ y.halted = (e.ins.op = "HALT")
      /\ y.buffer = IF e.ins.op = "SW" THEN MarkCommitted(s.buffer, s.rob.head) ELSE s.buffer
      /\ y.stores = IF e.ins.op = "SW" THEN s.stores + 1 ELSE s.stores
  BY Zenon DEF RetireHead, Committed, Released
<1>2. e = d /\ y = t /\ InsAt(r, r.head) = d.ins
  BY DEF InsAt
<1> HIDE DEF e, y
<1> QED
  BY <1>1, <1>2, Zenon DEF Marked, Retired

(* The head retires: the commit stage goes on with the program one step later. *)
LEMMA HeadRetired ==
    ASSUME MachineOK, NEW n \in {0, 1}, NEW s, NEW m, NEW x, Retiring(s, n, m, x), ~s.halted,
           NEW r, r = s.rob, CanCommit(r), NEW t, t = RetireHead(s),
           NEW d, d = r.slot[r.head].data
    PROVE  /\ Retiring(t, n + 1, Later(m, r), Later(x, r))
           /\ Later(x, r)[0] = Does(d, x[0])
           /\ PcAt(t.rob, t.halted, Coming) = Later(x, r)[0].pc
<1> DEFINE m1 == Later(m, r)
           x1 == Later(x, r)
<1>2. /\ RetireOK(s, n) /\ RetireQueues(s) /\ Path(rom, r, Coming, haltDispatched)
      /\ HaltComing(r, haltDispatched) /\ Mapped(m, r, rat, s.free, prf)
      /\ Meant(m, x, r, prf, iq, s.lsq, s.buffer, s.stores, Going)
      /\ x[0].regs = s.arf /\ x[0].mem = Written(s.buffer, s.stores)
  BY DEF Retiring
<1>3. /\ Ring(r) /\ Linked(iq, r) /\ s.free \in Seq(Physical) /\ s.lsq \in Seq(LoadStoreSet)
      /\ s.buffer \in Seq(StoreSet) /\ s.stores \in 0 .. n
      /\ LsqOK(s.lsq, r) /\ BufferOK(s.buffer, s.stores, r)
  BY <1>2 DEF RetireOK, RetireQueues
<1>4. n \in Nat /\ n + 1 \in Nat /\ s.stores \in Nat /\ s.stores \in {0, 1}
  BY <1>3
<1>5. prf \in [Physical -> Cell] /\ haltDispatched \in BOOLEAN
  BY DEF MachineOK
<1>6. RetireOK(t, n + 1) /\ RetireQueues(t)
  <2>1. RetireOK(RetireHead(s), n + 1)
    BY <1>2, <1>4, <1>5, RetireHeadTyped
  <2>2. RetireQueues(RetireHead(s))
    BY <1>2, <1>4, HeadRetires
  <2> QED
    BY <2>1, <2>2
<1>7. Path(rom, t.rob, Coming, haltDispatched)
  BY <1>2, <1>4, HeadPath
<1>8. /\ t.rob = Commit(r) /\ t.lsq = LsqRemove(s.lsq, r.head)
      /\ t.arf = Committed(s.arf, d, prf) /\ t.free = Released(s.free, d)
      /\ t.halted = (d.ins.op = "HALT")
      /\ t.buffer = Marked(s.buffer, r) /\ t.stores = Retired(s.stores, r)
  BY RetiredFields
<1>10. /\ Trace(x, r) /\ Valued(m, x, r, prf) /\ Stored(s.buffer, s.stores, x, r)
       /\ Goes(x, r, iq, Going)
  BY <1>2 DEF Meant
<1>11. x1[0] = x[1] /\ x[1] = Does(d, x[0])
  BY <1>3, <1>10, TraceCommits
<1>12. x[1].mem = Written(t.buffer, t.stores)
  <2>1. x[1].mem = Written(Marked(s.buffer, r), Retired(s.stores, r))
    BY <1>2, <1>3, <1>4, <1>10, StoreWritten
  <2> QED
    BY <1>8, <2>1, Zenon
<1>13. x[1].regs = t.arf
  <2>1. x[1].regs = Committed(x[0].regs, d, prf)
    BY <1>2, <1>3, <1>10, WriterCommitted
  <2>2. x[0].regs = s.arf
    BY <1>2
  <2>3. t.arf = Committed(s.arf, d, prf)
    BY <1>8
  <2> QED
    BY <2>1, <2>2, <2>3, Zenon
<1>14. /\ PcAt(Commit(r), d.ins.op = "HALT", Coming) = x[1].pc
       /\ d.ins.op # "HALT" => HaltComing(Commit(r), haltDispatched)
  <2>1. Going = (IF haltDispatched THEN {} ELSE {Coming}) /\ Trace(x, r) /\ Goes(x, r, iq, Going)
    BY <1>10 DEF Going
  <2> QED
    BY <1>2, <1>3, <1>5, <2>1, HeadNext
<1>15. /\ Mapped(m1, Commit(r), rat, Released(s.free, d), prf)
       /\ Meant(m1, x1, Commit(r), prf, iq, LsqRemove(s.lsq, r.head), Marked(s.buffer, r),
                Retired(s.stores, r), Going)
  BY <1>2, <1>3, <1>4, MeantCommits DEF Released
<1> HIDE DEF m1, x1
<1>16. Retiring(t, n + 1, m1, x1)
  BY <1>6, <1>7, <1>8, <1>11, <1>12, <1>13, <1>14, <1>15 DEF Retiring
<1>17. PcAt(t.rob, t.halted, Coming) = x1[0].pc
  BY <1>8, <1>11, <1>14
<1> QED
  BY <1>11, <1>16, <1>17 DEF m1, x1

(* What is visible of the CPU between two retirements. *)
Visible(s) == [pc |-> PcAt(s.rob, s.halted, Coming), regs |-> s.arf, mem |-> Written(s.buffer, s.stores)]

(* One instruction of the program. *)
Executes(u, v) == /\ u.pc # Meaning!Stopped
                  /\ v = Meaning!Execute(Meaning!InstructionAt(rom, u.pc), u)

(* What is visible makes one step of the sequential machine. *)
LEMMA HeadExecutes ==
    ASSUME MachineOK, NEW n \in {0, 1}, NEW s, NEW m, NEW x, Retiring(s, n, m, x), ~s.halted,
           CanCommit(s.rob)
    PROVE  Executes(Visible(s), Visible(RetireHead(s)))
<1> DEFINE r == s.rob
           d == r.slot[r.head].data
           t == RetireHead(s)
           y == Later(x, r)[0]
           u == Visible(s)
           v == Visible(t)
<1>1. /\ Retiring(t, n + 1, Later(m, r), Later(x, r))
      /\ y = Does(d, x[0])
      /\ PcAt(t.rob, t.halted, Coming) = y.pc
  BY HeadRetired
<1>2. y.regs = t.arf /\ y.mem = Written(t.buffer, t.stores)
  BY <1>1 DEF Retiring
<1>3. Ring(r) /\ Path(rom, r, Coming, haltDispatched) /\ x[0].regs = s.arf /\ x[0].mem = Written(s.buffer, s.stores)
  BY DEF Retiring, RetireOK
<1>4. InWindow(r, r.head) /\ r.head \in Index /\ r.count \in Nat /\ r.count > 0 /\ DataOK(d)
  <2>1. Trace(x, r)
    BY DEF Retiring, Meant
  <2>2. InWindow(r, r.head) /\ r.head \in Index /\ r.count >= 1 /\ r.count \in Nat
    BY <1>3, <2>1, TraceCommits, RingHead
  <2> QED
    BY <1>3, <2>2 DEF Ring
<1>5. d.ins = Meaning!InstructionAt(rom, d.pc)
  BY <1>3, <1>4 DEF Path, FetchedFrom
<1>6. d.pc \in PcValue /\ d.pc # Meaning!Stopped
  BY <1>4 DEF DataOK, PcValue, Meaning!Stopped
<1>7. u = [pc |-> d.pc, regs |-> x[0].regs, mem |-> x[0].mem]
  <2>1. PcAt(r, s.halted, Coming) = d.pc
    BY <1>4 DEF PcAt
  <2> HIDE DEF r, d
  <2> QED
    BY <1>3, <2>1 DEF Visible, r
<1>8. v = [pc |-> y.pc, regs |-> y.regs, mem |-> y.mem]
  <2> HIDE DEF t, y
  <2> QED
    BY <1>1, <1>2 DEF Visible
<1>9. y = [pc |-> y.pc, regs |-> y.regs, mem |-> y.mem]
  <2> HIDE DEF y, d
  <2> QED
    BY <1>1, DoesWhat
<1> HIDE DEF y, d, r, t, u, v
<1>10. v = Meaning!Execute(d.ins, u)
  BY <1>1, <1>7, <1>8, <1>9 DEF Does
<1>11. u.pc = d.pc
  BY <1>7
<1> QED
  BY <1>5, <1>6, <1>10, <1>11 DEF Executes, t, u, v

(* The head retires, if it can. *)
LEMMA HeadTried ==
    ASSUME MachineOK, NEW n \in {0, 1}, NEW s, \E m, x : Retiring(s, n, m, x)
    PROVE  /\ \E m, x : Retiring(RetireHead(s), n + 1, m, x)
           /\ Visible(RetireHead(s)) = Visible(s) \/ Executes(Visible(s), Visible(RetireHead(s)))
<1>1. PICK m, x : Retiring(s, n, m, x)
  OBVIOUS
<1>2. CASE s.halted \/ ~CanCommit(s.rob)
  <2>1. RetireHead(s) = s
    BY <1>2, RetireStops
  <2>2. RetireOK(s, n + 1)
    <3>1. \A k \in 0 .. n : k \in 0 .. n + 1
      OBVIOUS
    <3> QED
      BY <1>1, <3>1 DEF Retiring, RetireOK
  <2>3. Retiring(s, n + 1, m, x)
    BY <1>1, <2>2 DEF Retiring
  <2>4. \E mm, xx : Retiring(s, n + 1, mm, xx)
    BY <2>3
  <2> QED
    BY <2>1, <2>4, Zenon
<1>3. CASE ~s.halted /\ CanCommit(s.rob)
  <2>1. Executes(Visible(s), Visible(RetireHead(s)))
    BY <1>1, <1>3, HeadExecutes
  <2>2. Retiring(RetireHead(s), n + 1, Later(m, s.rob), Later(x, s.rob))
    BY <1>1, <1>3, HeadRetired
  <2> QED
    BY <2>1, <2>2, Zenon
<1> QED
  BY <1>2, <1>3

(* What has retired is in memory when the store buffer has drained. *)
LEMMA DrainedMemory ==
    ASSUME dmem \in [0 .. DMemWords - 1 -> Word], NEW s, RetireOK(s, 2), RetireQueues(s)
    PROVE  Drained(s).mem = Written(s.buffer, s.stores)
<1> DEFINE b == s.buffer
           t == [buffer |-> b, mem |-> dmem]
<1>1. /\ b \in Seq(StoreSet) /\ s.stores \in {0, 1, 2} /\ BufferOK(b, s.stores, s.rob)
  BY DEF RetireOK, RetireQueues
<1>2. /\ Len(b) \in Nat /\ s.stores <= Len(b)
      /\ \A k \in 1 .. Len(b) : b[k].committed <=> k <= s.stores
  BY <1>1 DEF BufferOK, Tracks
<1>3. Drained(s) = CASE s.stores = 0 -> t
                     [] s.stores = 1 -> Drain(t)
                     [] s.stores = 2 -> Drain(Drain(t))
  BY DEF Drained
<1>4. t.buffer = b /\ t.mem = dmem
  OBVIOUS
<1> HIDE DEF t, b
<1>5. s.stores >= 1 => /\ Drain(t).buffer = Tail(b)
                       /\ Drain(t).mem = Meaning!WriteData(dmem, b[1].addr, b[1].data)
  <2>1. SUFFICES ASSUME s.stores >= 1
                 PROVE  /\ Drain(t).buffer = Tail(b)
                        /\ Drain(t).mem = Meaning!WriteData(dmem, b[1].addr, b[1].data)
    OBVIOUS
  <2>2. 1 \in 1 .. Len(b) /\ b[1].committed /\ b # << >> /\ Head(b) = b[1]
    BY <1>1, <1>2, <2>1
  <2>3. CanPop(t.buffer)
    BY <1>4, <2>2 DEF CanPop
  <2> QED
    BY <1>4, <2>2, <2>3 DEF Drain
<1>6. s.stores = 2 => Drain(Drain(t)).mem = Meaning!WriteData(Drain(t).mem, b[2].addr, b[2].data)
  <2>1. SUFFICES ASSUME s.stores = 2
                 PROVE  Drain(Drain(t)).mem = Meaning!WriteData(Drain(t).mem, b[2].addr, b[2].data)
    OBVIOUS
  <2> DEFINE c == Tail(b)
  <2>2. 2 \in 1 .. Len(b) /\ b[2].committed /\ 1 + 1 = 2 /\ 1 \in 1 .. Len(b) - 1
    BY <1>1, <1>2, <2>1
  <2>3. c \in Seq(StoreSet) /\ Len(c) = Len(b) - 1 /\ c[1] = b[2]
    BY <1>1, <2>2
  <2> HIDE DEF c
  <2>4. c # << >> /\ Head(c) = b[2]
    BY <1>2, <2>2, <2>3
  <2>5. Drain(t).buffer = c
    BY <1>5, <2>1 DEF c
  <2>6. CanPop(Drain(t).buffer)
    BY <2>2, <2>4, <2>5 DEF CanPop
  <2> DEFINE v == Drain(t)
  <2>7. CanPop(v.buffer) /\ Head(v.buffer) = b[2]
    BY <2>4, <2>5, <2>6
  <2> HIDE DEF v
  <2>8. Drain(v).mem = Meaning!WriteData(v.mem, b[2].addr, b[2].data)
    BY <2>7 DEF Drain
  <2> QED
    BY <2>8 DEF v
<1> QED
  BY <1>1, <1>3, <1>4, <1>5, <1>6 DEF Written, b

(* The stores that retired leave the front of the store buffer, *)
LEMMA DrainedBuffer ==
    ASSUME NEW s, RetireOK(s, 2), RetireQueues(s)
    PROVE  LET t == Drained(s).buffer
           IN  /\ Len(t) = Len(s.buffer) - s.stores
               /\ \A k \in 1 .. Len(t) : t[k] = s.buffer[k + s.stores]
<1> DEFINE b == s.buffer
           u == [buffer |-> b, mem |-> dmem]
<1>1. /\ b \in Seq(StoreSet) /\ s.stores \in {0, 1, 2} /\ BufferOK(b, s.stores, s.rob)
  BY DEF RetireOK, RetireQueues
<1>2. /\ Len(b) \in Nat /\ s.stores <= Len(b)
      /\ \A k \in 1 .. Len(b) : b[k].committed <=> k <= s.stores
  BY <1>1 DEF BufferOK, Tracks
<1>3. Drained(s) = CASE s.stores = 0 -> u
                     [] s.stores = 1 -> Drain(u)
                     [] s.stores = 2 -> Drain(Drain(u))
  BY DEF Drained
<1>4. u.buffer = b
  OBVIOUS
<1> HIDE DEF u, b
<1> DEFINE c == Tail(b)
<1>5. s.stores >= 1 => /\ Drain(u).buffer = c /\ c \in Seq(StoreSet) /\ Len(c) = Len(b) - 1
                       /\ \A k \in 1 .. Len(b) - 1 : c[k] = b[k + 1]
  <2>1. SUFFICES ASSUME s.stores >= 1
                 PROVE  /\ Drain(u).buffer = c /\ c \in Seq(StoreSet) /\ Len(c) = Len(b) - 1
                        /\ \A k \in 1 .. Len(b) - 1 : c[k] = b[k + 1]
    OBVIOUS
  <2>2. 1 \in 1 .. Len(b) /\ b[1].committed /\ b # << >> /\ Head(b) = b[1]
    BY <1>1, <1>2, <2>1
  <2>3. CanPop(u.buffer)
    BY <1>4, <2>2 DEF CanPop
  <2>4. Drain(u).buffer = c
    BY <1>4, <2>3 DEF Drain
  <2> QED
    BY <1>1, <2>2, <2>4
<1> HIDE DEF c
<1>6. s.stores = 2 => /\ Drain(Drain(u)).buffer = Tail(c) /\ Len(Tail(c)) = Len(c) - 1
                      /\ \A k \in 1 .. Len(c) - 1 : Tail(c)[k] = c[k + 1]
  <2>1. SUFFICES ASSUME s.stores = 2
                 PROVE  /\ Drain(Drain(u)).buffer = Tail(c) /\ Len(Tail(c)) = Len(c) - 1
                        /\ \A k \in 1 .. Len(c) - 1 : Tail(c)[k] = c[k + 1]
    OBVIOUS
  <2>2. 2 \in 1 .. Len(b) /\ b[2].committed /\ 1 + 1 = 2 /\ 1 \in 1 .. Len(b) - 1
    BY <1>1, <1>2, <2>1
  <2>3. c \in Seq(StoreSet) /\ Len(c) = Len(b) - 1 /\ c[1] = b[2] /\ Drain(u).buffer = c
    BY <1>5, <2>1, <2>2
  <2>4. c # << >> /\ Head(c) = b[2]
    BY <1>2, <2>2, <2>3
  <2> DEFINE v == Drain(u)
  <2>5. CanPop(v.buffer) /\ v.buffer = c
    BY <2>2, <2>3, <2>4 DEF CanPop
  <2> HIDE DEF v
  <2>6. Drain(v).buffer = Tail(c)
    BY <2>5 DEF Drain
  <2>7. Len(Tail(c)) = Len(c) - 1 /\ \A k \in 1 .. Len(c) - 1 : Tail(c)[k] = c[k + 1]
    BY <2>3, <2>4
  <2> QED
    BY <2>6, <2>7 DEF v
<1> DEFINE t == Drained(s).buffer
<1>7. CASE s.stores = 0
  <2>1. t = b
    BY <1>3, <1>4, <1>7
  <2> HIDE DEF t
  <2>2. \A k \in 1 .. Len(b) : k + 0 = k
    BY <1>2
  <2> QED
    BY <1>2, <1>7, <2>1, <2>2 DEF t, b
<1>8. CASE s.stores = 1
  <2>1. t = c
    BY <1>3, <1>5, <1>8
  <2> HIDE DEF t
  <2> QED
    BY <1>2, <1>5, <1>8, <2>1 DEF t, b
<1>9. CASE s.stores = 2
  <2>1. t = Tail(c)
    BY <1>3, <1>6, <1>9
  <2> HIDE DEF t
  <2>2. Len(t) = Len(b) - 2
    BY <1>2, <1>5, <1>6, <1>9, <2>1
  <2>3. ASSUME NEW k \in 1 .. Len(t) PROVE t[k] = b[k + 2]
    <3>1. k \in 1 .. Len(c) - 1 /\ k + 1 \in 1 .. Len(b) - 1 /\ (k + 1) + 1 = k + 2
      BY <1>2, <1>5, <1>9, <2>2
    <3>2. t[k] = c[k + 1] /\ c[k + 1] = b[(k + 1) + 1]
      BY <1>5, <1>6, <1>9, <2>1, <3>1
    <3> QED
      BY <3>1, <3>2
  <2> QED
    BY <1>9, <2>2, <2>3 DEF t, b
<1> QED
  BY <1>1, <1>7, <1>8, <1>9

(* and the others keep their meaning. *)
LEMMA StoredDrained ==
    ASSUME NEW s, RetireOK(s, 2), RetireQueues(s), NEW x, Stored(s.buffer, s.stores, x, s.rob)
    PROVE  Stored(Drained(s).buffer, 0, x, s.rob)
<1> DEFINE t == Drained(s).buffer
           b == s.buffer
           n == s.stores
<1>1. Len(t) = Len(b) - n /\ \A k \in 1 .. Len(t) : t[k] = b[k + n]
  BY DrainedBuffer
<1>2. n \in Nat /\ Len(b) \in Nat
  BY DEF RetireOK
<1> HIDE DEF t, b, n
<1> SUFFICES ASSUME NEW k \in 1 .. Len(t), ~Pending(s.rob, t[k].rob)
             PROVE  LET S == FoundBy(t[k].rob, x, s.rob)
                        ins == InsAt(s.rob, t[k].rob)
                    IN  t[k].addr = AddressIn(ins, S) /\ t[k].data = S.regs[ins.rs2]
  BY DEF Stored, t
<1>3. k + n \in 1 .. Len(b) /\ k + n > n
  BY <1>1, <1>2
<1>4. t[k] = b[k + n]
  BY <1>1
<1>5. ~Pending(s.rob, b[k + n].rob)
  BY <1>4
<1>6. LET S == FoundBy(b[k + n].rob, x, s.rob)
          ins == InsAt(s.rob, b[k + n].rob)
      IN  b[k + n].addr = AddressIn(ins, S) /\ b[k + n].data = S.regs[ins.rs2]
  BY <1>3, <1>5 DEF Stored, b, n
<1> QED
  BY <1>4, <1>6

-----------------------------------------------------------------------------
(* One and two instructions of the program. *)
Executed(u) == IF u.pc = Meaning!Stopped THEN u
               ELSE Meaning!Execute(Meaning!InstructionAt(rom, u.pc), u)

(* One or two steps of the sequential machine. *)
LEMMA AfterTwo ==
    ASSUME NEW s, NEW k \in {1, 2}
    PROVE  Meaning!After(s, k) = IF k = 1 THEN Executed(s) ELSE Executed(Executed(s))
<1> DEFINE F(f) == [i \in 0 .. k |-> IF i = 0 THEN s ELSE Executed(f[i - 1])]
           g == [i \in 0 .. k |-> IF i = 0 THEN s ELSE IF i = 1 THEN Executed(s) ELSE Executed(Executed(s))]
           run == CHOOSE f : f = F(f)
<1>1. g[0] = s /\ g[1] = Executed(s)
  BY 0 \in 0 .. k, 1 \in 0 .. k
<1>2. g = F(g)
  <2>1. \A i \in 0 .. k : (IF i = 0 THEN s ELSE Executed(g[i - 1]))
                        = IF i = 0 THEN s ELSE IF i = 1 THEN Executed(s) ELSE Executed(Executed(s))
    <3> TAKE i \in 0 .. k
    <3>1. i = 1 => g[i - 1] = s
      BY <1>1
    <3>2. i = 2 => g[i - 1] = Executed(s)
      BY <1>1
    <3>3. i \in {0, 1, 2}
      OBVIOUS
    <3> HIDE DEF g
    <3> QED
      BY <3>1, <3>2, <3>3
  <2> QED
    BY <2>1
<1>3. run = F(run)
  <2>1. \E f : f = F(f)
    BY <1>2
  <2> HIDE DEF F
  <2> QED
    BY <2>1
<1>4. Meaning!After(s, k) = run[k]
  BY DEF Meaning!After, Executed
<1>5. run[0] = s /\ run[1] = Executed(run[0]) /\ (k = 2 => run[2] = Executed(run[1]))
  <2>1. \A i \in 0 .. k : run[i] = IF i = 0 THEN s ELSE Executed(run[i - 1])
    <3> HIDE DEF run
    <3> QED
      BY <1>3
  <2> HIDE DEF run
  <2>2. run[0] = s
    BY <2>1
  <2>3. run[1] = Executed(run[1 - 1]) /\ (k = 2 => run[2] = Executed(run[2 - 1]))
    BY <2>1
  <2>4. 1 - 1 = 0 /\ 2 - 1 = 1
    OBVIOUS
  <2> QED
    BY <2>2, <2>3, <2>4
<1> QED
  BY <1>4, <1>5

(* The control of the machine: a redirection has its branch in flight, a    *)
(* bundle that is passed on behind an empty window is a bubble, and as long *)
(* as a HALT stops dispatch it is in flight.                                *)
ControlOK ==
    /\ redirect.on => rob.count > 0 /\ stage \notin {"commit", "memory", "branch"}
    /\ stage = "fetch" /\ ~halted /\ rob.count = 0 => ~fd.valid
    /\ ~halted => HaltComing(rob, haltDispatched)

ValuesAre(m, x) ==
    /\ Mapped(m, rob, rat, freeList, prf)
    /\ x[0].regs = arf /\ x[0].mem = dmem
    /\ Meant(m, x, rob, prf, iq, lsq, storeBuffer, 0, Going)

ValuesOK == ~halted => \E m, x : ValuesAre(m, x)

(* Between two commits the PC seen from outside is that of the oldest instruction. *)
LEMMA NextIsVisible ==
    ASSUME MachineOK, ControlOK, ~redirect.on
    PROVE  NextPc = PcAt(rob, halted, Coming)
<1>1. stage = "fetch" /\ ~halted /\ rob.count = 0 => ~fd.valid
  BY DEF ControlOK
<1>2. rob.count \in Nat /\ fd.valid \in BOOLEAN /\ halted \in BOOLEAN
  BY RingPositions DEF MachineOK
<1>3. CASE halted \/ rob.count > 0
  BY <1>2, <1>3 DEF NextPc, PcAt, Meaning!Stopped
<1>4. CASE ~halted /\ ~(rob.count > 0)
  <2>1. rob.count = 0
    BY <1>2, <1>4
  <2> QED
    BY <1>1, <1>2, <1>4, <2>1 DEF NextPc, PcAt, Coming
<1> QED
  BY <1>3, <1>4

(* The commit stage makes no, one or two steps of the sequential machine. *)
LEMMA CommitValues ==
    ASSUME MachineOK, MemoryOK, OrderOK, ControlOK, ValuesOK, CommitStage
    PROVE  ValuesOK' /\ ControlOK' /\ [Meaning!Next]_(Meaning!vars)
<1> DEFINE first == [rob |-> rob, arf |-> arf, free |-> freeList,
                     checkpoints |-> checkpoints, lsq |-> lsq, buffer |-> storeBuffer,
                     stores |-> 0, halted |-> FALSE]
           second == RetireHead(first)
           retired == RetireHead(second)
<1>1. prf \in [Physical -> Cell] /\ dmem \in [0 .. DMemWords - 1 -> Word]
  BY DEF MachineOK
<1>2. RetireOK(first, 0) /\ RetireQueues(first)
  BY DEF MachineOK, RetireOK, MemoryOK, RetireQueues
<1>3. /\ rob' = retired.rob /\ arf' = retired.arf /\ freeList' = retired.free /\ lsq' = retired.lsq
      /\ storeBuffer' = Drained(retired).buffer /\ dmem' = Drained(retired).mem
      /\ halted' = retired.halted /\ ~halted /\ stage = "commit" /\ stage' = "memory"
      /\ UNCHANGED <<rom, frontend, haltDispatched, iq, prf, rat, predictor>>
  BY DEF CommitStage
<1>4. fetchPc' = fetchPc /\ fd' = fd /\ redirect' = redirect /\ rom' = rom
      /\ haltDispatched' = haltDispatched /\ iq' = iq /\ prf' = prf /\ rat' = rat
  BY <1>3 DEF frontend
<1>5. ~redirect.on /\ HaltComing(rob, haltDispatched)
  BY <1>3 DEF ControlOK
<1>6. Coming' = Coming /\ Going' = Going
  <2>1. Coming' = Coming
    BY <1>3, <1>4 DEF Coming
  <2> QED
    BY <1>4, <2>1 DEF Going
<1>7. \E m, x : Retiring(first, 0, m, x)
  <2>1. PICK m, x : ValuesAre(m, x)
    BY <1>3 DEF ValuesOK
  <2>2. Path(rom, rob, Coming, haltDispatched)
    BY DEF OrderOK
  <2>3. Written(storeBuffer, 0) = dmem
    BY DEF Written
  <2>4. Retiring(first, 0, m, x)
    BY <1>2, <1>5, <2>1, <2>2, <2>3 DEF ValuesAre, Retiring
  <2> QED
    BY <2>4
<1>8. Visible(first) = [pc |-> NextPc, regs |-> arf, mem |-> dmem]
  <2>1. PcAt(rob, halted, Coming) = NextPc
    BY <1>5, NextIsVisible
  <2>2. PcAt(rob, FALSE, Coming) = NextPc
    BY <1>3, <2>1 DEF PcAt
  <2>3. Written(storeBuffer, 0) = dmem
    BY DEF Written
  <2> QED
    BY <2>2, <2>3 DEF Visible
<1> HIDE DEF first
<1>9. /\ \E m, x : Retiring(second, 0 + 1, m, x)
      /\ Visible(second) = Visible(first) \/ Executes(Visible(first), Visible(second))
  BY <1>7, HeadTried
<1>10. \E m, x : Retiring(second, 1, m, x)
  BY <1>9
<1> HIDE DEF second
<1>11. /\ \E m, x : Retiring(retired, 1 + 1, m, x)
       /\ Visible(retired) = Visible(second) \/ Executes(Visible(second), Visible(retired))
  BY <1>10, HeadTried
<1> HIDE DEF retired
<1>12. PICK m, x : Retiring(retired, 2, m, x)
  BY <1>11
<1>13. RetireOK(retired, 2) /\ RetireQueues(retired) /\ retired.halted \in BOOLEAN
  BY <1>12 DEF Retiring, RetireOK
<1>14. dmem' = Written(retired.buffer, retired.stores)
  BY <1>1, <1>3, <1>13, DrainedMemory
<1>15. ValuesOK'
  <2>1. /\ Mapped(m, retired.rob, rat, retired.free, prf)
        /\ Meant(m, x, retired.rob, prf, iq, retired.lsq, retired.buffer, retired.stores, Going)
        /\ x[0].regs = retired.arf /\ x[0].mem = Written(retired.buffer, retired.stores)
    BY <1>12 DEF Retiring
  <2>2. Stored(Drained(retired).buffer, 0, x, retired.rob)
    BY <1>13, <2>1, StoredDrained DEF Meant
  <2>3. Meant(m, x, retired.rob, prf, iq, retired.lsq, Drained(retired).buffer, 0, Going)
    BY <2>1, <2>2 DEF Meant
  <2>4. /\ Mapped(m, rob', rat', freeList', prf')
        /\ Meant(m, x, rob', prf', iq', lsq', storeBuffer', 0, Going')
        /\ x[0].regs = arf' /\ x[0].mem = dmem'
    BY <1>3, <1>4, <1>6, <1>14, <2>1, <2>3, Zenon
  <2>5. ValuesAre(m, x)'
    BY <2>4 DEF ValuesAre
  <2> QED
    BY <2>5 DEF ValuesOK
<1>16. ControlOK'
  <2>1. ~halted' => HaltComing(rob', haltDispatched')
    BY <1>3, <1>4, <1>12 DEF Retiring
  <2> QED
    BY <1>3, <1>4, <1>5, <2>1 DEF ControlOK
<1>17. Visible(retired) = [pc |-> NextPc', regs |-> arf', mem |-> dmem']
  <2>1. NextPc' = PcAt(retired.rob, retired.halted, Coming)
    BY <1>3, <1>4, <1>5, <1>13 DEF NextPc, PcAt, Coming, Meaning!Stopped
  <2> QED
    BY <1>3, <1>14, <2>1 DEF Visible
<1>18. [Meaning!Next]_(Meaning!vars)
  <2> DEFINE u == [pc |-> NextPc, regs |-> arf, mem |-> dmem]
             v == [pc |-> NextPc', regs |-> arf', mem |-> dmem']
             w == Visible(second)
  <2>1. /\ w = u \/ Executes(u, w)
        /\ v = w \/ Executes(w, v)
    BY <1>8, <1>9, <1>11, <1>17, Zenon
  <2>2. u.pc = NextPc
    OBVIOUS
  <2>3. CASE v = u
    <3>1. NextPc' = NextPc /\ arf' = arf /\ dmem' = dmem
      BY <2>3
    <3> QED
      BY <1>4, <3>1 DEF Meaning!vars
  <2>4. ASSUME NEW k \in {1, 2}, Meaning!After(u, k) = v, NextPc # Meaning!Stopped
        PROVE  Meaning!Next
    <3>1. Meaning!Retire(k)
      BY <1>4, <2>4, Zenon DEF Meaning!Retire
    <3>2. k \in 1 .. CommitWidth
      BY DEF CommitWidth
    <3> QED
      BY <3>1, <3>2 DEF Meaning!Next
  <2> HIDE DEF u, v, w
  <2>5. CASE Executes(u, v)
    <3>1. Meaning!After(u, 1) = v /\ NextPc # Meaning!Stopped
      BY <2>2, <2>5, AfterTwo DEF Executes, Executed
    <3> QED
      BY <2>4, <3>1
  <2>6. CASE Executes(u, w) /\ Executes(w, v)
    <3>1. Executed(u) = w /\ Executed(w) = v /\ NextPc # Meaning!Stopped
      BY <2>2, <2>6 DEF Executes, Executed
    <3>2. Meaning!After(u, 2) = Executed(Executed(u))
      BY AfterTwo
    <3>3. Meaning!After(u, 2) = v
      BY <3>1, <3>2, Zenon
    <3> QED
      BY <2>4, <3>1, <3>3
  <2>7. v = u \/ Executes(u, v) \/ (Executes(u, w) /\ Executes(w, v))
    BY <2>1, Zenon
  <2> QED
    BY <2>3, <2>5, <2>6, <2>7
<1> QED
  BY <1>15, <1>16, <1>18

-----------------------------------------------------------------------------
(* The stages that execute. *)

(* A stage that keeps what is visible. *)
LEMMA ExecuteFrame ==
    ASSUME MachineOK, ControlOK, Ring(rob), SameWindow(rob, rob'), rob'.head = rob.head,
           UNCHANGED <<rom, fetchPc, fd, redirect, halted, haltDispatched, arf, dmem>>,
           stage # "fetch", stage' \notin {"fetch", "commit", "memory"},
           stage' = "branch" => stage = "memory"
    PROVE  ControlOK' /\ Going' = Going /\ [Meaning!Next]_(Meaning!vars)
<1>1. /\ rob'.count = rob.count
      /\ \A j \in Index : (InWindow(rob', j) <=> InWindow(rob, j)) /\ rob'.slot[j].data = rob.slot[j].data
  BY DEF SameWindow
<1>2. rob.head \in Index
  BY RingHead
<1>3. NextPc' = NextPc
  BY <1>1, <1>2 DEF NextPc
<1>4. Coming' = Coming
  BY DEF Coming
<1>5. Going' = Going
  BY <1>4 DEF Going
<1>6. HaltComing(rob, haltDispatched) => HaltComing(rob', haltDispatched')
  BY <1>1 DEF HaltComing, InsAt
<1>7. ControlOK'
  BY <1>1, <1>6 DEF ControlOK
<1> QED
  BY <1>3, <1>5, <1>7 DEF Meaning!vars

(* What the invariant speaks of is left alone. *)
LEMMA ValuesUntouched ==
    ASSUME ValuesOK, Going' = Going,
           UNCHANGED <<halted, rob, iq, prf, arf, rat, freeList, lsq, storeBuffer, dmem>>
    PROVE  ValuesOK'
<1> SUFFICES ASSUME ~halted' PROVE \E m, x : ValuesAre(m, x)'
  BY DEF ValuesOK
<1>1. PICK m, x : ValuesAre(m, x)
  BY DEF ValuesOK
<1>2. ValuesAre(m, x)'
  <2>1. /\ Mapped(m, rob', rat', freeList', prf')
        /\ x[0].regs = arf' /\ x[0].mem = dmem'
        /\ Meant(m, x, rob', prf', iq', lsq', storeBuffer', 0, Going')
    BY <1>1, Zenon DEF ValuesAre
  <2> QED
    BY <2>1 DEF ValuesAre
<1> QED
  BY <1>2

(* No branch and no arithmetic instruction is ready. *)
LEMMA IdleValues ==
    ASSUME MachineOK, ControlOK, ValuesOK, NoBranchReady \/ AluIdle
    PROVE  ValuesOK' /\ ControlOK' /\ [Meaning!Next]_(Meaning!vars)
<1>1. /\ UNCHANGED <<rom, fetchPc, fd, redirect, halted, haltDispatched, rob, iq, prf, arf, rat, freeList,
                     lsq, storeBuffer, dmem>>
      /\ stage # "fetch" /\ stage' \in {"alu0", "rename"}
  BY DEF NoBranchReady, AluIdle, frontend, renaming, memory
<1>2. Ring(rob) /\ SameWindow(rob, rob')
  BY <1>1 DEF MachineOK, SameWindow
<1>3. ControlOK' /\ Going' = Going /\ [Meaning!Next]_(Meaning!vars)
  BY <1>1, <1>2, ExecuteFrame
<1> QED
  BY <1>1, <1>3, ValuesUntouched

(* The operands of an instruction that is ready are what the program gives  *)
(* it. *)
LEMMA ReadyOperands ==
    ASSUME NEW q, NEW r, Ring(r), Linked(q, r), NEW m, NEW x, Trace(x, r), Operands(q, m, x, r),
           NEW i \in IQSlot, Ready(q[i])
    PROVE  LET e == q[i]
               s == x[Position(r, e.rob)]
           IN  /\ ReadsRs1(e.ins) => e.op1.value = s.regs[e.ins.rs1]
               /\ ReadsRs2(e.ins) => e.op2.value = s.regs[e.ins.rs2]
               /\ e.rob \in Index /\ Pending(r, e.rob) /\ InWindow(r, e.rob) /\ q[i].valid
               /\ Position(r, e.rob) \in 0 .. r.count
               /\ s \in ArchState /\ x[Position(r, e.rob) + 1] = Does(r.slot[e.rob].data, s)
               /\ r.slot[e.rob].data.ins = e.ins /\ r.slot[e.rob].data.pc = e.pc
               /\ DataOK(r.slot[e.rob].data) /\ e \in EntrySet
<1> DEFINE e == q[i]
           s == x[Position(r, e.rob)]
<1>1. q[i].valid /\ e.op1.ready /\ e.op2.ready
  BY DEF Ready
<1>2. /\ e.rob \in Index /\ Pending(r, e.rob) /\ InWindow(r, e.rob) /\ Position(r, e.rob) \in 0 .. r.count
      /\ r.slot[e.rob].data.ins = e.ins /\ r.slot[e.rob].data.pc = e.pc /\ e \in EntrySet
  BY <1>1, SourcesTyped, ValidEntry
<1>3. /\ s \in ArchState /\ x[Position(r, e.rob) + 1] = Does(r.slot[e.rob].data, s)
      /\ DataOK(r.slot[e.rob].data)
  BY <1>2, TraceStates
<1>4. GetsOperands(e, m[Position(r, e.rob)], s)
  BY <1>1 DEF Operands
<1>5. /\ ReadsRs1(e.ins) => e.op1.value = s.regs[e.ins.rs1]
      /\ ReadsRs2(e.ins) => e.op2.value = s.regs[e.ins.rs2]
  <2> HIDE DEF e, s
  <2> QED
    BY <1>1, <1>4 DEF GetsOperands, Gets, e
<1> QED
  BY <1>1, <1>2, <1>3, <1>5

(* Only the operands an instruction reads count. *)
LEMMA OperandsCount ==
    ASSUME NEW ins \in Instruction, NEW a, NEW b, NEW c, NEW d,
           ReadsRs1(ins) => a = c, ReadsRs2(ins) => b = d
    PROVE  /\ ins.op \in AluOps => AluResult(ins, a, b) = AluResult(ins, c, d)
           /\ ins.op \in BranchOps => Taken(ins, a, b) = Taken(ins, c, d)
           /\ ins.op \in {"LW", "SW"} => EffectiveAddress(ins, a) = EffectiveAddress(ins, c)
           /\ ins.op = "SW" => b = d
<1>1. CASE ins.op \in TwoSourceAlu \cup BranchOps \cup {"SW"}
  <2>1. a = c /\ b = d
    BY <1>1 DEF ReadsRs1, ReadsRs2
  <2> QED
    BY <2>1, Zenon
<1>2. CASE ins.op \in {"NOT", "ADDI", "LW"}
  <2>1. a = c
    BY <1>2 DEF ReadsRs1
  <2>2. ins.op \in AluOps => ins.op \in {"NOT", "ADDI"}
    BY <1>2, OpcodeKinds
  <2>3. ins.op \in {"NOT", "ADDI"} => AluResult(ins, a, b) = AluResult(ins, c, d)
    BY <2>1 DEF AluResult
  <2>4. ins.op \notin BranchOps /\ ins.op # "SW"
    BY <1>2 DEF BranchOps
  <2>5. EffectiveAddress(ins, a) = EffectiveAddress(ins, c)
    BY <2>1
  <2> QED
    BY <2>2, <2>3, <2>4, <2>5
<1>3. CASE ins.op = "LI"
  BY <1>3 DEF AluResult, BranchOps
<1> QED
  BY <1>1, <1>2, <1>3 DEF AluOps

(* Completing anything but a store tells nothing new about stores. *)
LEMMA StoredOther ==
    ASSUME NEW b \in Seq(StoreSet), NEW r, Ring(r), BufferOK(b, 0, r), NEW x, Stored(b, 0, x, r),
           NEW i \in Index, InWindow(r, i), InsAt(r, i).op # "SW"
    PROVE  Stored(b, 0, x, Complete(r, i))
<1> DEFINE s == Complete(r, i)
<1>1. SameWindow(r, s) /\ \A j \in Index : Pending(s, j) <=> Pending(r, j) /\ j # i
  BY SameCompletes, CompleteRing
<1> HIDE DEF s
<1> SUFFICES ASSUME NEW k \in 1 .. Len(b), k > 0, ~Pending(s, b[k].rob)
             PROVE  LET S == FoundBy(b[k].rob, x, s)
                        ins == InsAt(s, b[k].rob)
                    IN  b[k].addr = AddressIn(ins, S) /\ b[k].data = S.regs[ins.rs2]
  BY DEF Stored, s
<1>2. b[k].rob \in Index /\ r.slot[b[k].rob].data.ins.op = "SW"
  BY DEF BufferOK, Tracks
<1>3. ~Pending(r, b[k].rob)
  BY <1>1, <1>2 DEF InsAt
<1>4. FoundBy(b[k].rob, x, s) = FoundBy(b[k].rob, x, r) /\ InsAt(s, b[k].rob) = InsAt(r, b[k].rob)
  BY <1>1, <1>2 DEF FoundBy, InsAt, SameWindow
<1> QED
  BY <1>3, <1>4 DEF Stored

(* What an execution leaves of the issue queue. *)
LEMMA LeftRemoved ==
    ASSUME MachineOK, NEW i \in IQSlot, iq[i].valid, NEW p, NEW v
    PROVE  /\ LeftWith(iq, RemoveSlot(iq, i), iq[i].rob, p, v)
           /\ \A k \in IQSlot : RemoveSlot(iq, i)[k].valid =>
                 /\ RemoveSlot(iq, i)[k] = iq[k]
                 /\ RemoveSlot(iq, i)[k].op1 = iq[k].op1 /\ RemoveSlot(iq, i)[k].op2 = iq[k].op2
<1> DEFINE t == RemoveSlot(iq, i)
<1>1. Linked(iq, rob)
  BY DEF MachineOK
<1>2. \A k \in IQSlot : t[k].valid => k # i /\ t[k] = iq[k] /\ iq[k].valid
  BY <1>1 DEF RemoveSlot, FreeSlot, Linked
<1> HIDE DEF t
<1>3. \A k \in IQSlot : t[k].valid => iq[k].rob # iq[i].rob
  BY <1>1, <1>2 DEF Linked
<1>4. LeftWith(iq, t, iq[i].rob, p, v)
  BY <1>2, <1>3 DEF LeftWith, Woke
<1> QED
  BY <1>2, <1>4 DEF t

(* A wake-up is what GetsAwake expects, *)
LEMMA WakedWoke ==
    ASSUME NEW o, NEW p, NEW v
    PROVE  Woke(o, Waked(o, p, v), p, v)
BY DEF Woke, Waked

(* also when the instruction that wakes the others leaves the queue. *)
LEMMA LeftWoken ==
    ASSUME MachineOK, NEW i \in IQSlot, iq[i].valid, NEW p \in Physical, NEW v \in Word
    PROVE  LeftWith(iq, Wakeup(RemoveSlot(iq, i), p, v), iq[i].rob, p, v)
<1> DEFINE q == RemoveSlot(iq, i)
           t == Wakeup(q, p, v)
           c == Complete(rob, iq[i].rob)
           n == iq[i].rob
<1>1. Linked(q, c)
  BY ExecutedEntry
<1>2. LeftWith(iq, q, n, p, v) /\ \A k \in IQSlot : q[k].valid => q[k] = iq[k]
  BY LeftRemoved
<1> HIDE DEF q, c, n
<1>3. \A k \in IQSlot : /\ t[k].valid <=> q[k].valid
                        /\ q[k].valid => /\ t[k].rob = q[k].rob /\ t[k].pc = q[k].pc
                                         /\ t[k].ins = q[k].ins
                                         /\ t[k].op1 = Waked(q[k].op1, p, v)
                                         /\ t[k].op2 = Waked(q[k].op2, p, v)
                                         /\ t[k].predTaken = q[k].predTaken
  BY <1>1, WakeupEntries
<1> HIDE DEF t
<1>4. ASSUME NEW k \in IQSlot, t[k].valid
      PROVE  /\ iq[k].valid /\ iq[k].rob # n
             /\ t[k].rob = iq[k].rob /\ t[k].ins = iq[k].ins /\ t[k].pc = iq[k].pc
             /\ t[k].predTaken = iq[k].predTaken
             /\ Woke(iq[k].op1, t[k].op1, p, v) /\ Woke(iq[k].op2, t[k].op2, p, v)
  <2>1. q[k].valid /\ q[k] = iq[k]
    BY <1>2, <1>3, <1>4
  <2>2. iq[k].valid /\ iq[k].rob # n
    BY <1>2, <2>1 DEF LeftWith
  <2>3. t[k].op1 = Waked(iq[k].op1, p, v) /\ t[k].op2 = Waked(iq[k].op2, p, v)
    BY <1>3, <2>1, Zenon
  <2>4. Woke(iq[k].op1, t[k].op1, p, v) /\ Woke(iq[k].op2, t[k].op2, p, v)
    BY <2>3, WakedWoke, Zenon
  <2> QED
    BY <1>3, <2>1, <2>2, <2>4
<1>5. LeftWith(iq, t, n, p, v)
  BY <1>4, Zenon DEF LeftWith
<1> QED
  BY <1>5 DEF t, q, n

(* The instruction of a ready entry. *)
LEMMA ReadyEntry ==
    ASSUME MachineOK, NEW i \in IQSlot, Ready(iq[i])
    PROVE  /\ iq[i].valid /\ iq[i] \in EntrySet /\ iq[i].rob \in Index /\ Ring(rob) /\ Linked(iq, rob)
           /\ Pending(rob, iq[i].rob) /\ InWindow(rob, iq[i].rob)
           /\ InsAt(rob, iq[i].rob) = iq[i].ins /\ Prd(rob, iq[i].rob) = iq[i].prd
           /\ Rd(rob, iq[i].rob) = iq[i].ins.rd
           /\ Writes(rob, iq[i].rob) <=> WritesRegister(iq[i].ins)
<1>1. iq[i].valid
  BY DEF Ready
<1>2. /\ iq[i] \in EntrySet /\ iq[i].rob \in Index /\ Ring(rob)
      /\ Pending(rob, iq[i].rob) /\ InWindow(rob, iq[i].rob)
      /\ rob.slot[iq[i].rob].data.ins = iq[i].ins
  BY <1>1, IssuedInstruction
<1>3. Linked(iq, rob)
  BY DEF MachineOK
<1>4. rob.slot[iq[i].rob].data.prd = iq[i].prd
  BY <1>1, <1>3 DEF Linked, Describes
<1> QED
  BY <1>1, <1>2, <1>3, <1>4 DEF InsAt, Prd, Rd, Writes

(* An instruction with a destination completes with the value of the program. *)
LEMMA WriterValues ==
    ASSUME MachineOK, NEW i \in IQSlot, Ready(iq[i]), WritesRegister(iq[i].ins), NEW m, NEW x, ValuesAre(m, x),
           NEW v \in Word, v = x[Position(rob, iq[i].rob) + 1].regs[iq[i].ins.rd],
           NEW l \in Seq(LoadStoreSet), Accesses(l, x, rob), BufferOK(storeBuffer, 0, rob),
           NEW file, file[iq[i].prd].ready, file[iq[i].prd].value = v,
           \A j \in Physical : j # iq[i].prd => file[j] = prf[j]
    PROVE  /\ Mapped(m, Complete(rob, iq[i].rob), rat, freeList, file)
           /\ Meant(m, x, Complete(rob, iq[i].rob), file, Wakeup(RemoveSlot(iq, i), iq[i].prd, v), l,
                    storeBuffer, 0, Going)
<1> DEFINE n == iq[i].rob
           p == iq[i].prd
           t == Wakeup(RemoveSlot(iq, i), iq[i].prd, v)
<1>1. /\ iq[i].valid /\ n \in Index /\ Ring(rob) /\ Linked(iq, rob) /\ Pending(rob, n) /\ InWindow(rob, n)
      /\ InsAt(rob, n) = iq[i].ins /\ Prd(rob, n) = p /\ Rd(rob, n) = iq[i].ins.rd /\ Writes(rob, n)
      /\ p \in Physical
  BY ReadyEntry, EntryFields
<1>2. LeftWith(iq, t, n, Prd(rob, n), v)
  BY <1>1, LeftWoken
<1>3. file[p].ready /\ file[p].value = v /\ \A j \in Physical : j # p => file[j] = prf[j]
  OBVIOUS
<1>4. InsAt(rob, n).op # "J" /\ InsAt(rob, n).op \notin BranchOps /\ InsAt(rob, n).op # "SW"
  BY <1>1 DEF WritesRegister, AluOps, TwoSourceAlu, BranchOps
<1>5. /\ Mapped(m, rob, rat, freeList, prf)
      /\ Trace(x, rob) /\ Valued(m, x, rob, prf) /\ Operands(iq, m, x, rob) /\ Goes(x, rob, iq, Going)
      /\ Stored(storeBuffer, 0, x, rob)
  BY DEF ValuesAre, Meant
<1>6. Stored(storeBuffer, 0, x, Complete(rob, n))
  BY <1>1, <1>4, <1>5, StoredOther DEF MachineOK
<1>7. v = x[Position(rob, n) + 1].regs[Rd(rob, n)]
  BY <1>1
<1> HIDE DEF n, p, t
<1>8. /\ \A j \in Physical : j # Prd(rob, n) \/ ~Writes(rob, n) => file[j] = prf[j]
      /\ file[Prd(rob, n)].ready /\ file[Prd(rob, n)].value = v
      /\ file[Prd(rob, n)].value = x[Position(rob, n) + 1].regs[Rd(rob, n)]
      /\ IF Writes(rob, n) THEN v = file[Prd(rob, n)].value
         ELSE \A k \in IQSlot : t[k].valid => t[k].op1 = iq[k].op1 /\ t[k].op2 = iq[k].op2
  BY <1>1, <1>3, <1>7
<1>10. /\ Writes(rob, n) => /\ file[Prd(rob, n)].ready
                            /\ file[Prd(rob, n)].value = x[Position(rob, n) + 1].regs[Rd(rob, n)]
       /\ InsAt(rob, n).op \in BranchOps => NextIs(rob, Going, n, x[Position(rob, n) + 1].pc)
  BY <1>4, <1>8
<1> HIDE DEF Going
<1>9. /\ Mapped(m, Complete(rob, n), rat, freeList, file)
      /\ Meant(m, x, Complete(rob, n), file, t, l, storeBuffer, 0, Going)
  BY <1>1, <1>2, <1>4, <1>5, <1>6, <1>8, <1>10, MeantCompletes
<1> QED
  BY <1>9 DEF n, t

(* An instruction without a destination completes. *)
LEMMA NonWriterValues ==
    ASSUME MachineOK, NEW i \in IQSlot, Ready(iq[i]), ~WritesRegister(iq[i].ins), NEW m, NEW x, ValuesAre(m, x),
           iq[i].ins.op # "J",
           iq[i].ins.op \in BranchOps =>
               NextIs(rob, Going, iq[i].rob, x[Position(rob, iq[i].rob) + 1].pc),
           NEW l \in Seq(LoadStoreSet), Accesses(l, x, rob),
           NEW b, Stored(b, 0, x, Complete(rob, iq[i].rob))
    PROVE  /\ Mapped(m, Complete(rob, iq[i].rob), rat, freeList, prf)
           /\ Meant(m, x, Complete(rob, iq[i].rob), prf, RemoveSlot(iq, i), l, b, 0, Going)
<1> DEFINE n == iq[i].rob
           t == RemoveSlot(iq, i)
<1>1. /\ iq[i].valid /\ n \in Index /\ Ring(rob) /\ Linked(iq, rob) /\ Pending(rob, n)
      /\ InsAt(rob, n) = iq[i].ins /\ ~Writes(rob, n)
  BY ReadyEntry
<1>2. /\ LeftWith(iq, t, n, Prd(rob, n), 0)
      /\ \A k \in IQSlot : t[k].valid => t[k].op1 = iq[k].op1 /\ t[k].op2 = iq[k].op2
  BY <1>1, LeftRemoved
<1>3. /\ Mapped(m, rob, rat, freeList, prf)
      /\ Trace(x, rob) /\ Valued(m, x, rob, prf) /\ Operands(iq, m, x, rob) /\ Goes(x, rob, iq, Going)
  BY DEF ValuesAre, Meant
<1>4. /\ InsAt(rob, n).op # "J" /\ Stored(b, 0, x, Complete(rob, n))
      /\ InsAt(rob, n).op \in BranchOps => NextIs(rob, Going, n, x[Position(rob, n) + 1].pc)
  BY <1>1
<1> HIDE DEF n, t, Going
<1>5. /\ Mapped(m, Complete(rob, n), rat, freeList, prf)
      /\ Meant(m, x, Complete(rob, n), prf, t, l, b, 0, Going)
  BY <1>1, <1>2, <1>3, <1>4, MeantCompletes
<1> QED
  BY <1>5 DEF n, t

(* The values behind a stage that keeps what is visible. *)
LEMMA ValuesBehind ==
    ASSUME Going' = Going, UNCHANGED <<halted, arf, dmem>>,
           ~halted => \E m, x : /\ x[0].regs = arf /\ x[0].mem = dmem
                                /\ Mapped(m, rob', rat', freeList', prf')
                                /\ Meant(m, x, rob', prf', iq', lsq', storeBuffer', 0, Going)
    PROVE  ValuesOK'
<1> SUFFICES ASSUME ~halted' PROVE \E m, x : ValuesAre(m, x)'
  BY DEF ValuesOK
<1>1. PICK m, x : /\ x[0].regs = arf /\ x[0].mem = dmem
                  /\ Mapped(m, rob', rat', freeList', prf')
                  /\ Meant(m, x, rob', prf', iq', lsq', storeBuffer', 0, Going)
  OBVIOUS
<1>2. /\ x[0].regs = arf' /\ x[0].mem = dmem'
      /\ Mapped(m, rob', rat', freeList', prf')
      /\ Meant(m, x, rob', prf', iq', lsq', storeBuffer', 0, Going')
  BY <1>1, Zenon
<1>3. ValuesAre(m, x)'
  BY <1>2 DEF ValuesAre
<1> QED
  BY <1>3

(* The frame of a stage that completes an instruction. *)
LEMMA CompleteFrame ==
    ASSUME MachineOK, ControlOK, NEW i \in IQSlot, Ready(iq[i]), rob' = Complete(rob, iq[i].rob),
           UNCHANGED <<rom, fetchPc, fd, redirect, halted, haltDispatched, arf, dmem>>,
           stage # "fetch", stage' \notin {"fetch", "commit", "memory"},
           stage' = "branch" => stage = "memory"
    PROVE  ControlOK' /\ Going' = Going /\ [Meaning!Next]_(Meaning!vars)
<1>1. iq[i].rob \in Index /\ InWindow(rob, iq[i].rob) /\ Ring(rob)
  BY ReadyEntry
<1>2. SameWindow(rob, rob') /\ rob'.head = rob.head
  BY <1>1, SameCompletes, CompleteRing
<1> QED
  BY <1>1, <1>2, ExecuteFrame

(* An arithmetic instruction executes on the values of the program. *)
LEMMA AluValues ==
    ASSUME MachineOK, MemoryOK, ControlOK, ValuesOK, ExecuteAlu
    PROVE  ValuesOK' /\ ControlOK' /\ [Meaning!Next]_(Meaning!vars)
<1>1. PICK i \in FirstSlot(ReadyAlus) :
         LET e == iq[i]
             result == AluResult(e.ins, e.op1.value, e.op2.value)
         IN  /\ prf' = [prf EXCEPT ![e.prd] = [ready |-> TRUE, value |-> result]]
             /\ iq' = Wakeup(RemoveSlot(iq, i), e.prd, result)
             /\ rob' = Complete(rob, e.rob)
             /\ stage' = IF stage = "alu0" THEN "alu1" ELSE "rename"
             /\ stage \in {"alu0", "alu1"}
             /\ UNCHANGED <<rom, frontend, halted, haltDispatched, arf, renaming, memory,
                            predictor>>
  BY DEF ExecuteAlu
<1> DEFINE e == iq[i]
           v == AluResult(e.ins, e.op1.value, e.op2.value)
<1>2. i \in IQSlot /\ Ready(e) /\ e.ins.op \in AluOps
  BY DEF FirstSlot, ReadyAlus
<1>3. /\ UNCHANGED <<rom, fetchPc, fd, redirect, halted, haltDispatched, arf, dmem, rat, freeList, lsq,
                     storeBuffer>>
      /\ stage # "fetch" /\ stage' \notin {"fetch", "commit", "memory", "branch"}
      /\ rob' = Complete(rob, e.rob) /\ iq' = Wakeup(RemoveSlot(iq, i), e.prd, v)
      /\ prf' = [prf EXCEPT ![e.prd] = [ready |-> TRUE, value |-> v]]
  BY <1>1 DEF frontend, renaming, memory
<1>4. ControlOK' /\ Going' = Going /\ [Meaning!Next]_(Meaning!vars)
  BY <1>2, <1>3, CompleteFrame
<1>5. e.ins \in Instruction /\ e.prd \in Physical /\ v \in Word
  BY <1>2, ReadyEntry, EntryFields, AluTyped
<1>6. /\ prf'[e.prd].ready /\ prf'[e.prd].value = v
      /\ \A j \in Physical : j # e.prd => prf'[j] = prf[j]
  <2>1. prf \in [Physical -> Cell]
    BY DEF MachineOK
  <2> HIDE DEF v, e
  <2> QED
    BY <1>3, <1>5, <2>1
<1>7. ASSUME NEW m, NEW x, ValuesAre(m, x)
      PROVE  v = x[Position(rob, e.rob) + 1].regs[e.ins.rd]
  <2> DEFINE n == e.rob
             s == x[Position(rob, n)]
             d == rob.slot[n].data
  <2>1. Ring(rob) /\ Linked(iq, rob) /\ Trace(x, rob) /\ Operands(iq, m, x, rob)
    BY <1>7 DEF MachineOK, ValuesAre, Meant
  <2>2. /\ ReadsRs1(e.ins) => e.op1.value = s.regs[e.ins.rs1]
        /\ ReadsRs2(e.ins) => e.op2.value = s.regs[e.ins.rs2]
        /\ s \in ArchState /\ x[Position(rob, n) + 1] = Does(d, s)
        /\ d.ins = e.ins /\ DataOK(d)
    BY <1>2, <2>1, ReadyOperands
  <2> HIDE DEF e, n, s, d
  <2>3. Does(d, s).regs[e.ins.rd] = AluResult(e.ins, s.regs[e.ins.rs1], s.regs[e.ins.rs2])
    BY <1>2, <2>2, DoesEffect
  <2>4. AluResult(e.ins, e.op1.value, e.op2.value) =
        AluResult(e.ins, s.regs[e.ins.rs1], s.regs[e.ins.rs2])
    BY <1>2, <1>5, <2>2, OperandsCount
  <2> QED
    BY <2>2, <2>3, <2>4 DEF v, n
<1> HIDE DEF v
<1>8. WritesRegister(e.ins)
  BY <1>2, OpcodeKinds
<1>9. ASSUME ~halted
      PROVE  \E m, x : /\ x[0].regs = arf /\ x[0].mem = dmem
                       /\ Mapped(m, rob', rat', freeList', prf')
                       /\ Meant(m, x, rob', prf', iq', lsq', storeBuffer', 0, Going)
  <2>1. PICK m, x : ValuesAre(m, x)
    BY <1>9 DEF ValuesOK
  <2>2. x[0].regs = arf /\ x[0].mem = dmem /\ Accesses(lsq, x, rob)
    BY <2>1 DEF ValuesAre, Meant
  <2>3. lsq \in Seq(LoadStoreSet) /\ BufferOK(storeBuffer, 0, rob)
    BY DEF MachineOK, MemoryOK
  <2>4. v = x[Position(rob, e.rob) + 1].regs[e.ins.rd]
    BY <1>7, <2>1
  <2>5. /\ Mapped(m, Complete(rob, e.rob), rat, freeList, prf')
        /\ Meant(m, x, Complete(rob, e.rob), prf', Wakeup(RemoveSlot(iq, i), e.prd, v), lsq,
                 storeBuffer, 0, Going)
    BY <1>2, <1>5, <1>6, <1>8, <2>1, <2>2, <2>3, <2>4, WriterValues
  <2> HIDE DEF e, Going
  <2>6. /\ Mapped(m, rob', rat', freeList', prf')
        /\ Meant(m, x, rob', prf', iq', lsq', storeBuffer', 0, Going)
    BY <1>3, <2>5, Zenon
  <2> QED
    BY <2>2, <2>6
<1>10. ValuesOK'
  BY <1>3, <1>4, <1>9, ValuesBehind
<1> QED
  BY <1>4, <1>10

(* A branch finds out where the program goes on. *)
LEMMA BranchOutcome ==
    ASSUME MachineOK, NEW i \in IQSlot, Ready(iq[i]), iq[i].ins.op \in BranchOps,
           NEW m, NEW x, ValuesAre(m, x)
    PROVE  x[Position(rob, iq[i].rob) + 1].pc =
               IF Outcome(iq[i]) THEN Target(iq[i].ins, iq[i].pc) ELSE Behind(iq[i])
<1> DEFINE e == iq[i]
           n == e.rob
           s == x[Position(rob, n)]
           d == rob.slot[n].data
<1>1. Ring(rob) /\ Linked(iq, rob) /\ Trace(x, rob) /\ Operands(iq, m, x, rob)
  BY DEF MachineOK, ValuesAre, Meant
<1>2. /\ ReadsRs1(e.ins) => e.op1.value = s.regs[e.ins.rs1]
      /\ ReadsRs2(e.ins) => e.op2.value = s.regs[e.ins.rs2]
      /\ s \in ArchState /\ x[Position(rob, n) + 1] = Does(d, s)
      /\ d.ins = e.ins /\ d.pc = e.pc /\ DataOK(d) /\ e.ins.op \in BranchOps /\ e \in EntrySet
  BY <1>1, ReadyOperands
<1>3. e.ins \in Instruction
  BY <1>2, EntryFields
<1> HIDE DEF e, n, s, d
<1>4. Does(d, s).pc = IF Taken(e.ins, s.regs[e.ins.rs1], s.regs[e.ins.rs2]) THEN Target(e.ins, e.pc)
                      ELSE Behind(d)
  BY <1>2, DoesEffect
<1>5. Taken(e.ins, e.op1.value, e.op2.value) = Taken(e.ins, s.regs[e.ins.rs1], s.regs[e.ins.rs2])
  BY <1>2, <1>3, OperandsCount
<1>6. Behind(d) = Behind(e)
  BY <1>2 DEF Behind
<1>7. Does(d, s).pc = IF Outcome(e) THEN Target(e.ins, e.pc) ELSE Behind(e)
  BY <1>4, <1>5, <1>6 DEF Outcome
<1>8. x[Position(rob, n) + 1].pc = IF Outcome(e) THEN Target(e.ins, e.pc) ELSE Behind(e)
  BY <1>2, <1>7, Zenon
<1> QED
  BY <1>8 DEF e, n

(* A branch has gone where it was predicted to go. *)
LEMMA PredictedValues ==
    ASSUME MachineOK, MemoryOK, ControlOK, ValuesOK, BranchAsPredicted
    PROVE  ValuesOK' /\ ControlOK' /\ [Meaning!Next]_(Meaning!vars)
<1>1. PICK i \in FirstSlot(ReadyBranches) :
         LET e == iq[i]
         IN  /\ ~Mispredicted(e)
             /\ iq' = RemoveSlot(iq, i)
             /\ rob' = Complete(rob, e.rob)
             /\ stage' = "alu0" /\ stage = "branch"
             /\ UNCHANGED <<rom, frontend, halted, haltDispatched, prf, arf, renaming, memory>>
  BY DEF BranchAsPredicted
<1> DEFINE e == iq[i]
<1>2. i \in IQSlot /\ Ready(e) /\ e.ins.op \in BranchOps
  BY DEF FirstSlot, ReadyBranches, ReadyBranch
<1>3. /\ UNCHANGED <<rom, fetchPc, fd, redirect, halted, haltDispatched, arf, dmem, rat, freeList, lsq,
                     storeBuffer, prf>>
      /\ stage # "fetch" /\ stage' \notin {"fetch", "commit", "memory", "branch"}
      /\ rob' = Complete(rob, e.rob) /\ iq' = RemoveSlot(iq, i)
  BY <1>1 DEF frontend, renaming, memory
<1>4. ControlOK' /\ Going' = Going /\ [Meaning!Next]_(Meaning!vars)
  BY <1>2, <1>3, CompleteFrame
<1>5. e.ins.op # "J" /\ e.ins.op # "SW" /\ ~WritesRegister(e.ins)
  BY <1>2, OpcodeKinds
<1>6. e.rob \in Index /\ InWindow(rob, e.rob) /\ Ring(rob) /\ InsAt(rob, e.rob) = e.ins /\ e.valid
  BY <1>2, ReadyEntry
<1>7. ASSUME NEW m, NEW x, ValuesAre(m, x)
      PROVE  NextIs(rob, Going, e.rob, x[Position(rob, e.rob) + 1].pc)
  <2>1. e.predTaken = Outcome(e)
    BY <1>1 DEF Mispredicted
  <2>2. x[Position(rob, e.rob) + 1].pc = IF Outcome(e) THEN Target(e.ins, e.pc) ELSE Behind(e)
    BY <1>2, <1>7, BranchOutcome
  <2>3. NextIs(rob, Going, e.rob, Guess(e))
    <3>1. Guessed(iq, rob, Going)
      BY <1>7 DEF ValuesAre, Meant, Goes
    <3> HIDE DEF Going
    <3> QED
      BY <1>2, <1>6, <3>1 DEF Guessed
  <2> HIDE DEF e, Going
  <2>4. Guess(e) = x[Position(rob, e.rob) + 1].pc
    BY <2>1, <2>2 DEF Guess
  <2> QED
    BY <2>3, <2>4
<1>8. ASSUME ~halted
      PROVE  \E m, x : /\ x[0].regs = arf /\ x[0].mem = dmem
                       /\ Mapped(m, rob', rat', freeList', prf')
                       /\ Meant(m, x, rob', prf', iq', lsq', storeBuffer', 0, Going)
  <2>1. PICK m, x : ValuesAre(m, x)
    BY <1>8 DEF ValuesOK
  <2>2. x[0].regs = arf /\ x[0].mem = dmem /\ Accesses(lsq, x, rob) /\ Stored(storeBuffer, 0, x, rob)
    BY <2>1 DEF ValuesAre, Meant
  <2>3. lsq \in Seq(LoadStoreSet) /\ BufferOK(storeBuffer, 0, rob) /\ storeBuffer \in Seq(StoreSet)
    BY DEF MachineOK, MemoryOK
  <2>4. Stored(storeBuffer, 0, x, Complete(rob, e.rob))
    BY <1>5, <1>6, <2>2, <2>3, StoredOther
  <2>5. NextIs(rob, Going, e.rob, x[Position(rob, e.rob) + 1].pc)
    BY <1>7, <2>1
  <2>6. /\ Mapped(m, Complete(rob, e.rob), rat, freeList, prf)
        /\ Meant(m, x, Complete(rob, e.rob), prf, RemoveSlot(iq, i), lsq, storeBuffer, 0, Going)
    BY <1>2, <1>5, <2>1, <2>2, <2>3, <2>4, <2>5, NonWriterValues
  <2> HIDE DEF e, Going
  <2>7. /\ Mapped(m, rob', rat', freeList', prf')
        /\ Meant(m, x, rob', prf', iq', lsq', storeBuffer', 0, Going)
    BY <1>3, <2>6, Zenon
  <2> QED
    BY <2>2, <2>7
<1>9. ValuesOK'
  BY <1>3, <1>4, <1>8, ValuesBehind
<1> QED
  BY <1>4, <1>9

(* A load or a store that is ready knows its address, a store its data too. *)
LEMMA AddressFound ==
    ASSUME MachineOK, NEW i \in IQSlot, ReadyForMemory(iq[i]), NEW m, NEW x, ValuesAre(m, x)
    PROVE  LET ins == InsAt(rob, iq[i].rob)
               s == FoundBy(iq[i].rob, x, rob)
           IN  /\ ins = iq[i].ins
               /\ Address(iq[i]) = AddressIn(ins, s)
               /\ iq[i].ins.op = "SW" => iq[i].op2.value = s.regs[ins.rs2]
<1> DEFINE e == iq[i]
           n == e.rob
           s == x[Position(rob, n)]
<1>1. Ring(rob) /\ Linked(iq, rob) /\ Trace(x, rob) /\ Operands(iq, m, x, rob)
  BY DEF MachineOK, ValuesAre, Meant
<1>2. Ready(e) /\ e.ins.op \in {"LW", "SW"}
  BY DEF ReadyForMemory
<1>3. /\ ReadsRs1(e.ins) => e.op1.value = s.regs[e.ins.rs1]
      /\ ReadsRs2(e.ins) => e.op2.value = s.regs[e.ins.rs2]
      /\ rob.slot[n].data.ins = e.ins /\ e \in EntrySet
  BY <1>1, <1>2, ReadyOperands
<1>4. e.ins \in Instruction
  BY <1>3, EntryFields
<1> HIDE DEF e, n, s
<1>5. /\ EffectiveAddress(e.ins, e.op1.value) = EffectiveAddress(e.ins, s.regs[e.ins.rs1])
      /\ e.ins.op = "SW" => e.op2.value = s.regs[e.ins.rs2]
  BY <1>2, <1>3, <1>4, OperandsCount
<1> QED
  BY <1>3, <1>5 DEF Address, AddressIn, InsAt, FoundBy, e, n, s

(* The scan for a load computes the addresses of the program. *)
LEMMA ScannedValues ==
    ASSUME MachineOK, MemoryOK, NEW i \in IQSlot, NEW m, NEW x, ValuesAre(m, x)
    PROVE  Accesses(Addressed(i), x, rob)
<1> DEFINE t == Addressed(i)
<1>1. /\ t \in Seq(LoadStoreSet) /\ EntriesKept(lsq, t) /\ lsq \in Seq(LoadStoreSet)
      /\ \A k \in 1 .. Len(lsq) :
            \/ t[k] = lsq[k]
            \/ \E j \in IQSlot :
                  /\ ReadyForMemory(iq[j]) /\ iq[j].ins.op = "LW"
                  /\ Find(lsq, iq[j].rob) = k
                  /\ t[k] = [lsq[k] EXCEPT !.addr = Address(iq[j])]
  BY AddressedEntries DEF MachineOK
<1>2. Accesses(lsq, x, rob)
  BY DEF ValuesAre, Meant
<1> HIDE DEF t
<1> SUFFICES ASSUME NEW k \in 1 .. Len(t)
             PROVE  LET s == FoundBy(t[k].rob, x, rob)
                        ins == InsAt(rob, t[k].rob)
                    IN  /\ t[k].addr # Unknown => t[k].addr = AddressIn(ins, s)
                        /\ t[k].type = "STORE" /\ t[k].data # Unknown => t[k].data = s.regs[ins.rs2]
  BY DEF Accesses, t
<1>3. k \in 1 .. Len(lsq) /\ t[k].rob = lsq[k].rob
  BY <1>1 DEF EntriesKept
<1>4. LET s == FoundBy(lsq[k].rob, x, rob)
          ins == InsAt(rob, lsq[k].rob)
      IN  /\ lsq[k].addr # Unknown => lsq[k].addr = AddressIn(ins, s)
          /\ lsq[k].type = "STORE" /\ lsq[k].data # Unknown => lsq[k].data = s.regs[ins.rs2]
  BY <1>2, <1>3 DEF Accesses
<1>5. CASE t[k] = lsq[k]
  BY <1>4, <1>5, Zenon
<1>6. CASE \E j \in IQSlot :
              /\ ReadyForMemory(iq[j]) /\ iq[j].ins.op = "LW"
              /\ Find(lsq, iq[j].rob) = k
              /\ t[k] = [lsq[k] EXCEPT !.addr = Address(iq[j])]
  <2>1. PICK j \in IQSlot :
           /\ ReadyForMemory(iq[j]) /\ iq[j].ins.op = "LW"
           /\ Find(lsq, iq[j].rob) = k
           /\ t[k] = [lsq[k] EXCEPT !.addr = Address(iq[j])]
    BY <1>6
  <2>2. lsq[k].rob = iq[j].rob
    BY <1>1, <1>3, <2>1, FindEntry
  <2>3. Address(iq[j]) = AddressIn(InsAt(rob, iq[j].rob), FoundBy(iq[j].rob, x, rob))
    BY <2>1, AddressFound
  <2>4. lsq[k] \in LoadStoreSet
    BY <1>1, <1>3
  <2> DEFINE a == Address(iq[j])
  <2>5. a = AddressIn(InsAt(rob, lsq[k].rob), FoundBy(lsq[k].rob, x, rob))
    BY <2>2, <2>3, Zenon
  <2>6. t[k] = [lsq[k] EXCEPT !.addr = a]
    BY <2>1
  <2> HIDE DEF a
  <2>7. t[k].addr = a /\ t[k].type = lsq[k].type /\ t[k].data = lsq[k].data
    BY <2>4, <2>6 DEF LoadStoreSet
  <2> QED
    BY <1>3, <1>4, <2>5, <2>7, Zenon
<1> QED
  BY <1>1, <1>3, <1>5, <1>6, Zenon

(* No load or store can be served. *)
LEMMA MemoryIdleValues ==
    ASSUME MachineOK, MemoryOK, ControlOK, ValuesOK, MemoryIdle
    PROVE  ValuesOK' /\ ControlOK' /\ [Meaning!Next]_(Meaning!vars)
<1>1. /\ UNCHANGED <<rom, fetchPc, fd, redirect, halted, haltDispatched, rob, iq, prf, arf, rat, freeList,
                     storeBuffer, dmem>>
      /\ lsq' = Addressed(IQCapacity - 1)
      /\ stage = "memory" /\ stage' = "branch"
  BY DEF MemoryIdle, frontend, renaming
<1>2. Ring(rob) /\ SameWindow(rob, rob')
  BY <1>1 DEF MachineOK, SameWindow
<1>3. ControlOK' /\ Going' = Going /\ [Meaning!Next]_(Meaning!vars)
  BY <1>1, <1>2, ExecuteFrame
<1>4. IQCapacity - 1 \in IQSlot
  BY SizeAssumption DEF IQSlot
<1>5. ASSUME ~halted
      PROVE  \E m, x : /\ x[0].regs = arf /\ x[0].mem = dmem
                       /\ Mapped(m, rob', rat', freeList', prf')
                       /\ Meant(m, x, rob', prf', iq', lsq', storeBuffer', 0, Going)
  <2>1. PICK m, x : ValuesAre(m, x)
    BY <1>5 DEF ValuesOK
  <2>2. Accesses(lsq', x, rob)
    BY <1>1, <1>4, <2>1, ScannedValues
  <2> HIDE DEF Going
  <2>3. /\ x[0].regs = arf /\ x[0].mem = dmem /\ Mapped(m, rob, rat, freeList, prf)
        /\ Meant(m, x, rob, prf, iq, lsq', storeBuffer, 0, Going)
    BY <2>1, <2>2 DEF ValuesAre, Meant
  <2>4. Mapped(m, rob', rat', freeList', prf') /\ Meant(m, x, rob', prf', iq', lsq', storeBuffer', 0, Going)
    BY <1>1, <2>3, Zenon
  <2> QED
    BY <2>3, <2>4
<1> QED
  BY <1>1, <1>3, <1>5, ValuesBehind

(* The load/store queue learns what the program says. *)
LEMMA AccessesLearnt ==
    ASSUME NEW q \in Seq(LoadStoreSet), NEW t \in Seq(LoadStoreSet), EntriesKept(q, t), NEW x, NEW r,
           Accesses(q, x, r),
           \A k \in 1 .. Len(q) :
              LET s == FoundBy(q[k].rob, x, r)
                  ins == InsAt(r, q[k].rob)
              IN  /\ t[k].type = q[k].type
                  /\ t[k].addr = q[k].addr \/ t[k].addr = AddressIn(ins, s)
                  /\ q[k].type = "LOAD" \/ t[k].data = q[k].data \/ t[k].data = s.regs[ins.rs2]
    PROVE  Accesses(t, x, r)
<1> SUFFICES ASSUME NEW k \in 1 .. Len(t)
             PROVE  LET s == FoundBy(t[k].rob, x, r)
                        ins == InsAt(r, t[k].rob)
                    IN  /\ t[k].addr # Unknown => t[k].addr = AddressIn(ins, s)
                        /\ t[k].type = "STORE" /\ t[k].data # Unknown => t[k].data = s.regs[ins.rs2]
  BY DEF Accesses
<1> DEFINE n == q[k].rob
           s == FoundBy(n, x, r)
           ins == InsAt(r, n)
<1>1. k \in 1 .. Len(q) /\ t[k].rob = n
  BY DEF EntriesKept
<1>2. /\ q[k].addr # Unknown => q[k].addr = AddressIn(ins, s)
      /\ q[k].type = "STORE" /\ q[k].data # Unknown => q[k].data = s.regs[ins.rs2]
  BY <1>1 DEF Accesses
<1>3. /\ t[k].type = q[k].type
      /\ t[k].addr = q[k].addr \/ t[k].addr = AddressIn(ins, s)
      /\ q[k].type = "LOAD" \/ t[k].data = q[k].data \/ t[k].data = s.regs[ins.rs2]
  BY <1>1
<1> HIDE DEF n
<1>4. /\ t[k].addr # Unknown => t[k].addr = AddressIn(ins, s)
      /\ t[k].type = "STORE" /\ t[k].data # Unknown => t[k].data = s.regs[ins.rs2]
  <2> HIDE DEF s, ins
  <2> QED
    BY <1>2, <1>3
<1> QED
  BY <1>1, <1>4, Zenon

(* A store in the load/store queue gets its address and its data, *)
LEMMA StoreAccesses ==
    ASSUME NEW q \in Seq(LoadStoreSet), NEW x, NEW r, Accesses(q, x, r), NEW n,
           NEW a \in Word, a = AddressIn(InsAt(r, n), FoundBy(n, x, r)),
           NEW d \in Word, d = FoundBy(n, x, r).regs[InsAt(r, n).rs2]
    PROVE  Accesses(SetStoreData(SetAddress(q, n, a), n, d), x, r)
<1> DEFINE u == SetAddress(q, n, a)
           t == SetStoreData(u, n, d)
<1>1. /\ u \in Seq(LoadStoreSet) /\ EntriesKept(q, u)
      /\ \A k \in 1 .. Len(q) :
            IF k = Find(q, n) THEN u[k].type = q[k].type /\ u[k].addr = a /\ u[k].data = q[k].data
            ELSE u[k] = q[k]
  BY SetAddressEntries
<1>2. \A k \in 1 .. Len(q) : k = Find(q, n) => q[k].rob = n
  BY FindEntry
<1> HIDE DEF u
<1>3. Accesses(u, x, r)
  <2>1. ASSUME NEW k \in 1 .. Len(q)
        PROVE  LET s == FoundBy(q[k].rob, x, r)
                   ins == InsAt(r, q[k].rob)
               IN  /\ u[k].type = q[k].type
                   /\ u[k].addr = q[k].addr \/ u[k].addr = AddressIn(ins, s)
                   /\ q[k].type = "LOAD" \/ u[k].data = q[k].data \/ u[k].data = s.regs[ins.rs2]
    BY <1>1, <1>2, Zenon
  <2> QED
    BY <1>1, <2>1, AccessesLearnt
<1>4. /\ t \in Seq(LoadStoreSet) /\ EntriesKept(u, t)
      /\ \A k \in 1 .. Len(u) :
            IF k = Find(u, n) THEN /\ t[k].type = u[k].type /\ t[k].addr = u[k].addr
                                   /\ t[k].data = IF u[k].type = "STORE" THEN d ELSE u[k].data
            ELSE t[k] = u[k]
  BY <1>1, SetStoreDataEntries
<1>5. \A k \in 1 .. Len(u) : k = Find(u, n) => u[k].rob = n
  BY <1>1, FindEntry
<1> HIDE DEF t
<1>6. Accesses(t, x, r)
  <2>1. ASSUME NEW k \in 1 .. Len(u)
        PROVE  LET s == FoundBy(u[k].rob, x, r)
                   ins == InsAt(r, u[k].rob)
               IN  /\ t[k].type = u[k].type
                   /\ t[k].addr = u[k].addr \/ t[k].addr = AddressIn(ins, s)
                   /\ u[k].type = "LOAD" \/ t[k].data = u[k].data \/ t[k].data = s.regs[ins.rs2]
    <3>1. CASE k = Find(u, n)
      <4>1. u[k].rob = n
        BY <1>5, <3>1
      <4>2. t[k].type = u[k].type /\ t[k].addr = u[k].addr /\ (t[k].data = d \/ t[k].data = u[k].data)
        BY <1>4, <3>1
      <4> QED
        BY <4>1, <4>2, Zenon
    <3>2. CASE k # Find(u, n)
      <4>1. t[k] = u[k]
        BY <1>4, <3>2
      <4> QED
        BY <4>1, Zenon
    <3> QED
      BY <3>1, <3>2
  <2> QED
    BY <1>1, <1>3, <1>4, <2>1, AccessesLearnt
<1> QED
  BY <1>6 DEF t, u

(* and so does its entry in the store buffer. *)
LEMMA StoreEntryFilled ==
    ASSUME NEW b \in Seq(StoreSet), NEW n, NEW a \in Word, NEW d \in Word
    PROVE  LET t == SBUpdate(b, n, a, d)
           IN  /\ t \in Seq(StoreSet) /\ EntriesKept(b, t)
               /\ \A k \in 1 .. Len(b) : k = Find(b, n) => t[k].addr = a /\ t[k].data = d
               /\ \A k \in 1 .. Len(b) : k # Find(b, n) => t[k] = b[k]
<1> DEFINE i == Find(b, n)
           t == SBUpdate(b, n, a, d)
<1>1. i \in 0 .. Len(b) /\ FindStore(b, n) = i
  BY FindEntry
<1>2. CASE i = 0
  BY <1>1, <1>2 DEF SBUpdate, EntriesKept
<1>3. CASE i # 0
  <2> DEFINE e == [b[i] EXCEPT !.addr = a, !.data = d, !.ready = TRUE]
  <2>1. i \in 1 .. Len(b) /\ b[i] \in StoreSet
    BY <1>1, <1>3
  <2>2. e \in StoreSet /\ e.rob = b[i].rob /\ e.addr = a /\ e.data = d
    BY <2>1 DEF StoreSet
  <2>3. t = [b EXCEPT ![i] = e]
    BY <1>1, <1>3 DEF SBUpdate
  <2> HIDE DEF e, t, i
  <2>4. /\ t \in Seq(StoreSet) /\ Len(t) = Len(b)
        /\ \A k \in 1 .. Len(b) : t[k] = IF k = i THEN e ELSE b[k]
    BY <2>1, <2>2, <2>3, ExceptSeq
  <2> QED
    BY <2>2, <2>4 DEF EntriesKept, t, i
<1> QED
  BY <1>2, <1>3

(* The store buffer gets address and data of the store that executes. *)
LEMMA StoredUpdated ==
    ASSUME NEW b \in Seq(StoreSet), NEW r, Ring(r), BufferOK(b, 0, r), NEW x, Stored(b, 0, x, r),
           NEW n \in Index, InWindow(r, n), InsAt(r, n).op = "SW",
           NEW a, a = AddressIn(InsAt(r, n), FoundBy(n, x, r)),
           NEW d, d = FoundBy(n, x, r).regs[InsAt(r, n).rs2],
           NEW t \in Seq(StoreSet), EntriesKept(b, t),
           \A k \in 1 .. Len(b) : k = Find(b, n) => t[k].addr = a /\ t[k].data = d,
           \A k \in 1 .. Len(b) : k # Find(b, n) => t[k] = b[k]
    PROVE  Stored(t, 0, x, Complete(r, n))
<1> DEFINE c == Complete(r, n)
<1>1. SameWindow(r, c) /\ \A j \in Index : Pending(c, j) <=> Pending(r, j) /\ j # n
  BY SameCompletes, CompleteRing
<1>2. /\ t \in Seq(StoreSet) /\ EntriesKept(b, t)
      /\ \A k \in 1 .. Len(b) : k = Find(b, n) => t[k].addr = a /\ t[k].data = d
      /\ \A k \in 1 .. Len(b) : k # Find(b, n) => t[k] = b[k]
  OBVIOUS
<1>3. Tracks(b, 0, r, {"SW"})
  BY DEF BufferOK
<1>4. Find(b, n) \in 1 .. Len(b) /\ b[Find(b, n)].rob = n
  <2>1. r.slot[n].data.ins.op \in {"SW"} /\ 0 \in Nat
    BY DEF InsAt
  <2> QED
    BY <1>3, <2>1, TrackedFind
<1> HIDE DEF c
<1> SUFFICES ASSUME NEW k \in 1 .. Len(t), k > 0, ~Pending(c, t[k].rob)
             PROVE  LET S == FoundBy(t[k].rob, x, c)
                        ins == InsAt(c, t[k].rob)
                    IN  t[k].addr = AddressIn(ins, S) /\ t[k].data = S.regs[ins.rs2]
  BY DEF Stored, c
<1>5. k \in 1 .. Len(b) /\ t[k].rob = b[k].rob /\ b[k].rob \in Index
  BY <1>2, <1>3 DEF EntriesKept, Tracks
<1>6. FoundBy(t[k].rob, x, c) = FoundBy(b[k].rob, x, r) /\ InsAt(c, t[k].rob) = InsAt(r, b[k].rob)
  BY <1>1, <1>5 DEF FoundBy, InsAt, SameWindow
<1>7. CASE k = Find(b, n)
  <2>1. t[k].addr = a /\ t[k].data = d /\ b[k].rob = n
    BY <1>2, <1>4, <1>5, <1>7
  <2> QED
    BY <1>6, <2>1, Zenon
<1>8. CASE k # Find(b, n)
  <2>1. t[k] = b[k]
    BY <1>2, <1>5, <1>8
  <2>2. b[k].rob # n
    <3>1. 0 \in Nat /\ 0 < k
      OBVIOUS
    <3> QED
      BY <1>3, <1>4, <1>5, <1>8, <3>1, TrackedOnce
  <2>3. ~Pending(r, b[k].rob)
    BY <1>1, <1>5, <2>2
  <2>4. LET S == FoundBy(b[k].rob, x, r)
            ins == InsAt(r, b[k].rob)
        IN  b[k].addr = AddressIn(ins, S) /\ b[k].data = S.regs[ins.rs2]
    BY <1>5, <2>3 DEF Stored
  <2> QED
    BY <1>6, <2>1, <2>4, Zenon
<1> QED
  BY <1>7, <1>8

(* A store executes on the values of the program. *)
LEMMA StoreValues ==
    ASSUME MachineOK, MemoryOK, ControlOK, ValuesOK, ExecuteStore
    PROVE  ValuesOK' /\ ControlOK' /\ [Meaning!Next]_(Meaning!vars)
<1>1. PICK i \in FirstToProceed :
         LET e == iq[i]
         IN  /\ e.ins.op = "SW"
             /\ lsq' = SetStoreData(SetAddress(Addressed(i), e.rob, Address(e)),
                                    e.rob, e.op2.value)
             /\ storeBuffer' = SBUpdate(storeBuffer, e.rob, Address(e), e.op2.value)
             /\ iq' = RemoveSlot(iq, i)
             /\ rob' = Complete(rob, e.rob)
             /\ stage = "memory" /\ stage' = "branch"
             /\ UNCHANGED <<rom, frontend, halted, haltDispatched, prf, arf, renaming,
                            dmem, predictor>>
  BY DEF ExecuteStore
<1> DEFINE e == iq[i]
           n == e.rob
           a == Address(e)
           d == e.op2.value
           q == Addressed(i)
<1>2. i \in IQSlot /\ ReadyForMemory(e) /\ Ready(e) /\ e.ins.op = "SW"
  BY <1>1, ProceedingSlot DEF ReadyForMemory
<1>3. /\ UNCHANGED <<rom, fetchPc, fd, redirect, halted, haltDispatched, arf, dmem, rat, freeList, prf>>
      /\ stage = "memory" /\ stage' = "branch"
      /\ rob' = Complete(rob, n) /\ iq' = RemoveSlot(iq, i)
      /\ lsq' = SetStoreData(SetAddress(q, n, a), n, d)
      /\ storeBuffer' = SBUpdate(storeBuffer, n, a, d)
  BY <1>1 DEF frontend, renaming
<1>4. ControlOK' /\ Going' = Going /\ [Meaning!Next]_(Meaning!vars)
  BY <1>2, <1>3, CompleteFrame
<1>5. e.ins.op # "J" /\ e.ins.op \notin BranchOps /\ ~WritesRegister(e.ins)
  BY <1>2, OpcodeKinds
<1>6. /\ n \in Index /\ InWindow(rob, n) /\ Ring(rob) /\ InsAt(rob, n) = e.ins /\ e.valid
      /\ e \in EntrySet
  BY <1>2, ReadyEntry
<1>7. a \in Word /\ d \in Word
  BY <1>6, EntryFields, AddressTyped DEF Address
<1>8. q \in Seq(LoadStoreSet)
  BY <1>2, AddressedEntries
<1>9. storeBuffer \in Seq(StoreSet) /\ BufferOK(storeBuffer, 0, rob)
  BY DEF MachineOK, MemoryOK
<1>10. /\ storeBuffer' \in Seq(StoreSet) /\ EntriesKept(storeBuffer, storeBuffer')
       /\ \A k \in 1 .. Len(storeBuffer) :
             k = Find(storeBuffer, n) => storeBuffer'[k].addr = a /\ storeBuffer'[k].data = d
       /\ \A k \in 1 .. Len(storeBuffer) :
             k # Find(storeBuffer, n) => storeBuffer'[k] = storeBuffer[k]
  <2> DEFINE t == SBUpdate(storeBuffer, n, a, d)
  <2> HIDE DEF e, n, a, d, q
  <2>1. /\ t \in Seq(StoreSet) /\ EntriesKept(storeBuffer, t)
        /\ \A k \in 1 .. Len(storeBuffer) : k = Find(storeBuffer, n) => t[k].addr = a /\ t[k].data = d
        /\ \A k \in 1 .. Len(storeBuffer) : k # Find(storeBuffer, n) => t[k] = storeBuffer[k]
    BY <1>7, <1>9, StoreEntryFilled
  <2>2. storeBuffer' = t
    BY <1>3
  <2> HIDE DEF t
  <2> QED
    BY <2>1, <2>2
<1>11. SetStoreData(SetAddress(q, n, a), n, d) \in Seq(LoadStoreSet)
  <2> HIDE DEF e, n, a, d, q
  <2>1. SetAddress(q, n, a) \in Seq(LoadStoreSet)
    BY <1>7, <1>8, SetAddressEntries
  <2> QED
    BY <1>7, <2>1, SetStoreDataEntries
<1>12. ASSUME ~halted
       PROVE  \E m, x : /\ x[0].regs = arf /\ x[0].mem = dmem
                        /\ Mapped(m, rob', rat', freeList', prf')
                        /\ Meant(m, x, rob', prf', iq', lsq', storeBuffer', 0, Going)
  <2>1. PICK m, x : ValuesAre(m, x)
    BY <1>12 DEF ValuesOK
  <2>2. x[0].regs = arf /\ x[0].mem = dmem /\ Stored(storeBuffer, 0, x, rob)
    BY <2>1 DEF ValuesAre, Meant
  <2>3. /\ a = AddressIn(InsAt(rob, n), FoundBy(n, x, rob))
        /\ d = FoundBy(n, x, rob).regs[InsAt(rob, n).rs2]
    BY <1>2, <2>1, AddressFound
  <2>4. Accesses(q, x, rob)
    BY <1>2, <2>1, ScannedValues
  <2>5. Accesses(lsq', x, rob)
    <3> HIDE DEF e, n, a, d, q
    <3>1. Accesses(SetStoreData(SetAddress(q, n, a), n, d), x, rob)
      BY <1>7, <1>8, <2>3, <2>4, StoreAccesses
    <3> QED
      BY <1>3, <3>1, Zenon
  <2>6. Stored(storeBuffer', 0, x, Complete(rob, n))
    <3>1. InsAt(rob, n).op = "SW"
      BY <1>2, <1>6
    <3> HIDE DEF e, n, a, d, q
    <3> QED
      BY <1>6, <1>9, <1>10, <2>2, <2>3, <3>1, StoredUpdated
  <2>7. lsq' \in Seq(LoadStoreSet)
    BY <1>3, <1>11, Zenon
  <2>8. /\ Mapped(m, Complete(rob, e.rob), rat, freeList, prf)
        /\ Meant(m, x, Complete(rob, e.rob), prf, RemoveSlot(iq, i), lsq', storeBuffer', 0, Going)
    <3> HIDE DEF a, d, q, Going
    <3> QED
      BY <1>2, <1>5, <2>1, <2>5, <2>6, <2>7, NonWriterValues
  <2> HIDE DEF e, Going
  <2>9. /\ Mapped(m, rob', rat', freeList', prf')
        /\ Meant(m, x, rob', prf', iq', lsq', storeBuffer', 0, Going)
    BY <1>3, <2>8, Zenon DEF n
  <2> QED
    BY <2>2, <2>9
<1>13. ValuesOK'
  BY <1>3, <1>4, <1>12, ValuesBehind
<1> QED
  BY <1>4, <1>13

(* The accesses of the program are to whole words of the data memory. *)
Inside(l) == \A k \in 1 .. Len(l) : l[k].addr # Unknown =>
                 l[k].addr % WordBytes = 0 /\ l[k].addr \div WordBytes < DMemWords

(* Distinct aligned addresses inside the memory name distinct words. *)
LEMMA WholeWords ==
    ASSUME NEW a \in Word, a % WordBytes = 0, a \div WordBytes < DMemWords
    PROVE  /\ Meaning!DataIndex(a) \in 0 .. DMemWords - 1
           /\ \A m \in [0 .. DMemWords - 1 -> Word] :
                 /\ Meaning!ReadData(m, a) = m[Meaning!DataIndex(a)]
                 /\ \A v : Meaning!WriteData(m, a, v)[Meaning!DataIndex(a)] = v
           /\ \A b \in Word : b % WordBytes = 0 /\ Meaning!DataIndex(b) = Meaning!DataIndex(a) => b = a
<1>1. a \in Nat /\ Word \subseteq Nat /\ DMemWords \in Nat
  BY SizeAssumption DEF Word
<1>2. \A b : Meaning!DataIndex(b) = b \div WordBytes
  BY DEF Meaning!DataIndex
<1>3. Meaning!DataIndex(a) \in 0 .. DMemWords - 1
  <2>1. a \div WordBytes \in Nat
    BY <1>1 DEF WordBytes
  <2> QED
    BY <1>1, <1>2, <2>1
<1>4. ASSUME NEW b \in Word, b % WordBytes = 0, Meaning!DataIndex(b) = Meaning!DataIndex(a)
      PROVE  b = a
  <2>1. b \in Nat /\ b \div 4 = a \div 4 /\ b % 4 = 0 /\ a % 4 = 0
    BY <1>1, <1>2, <1>4 DEF WordBytes
  <2> QED
    BY <1>1, <2>1
<1>5. ASSUME NEW m \in [0 .. DMemWords - 1 -> Word]
      PROVE  /\ Meaning!ReadData(m, a) = m[Meaning!DataIndex(a)]
             /\ \A v : Meaning!WriteData(m, a, v)[Meaning!DataIndex(a)] = v
  <2>1. DOMAIN m = 0 .. DMemWords - 1
    OBVIOUS
  <2>2. Meaning!Writable(Meaning!DataIndex(a))
    BY DEF Meaning!Writable
  <2> QED
    BY <1>3, <2>1, <2>2 DEF Meaning!ReadData, Meaning!WriteData
<1> QED
  BY <1>3, <1>4, <1>5

(* What the queue knows of a store in flight. *)
LEMMA StoreQueued ==
    ASSUME NEW t \in Seq(LoadStoreSet), NEW r, LsqOK(t, r), NEW x, Accesses(t, x, r),
           NEW s \in Index, InWindow(r, s), InsAt(r, s).op = "SW"
    PROVE  \E k \in 1 .. Len(t) :
              /\ t[k].rob = s /\ t[k].type = "STORE"
              /\ t[k].addr # Unknown => t[k].addr = AddressIn(InsAt(r, s), x[Position(r, s)])
<1>1. PICK k \in 1 .. Len(t) : t[k].rob = s
  BY DEF LsqOK, Tracks, InsAt
<1>2. r.slot[t[k].rob].data.ins.op = MemoryOp(t[k].type)
  BY DEF LsqOK, Progress
<1>3. t[k].type = "STORE"
  <2>1. t[k] \in LoadStoreSet
    OBVIOUS
  <2>2. t[k].type \in {"LOAD", "STORE"}
    BY <2>1 DEF LoadStoreSet
  <2> QED
    BY <1>1, <1>2, <2>2 DEF MemoryOp, InsAt
<1>4. t[k].addr # Unknown => t[k].addr = AddressIn(InsAt(r, t[k].rob), FoundBy(t[k].rob, x, r))
  BY DEF Accesses
<1>5. t[k].addr # Unknown => t[k].addr = AddressIn(InsAt(r, s), x[Position(r, s)])
  BY <1>1, <1>4 DEF FoundBy
<1> QED
  BY <1>1, <1>3, <1>5

(* No store between the load of entry i and the one that stops its search   *)
(* is to the same word. *)
LEMMA NoStoreBetween ==
    ASSUME NEW t \in Seq(LoadStoreSet), NEW r, Ring(r), LsqOK(t, r), NEW x, Accesses(t, x, r), Inside(t),
           NEW i \in 1 .. Len(t), t[i].addr # Unknown, NEW j \in 0 .. i - 1,
           \A k \in 1 .. i - 1 : Blocks(t, i, k) => k <= j,
           NEW s \in Index, InWindow(r, s), Position(r, s) < Position(r, t[i].rob),
           j # 0 => Position(r, t[j].rob) < Position(r, s)
    PROVE  ~StoresTo(x, r, s, Meaning!DataIndex(t[i].addr))
<1> SUFFICES ASSUME StoresTo(x, r, s, Meaning!DataIndex(t[i].addr)) PROVE FALSE
  OBVIOUS
<1>1. /\ InsAt(r, s).op = "SW"
      /\ Meaning!DataIndex(AddressIn(InsAt(r, s), x[Position(r, s)])) = Meaning!DataIndex(t[i].addr)
  BY DEF StoresTo, InsAt
<1>2. PICK k \in 1 .. Len(t) :
         /\ t[k].rob = s /\ t[k].type = "STORE"
         /\ t[k].addr # Unknown => t[k].addr = AddressIn(InsAt(r, s), x[Position(r, s)])
  BY <1>1, StoreQueued
<1>3. \A m, n \in 1 .. Len(t) : m < n => Position(r, t[m].rob) < Position(r, t[n].rob)
  <2>1. \A m, n \in 1 .. Len(t) : 0 < m /\ m < n => Position(r, t[m].rob) < Position(r, t[n].rob)
    BY Zenon DEF LsqOK, Tracks
  <2>2. \A m \in 1 .. Len(t) : 0 < m
    OBVIOUS
  <2> QED
    BY <2>1, <2>2
<1>4. /\ Position(r, s) \in Nat /\ Position(r, t[i].rob) \in Nat
      /\ Len(t) \in Nat /\ i \in Nat /\ j \in Nat /\ k \in Nat /\ j <= i - 1
      /\ j # 0 => j \in 1 .. Len(t) /\ Position(r, t[j].rob) \in Nat
  <2>1. \A m \in 1 .. Len(t) : t[m].rob \in Index
    BY DEF LsqOK, Tracks
  <2>2. \A m \in Index : Position(r, m) \in Nat
    BY RingPositions
  <2>3. Len(t) \in Nat
    OBVIOUS
  <2>4. j # 0 => j \in 1 .. Len(t)
    BY <2>3
  <2> QED
    BY <2>1, <2>2, <2>3, <2>4
<1>5. k < i
  BY <1>2, <1>3, <1>4
<1>6. j < k
  BY <1>2, <1>3, <1>4
<1>7. ~Blocks(t, i, k)
  BY <1>4, <1>5, <1>6
<1>8. t[k].addr # Unknown /\ t[k].addr # t[i].addr
  BY <1>2, <1>7 DEF Blocks
<1>9. t[k].addr \in Word /\ t[i].addr \in Word
  <2>1. t[k] \in LoadStoreSet /\ t[i] \in LoadStoreSet
    OBVIOUS
  <2> QED
    BY <1>8, <2>1 DEF LoadStoreSet
<1>10. Meaning!DataIndex(t[k].addr) = Meaning!DataIndex(t[i].addr)
  BY <1>1, <1>2, <1>8
<1>11. /\ t[k].addr % WordBytes = 0
       /\ t[i].addr % WordBytes = 0 /\ t[i].addr \div WordBytes < DMemWords
  BY <1>8 DEF Inside
<1> QED
  BY <1>8, <1>9, <1>10, <1>11, WholeWords

(* A load that does not wait finds what the program finds: the data of the  *)
(* youngest older store to its word, or that of the committed memory.       *)
LEMMA LoadedValue ==
    ASSUME NEW t \in Seq(LoadStoreSet), NEW r, Ring(r), LsqOK(t, r), NEW x, Trace(x, r), Accesses(t, x, r),
           Inside(t), NEW n \in Index, InWindow(r, n), InsAt(r, n).op = "LW",
           t[Find(t, n)].addr # Unknown, ~LoadResult(t, n).wait,
           NEW a, a = AddressIn(InsAt(r, n), x[Position(r, n)])
    PROVE  /\ LoadResult(t, n).hit =>
                  Meaning!ReadData(x[Position(r, n)].mem, a) = LoadResult(t, n).data
           /\ ~LoadResult(t, n).hit =>
                  Meaning!ReadData(x[Position(r, n)].mem, a) = Meaning!ReadData(x[0].mem, a)
<1> DEFINE i == Find(t, n)
           j == BlockingStore(t, i)
           w == Meaning!DataIndex(a)
           P == Position(r, n)
<1>1. i \in 1 .. Len(t) /\ t[i].rob = n
  <2>1. Tracks(t, 0, r, {"LW", "SW"}) /\ 0 \in Nat
    BY DEF LsqOK
  <2>2. r.slot[n].data.ins.op \in {"LW", "SW"}
    BY DEF InsAt
  <2> QED
    BY <2>1, <2>2, TrackedFind
<1>2. t[i].addr = a /\ a # Unknown
  BY <1>1 DEF Accesses, FoundBy
<1>3. a \in Word /\ a % WordBytes = 0 /\ a \div WordBytes < DMemWords
  <2>1. t[i] \in LoadStoreSet
    BY <1>1
  <2>2. t[i].addr \in Word
    BY <1>2, <2>1 DEF LoadStoreSet
  <2> HIDE DEF i
  <2> QED
    BY <1>1, <1>2, <2>2 DEF Inside
<1>4. /\ w \in 0 .. DMemWords - 1
      /\ \A m \in [0 .. DMemWords - 1 -> Word] :
            Meaning!ReadData(m, a) = m[w] /\ \A v : Meaning!WriteData(m, a, v)[w] = v
  BY <1>3, WholeWords
<1>5. /\ j \in 0 .. i - 1
      /\ j # 0 => Blocks(t, i, j)
      /\ \A k \in 1 .. i - 1 : Blocks(t, i, k) => k <= j
  BY <1>1, BlockingStoreValue
<1>6. /\ \A k \in 0 .. r.count : x[k] \in ArchState
      /\ 0 \in 0 .. r.count /\ P \in 0 .. r.count
  BY TraceStates
<1>7. /\ LoadResult(t, n).hit <=> j # 0 /\ t[j].addr # Unknown /\ t[j].data # Unknown
      /\ ~(j # 0 /\ Unknown \in {t[j].addr, t[j].data})
      /\ j # 0 => LoadResult(t, n).data = t[j].data
  <2>1. (IF i = 0 \/ t[i].addr = Unknown THEN 0 ELSE BlockingStore(t, i)) = j
    BY <1>1
  <2> DEFINE hit == j # 0 /\ t[j].addr # Unknown /\ t[j].data # Unknown
             wait == j # 0 /\ Unknown \in {t[j].addr, t[j].data}
             data == IF j = 0 THEN Unknown ELSE t[j].data
  <2> HIDE DEF j
  <2>2. LoadResult(t, n) = [hit |-> hit, wait |-> wait, data |-> data]
    BY <2>1, Zenon DEF LoadResult, i
  <2> HIDE DEF hit, wait, data
  <2>3. LoadResult(t, n).hit = hit /\ LoadResult(t, n).wait = wait /\ LoadResult(t, n).data = data
    BY <2>2
  <2>4. ~wait
    BY <2>3, Zenon
  <2> QED
    BY <2>3, <2>4, Zenon DEF hit, wait, data
<1> HIDE DEF i, j, w, P
<1>8. CASE j = 0
  <2>1. ~LoadResult(t, n).hit
    BY <1>7, <1>8
  <2>2. \A s \in Index : InWindow(r, s) /\ 0 <= Position(r, s) /\ Position(r, s) < P => ~StoresTo(x, r, s, w)
    <3> SUFFICES ASSUME NEW s \in Index, InWindow(r, s), Position(r, s) < P PROVE ~StoresTo(x, r, s, w)
      OBVIOUS
    <3>1. ~StoresTo(x, r, s, Meaning!DataIndex(t[i].addr))
      BY <1>1, <1>2, <1>5, <1>8, NoStoreBetween DEF P
    <3> QED
      BY <1>2, <3>1 DEF w
  <2>3. \A k \in 0 .. P : x[k].mem[w] = x[0].mem[w]
    BY <1>4, <1>6, <2>2, WordKept
  <2>4. x[P].mem[w] = x[0].mem[w]
    BY <1>6, <2>3
  <2>5. x[P].mem \in [0 .. DMemWords - 1 -> Word] /\ x[0].mem \in [0 .. DMemWords - 1 -> Word]
    BY <1>6 DEF ArchState
  <2> QED
    BY <1>4, <2>1, <2>4, <2>5 DEF P
<1>9. CASE j # 0
  <2> DEFINE u == t[j].rob
             p == Position(r, u)
             b == x[p].regs[InsAt(r, u).rs2]
  <2>1. j \in 1 .. Len(t) /\ j < i
    <3>1. Len(t) \in Nat
      OBVIOUS
    <3> QED
      BY <1>1, <1>5, <1>9, <3>1
  <2>2. t[j].addr # Unknown /\ t[j].data # Unknown
    BY <1>7, <1>9
  <2>3. LoadResult(t, n).hit /\ LoadResult(t, n).data = t[j].data
    BY <1>7, <1>9, <2>2
  <2>4. t[j].type = "STORE" /\ t[j].addr = a
    BY <1>2, <1>5, <1>9, <2>2 DEF Blocks
  <2>5. /\ t[j].addr = AddressIn(InsAt(r, u), x[p])
        /\ t[j].data = b
    BY <2>1, <2>2, <2>4 DEF Accesses, FoundBy
  <2>6. /\ u \in Index /\ InWindow(r, u) /\ InsAt(r, u).op = "SW"
        /\ p < P
    <3>1. Tracks(t, 0, r, {"LW", "SW"})
      BY DEF LsqOK
    <3>2. u \in Index /\ InWindow(r, u)
      <4>1. t[j].rob \in Index /\ (InWindow(r, t[j].rob) <=> j > 0)
        BY <2>1, <3>1 DEF Tracks
      <4> QED
        BY <2>1, <4>1
    <3>3. p < P
      <4>1. 0 < j
        BY <2>1
      <4>2. Position(r, t[j].rob) < Position(r, t[i].rob)
        BY <1>1, <2>1, <3>1, <4>1 DEF Tracks
      <4> QED
        BY <1>1, <4>2 DEF P
    <3>4. InsAt(r, u).op = MemoryOp(t[j].type)
      BY <2>1 DEF LsqOK, Progress, InsAt
    <3> QED
      BY <2>4, <3>2, <3>3, <3>4 DEF MemoryOp
  <2> HIDE DEF u, p, b
  <2>7. /\ p \in 0 .. r.count /\ p + 1 \in 0 .. r.count /\ x[p] \in ArchState
        /\ DataOK(r.slot[u].data) /\ x[p + 1] = Does(r.slot[u].data, x[p])
    BY <2>6, TraceStates DEF p
  <2>8. x[p + 1].mem = Meaning!WriteData(x[p].mem, a, b)
    <3>1. r.slot[u].data.ins.op = "SW"
      BY <2>6 DEF InsAt
    <3>2. x[p + 1].mem = Meaning!WriteData(x[p].mem, AddressIn(r.slot[u].data.ins, x[p]),
                                           x[p].regs[r.slot[u].data.ins.rs2])
      BY <2>7, <3>1, DoesEffect
    <3>3. AddressIn(r.slot[u].data.ins, x[p]) = a /\ x[p].regs[r.slot[u].data.ins.rs2] = b
      BY <2>4, <2>5 DEF InsAt, b
    <3> QED
      BY <3>2, <3>3, Zenon
  <2>9. x[p + 1].mem[w] = b
    <3>1. x[p].mem \in [0 .. DMemWords - 1 -> Word]
      BY <2>7 DEF ArchState
    <3> QED
      BY <1>4, <2>8, <3>1
  <2>10. \A s \in Index : InWindow(r, s) /\ p + 1 <= Position(r, s) /\ Position(r, s) < P =>
            ~StoresTo(x, r, s, w)
    <3> SUFFICES ASSUME NEW s \in Index, InWindow(r, s), p + 1 <= Position(r, s), Position(r, s) < P
                 PROVE  ~StoresTo(x, r, s, w)
      OBVIOUS
    <3>1. p < Position(r, s)
      <4>1. p \in Int /\ Position(r, s) \in Int
        BY <2>6, RingPositions DEF p
      <4> QED
        BY <4>1
    <3>2. ~StoresTo(x, r, s, Meaning!DataIndex(t[i].addr))
      BY <1>1, <1>2, <1>5, <3>1, NoStoreBetween DEF P, p, u
    <3> QED
      BY <1>2, <3>2 DEF w
  <2>11. \A k \in p + 1 .. P : x[k].mem[w] = x[p + 1].mem[w]
    <3>1. w \in 0 .. DMemWords - 1 /\ p + 1 \in 0 .. r.count /\ P \in 0 .. r.count
      BY <1>4, <1>6, <2>7
    <3> QED
      BY <2>10, <3>1, WordKept
  <2>12. x[P].mem[w] = b
    <3>1. P \in p + 1 .. P
      BY <1>6, <2>6, <2>7
    <3> QED
      BY <2>9, <2>11, <3>1
  <2>13. x[P].mem \in [0 .. DMemWords - 1 -> Word]
    BY <1>6 DEF ArchState
  <2> QED
    BY <1>4, <2>3, <2>5, <2>12, <2>13 DEF P
<1> QED
  BY <1>8, <1>9

(* Every access whose address is known is a word of the data memory. *)
AccessesInside == Inside(lsq)

(* A load gets its result: no address and no data of a store changes. *)
LEMMA LoadAccesses ==
    ASSUME NEW q \in Seq(LoadStoreSet), NEW x, NEW r, Accesses(q, x, r), NEW n, NEW v \in Word
    PROVE  /\ CompleteLoad(q, n, v) \in Seq(LoadStoreSet)
           /\ Accesses(CompleteLoad(q, n, v), x, r)
           /\ Inside(CompleteLoad(q, n, v)) => Inside(q)
<1> DEFINE t == CompleteLoad(q, n, v)
<1>1. /\ t \in Seq(LoadStoreSet) /\ EntriesKept(q, t)
      /\ \A k \in 1 .. Len(q) :
            IF k = Find(q, n)
            THEN /\ t[k].type = q[k].type /\ t[k].addr = q[k].addr
                 /\ t[k].data = IF q[k].type = "LOAD" THEN v ELSE q[k].data
            ELSE t[k] = q[k]
  BY CompleteLoadEntries
<1> HIDE DEF t
<1>2. \A k \in 1 .. Len(q) : /\ t[k].type = q[k].type /\ t[k].addr = q[k].addr
                             /\ q[k].type = "LOAD" \/ t[k].data = q[k].data
  BY <1>1
<1>3. Accesses(t, x, r)
  BY <1>1, <1>2, AccessesLearnt
<1>4. Inside(t) => Inside(q)
  BY <1>1, <1>2 DEF Inside, EntriesKept
<1> QED
  BY <1>1, <1>3, <1>4 DEF t

(* A load executes and gets the word that the program would read. *)
LEMMA LoadValues ==
    ASSUME MachineOK, MemoryOK, ControlOK, ValuesOK, ExecuteLoad, AccessesInside'
    PROVE  ValuesOK' /\ ControlOK' /\ [Meaning!Next]_(Meaning!vars)
<1>1. PICK i \in FirstToProceed :
         LET e == iq[i]
             found == LoadResult(Addressed(i), e.rob)
             value == IF found.hit THEN found.data ELSE Meaning!ReadData(dmem, Address(e))
         IN  /\ e.ins.op = "LW"
             /\ lsq' = CompleteLoad(Addressed(i), e.rob, value)
             /\ prf' = [prf EXCEPT ![e.prd] = [ready |-> TRUE, value |-> value]]
             /\ iq' = Wakeup(RemoveSlot(iq, i), e.prd, value)
             /\ rob' = Complete(rob, e.rob)
             /\ stage = "memory" /\ stage' = "branch"
             /\ UNCHANGED <<rom, frontend, halted, haltDispatched, arf, renaming,
                            storeBuffer, dmem, predictor>>
  BY DEF ExecuteLoad
<1> DEFINE e == iq[i]
           n == e.rob
           q == Addressed(i)
           found == LoadResult(q, n)
           v == IF found.hit THEN found.data ELSE Meaning!ReadData(dmem, Address(e))
<1>2. i \in IQSlot /\ ReadyForMemory(e) /\ Ready(e) /\ e.ins.op = "LW"
  BY <1>1, ProceedingSlot DEF ReadyForMemory
<1>3. /\ UNCHANGED <<rom, fetchPc, fd, redirect, halted, haltDispatched, arf, dmem, rat, freeList,
                     storeBuffer>>
      /\ stage = "memory" /\ stage' = "branch"
      /\ rob' = Complete(rob, n) /\ iq' = Wakeup(RemoveSlot(iq, i), e.prd, v)
      /\ prf' = [prf EXCEPT ![e.prd] = [ready |-> TRUE, value |-> v]]
      /\ lsq' = CompleteLoad(q, n, v)
  BY <1>1 DEF frontend, renaming
<1>4. ControlOK' /\ Going' = Going /\ [Meaning!Next]_(Meaning!vars)
  BY <1>2, <1>3, CompleteFrame
<1>5. /\ n \in Index /\ InWindow(rob, n) /\ Ring(rob) /\ InsAt(rob, n) = e.ins /\ e.valid
      /\ e \in EntrySet /\ Linked(iq, rob)
  BY <1>2, ReadyEntry
<1>6. Proceeds(i)
  BY DEF FirstToProceed, FirstSlot
<1>7. /\ q \in Seq(LoadStoreSet) /\ LsqOK(q, rob) /\ q[Find(q, n)].addr # Unknown
      /\ ~found.wait
  BY <1>2, <1>6, ScannedQueue DEF Proceeds
<1>8. e.prd \in Physical /\ v \in Word
  <2>1. found.hit => found.data \in Word
    BY <1>7, ForwardedWord
  <2>2. Meaning!ReadData(dmem, Address(e)) \in Word
    BY ReadTyped DEF MachineOK
  <2> QED
    BY <1>5, <2>1, <2>2, EntryFields
<1>9. /\ prf'[e.prd].ready /\ prf'[e.prd].value = v
      /\ \A j \in Physical : j # e.prd => prf'[j] = prf[j]
  <2>1. prf \in [Physical -> Cell]
    BY DEF MachineOK
  <2> HIDE DEF v, e
  <2> QED
    BY <1>3, <1>8, <2>1
<1>10. WritesRegister(e.ins)
  BY <1>2, OpcodeKinds
<1>11. ASSUME NEW m, NEW x, ValuesAre(m, x)
       PROVE  /\ v = x[Position(rob, n) + 1].regs[e.ins.rd]
              /\ lsq' \in Seq(LoadStoreSet) /\ Accesses(lsq', x, rob)
  <2> DEFINE s == x[Position(rob, n)]
             d == rob.slot[n].data
             a == AddressIn(InsAt(rob, n), s)
  <2>1. Trace(x, rob) /\ Operands(iq, m, x, rob) /\ x[0].mem = dmem
    BY <1>11 DEF ValuesAre, Meant
  <2>2. Accesses(q, x, rob)
    BY <1>2, <1>11, ScannedValues
  <2>3. /\ lsq' \in Seq(LoadStoreSet) /\ Accesses(lsq', x, rob)
        /\ Inside(lsq') => Inside(q)
    <3> HIDE DEF q, v, n
    <3>1. /\ CompleteLoad(q, n, v) \in Seq(LoadStoreSet) /\ Accesses(CompleteLoad(q, n, v), x, rob)
          /\ Inside(CompleteLoad(q, n, v)) => Inside(q)
      BY <1>7, <1>8, <2>2, LoadAccesses
    <3> QED
      BY <1>3, <3>1
  <2>4. Inside(q)
    BY <2>3 DEF AccessesInside
  <2>5. /\ s \in ArchState /\ x[Position(rob, n) + 1] = Does(d, s)
        /\ d.ins = e.ins /\ DataOK(d)
    BY <1>2, <1>5, <2>1, ReadyOperands
  <2>6. Address(e) = a
    BY <1>2, <1>11, AddressFound DEF FoundBy
  <2>7. Does(d, s).regs[e.ins.rd] = Meaning!ReadData(s.mem, a)
    <3>1. Does(d, s).regs[d.ins.rd] = Meaning!ReadData(s.mem, AddressIn(d.ins, s))
      <4> HIDE DEF e, n, s, d, a
      <4> QED
        BY <1>2, <2>5, DoesEffect
    <3> QED
      BY <2>5, <3>1 DEF InsAt
  <2>8. InsAt(rob, n).op = "LW"
    BY <1>2, <1>5
  <2> HIDE DEF e, n, q, d
  <2>9. /\ found.hit => Meaning!ReadData(s.mem, a) = found.data
        /\ ~found.hit => Meaning!ReadData(s.mem, a) = Meaning!ReadData(x[0].mem, a)
    BY <1>5, <1>7, <2>1, <2>2, <2>4, <2>8, LoadedValue
  <2> HIDE DEF found, a, s
  <2>10. v = Meaning!ReadData(s.mem, a)
    BY <2>1, <2>6, <2>9 DEF v
  <2> HIDE DEF v
  <2> QED
    BY <2>3, <2>5, <2>7, <2>10
<1> HIDE DEF v, found
<1>12. ASSUME ~halted
       PROVE  \E m, x : /\ x[0].regs = arf /\ x[0].mem = dmem
                        /\ Mapped(m, rob', rat', freeList', prf')
                        /\ Meant(m, x, rob', prf', iq', lsq', storeBuffer', 0, Going)
  <2>1. PICK m, x : ValuesAre(m, x)
    BY <1>12 DEF ValuesOK
  <2>2. x[0].regs = arf /\ x[0].mem = dmem
    BY <2>1 DEF ValuesAre
  <2>3. BufferOK(storeBuffer, 0, rob)
    BY DEF MemoryOK
  <2>4. /\ v = x[Position(rob, e.rob) + 1].regs[e.ins.rd]
        /\ lsq' \in Seq(LoadStoreSet) /\ Accesses(lsq', x, rob)
    BY <1>11, <2>1
  <2>5. /\ Mapped(m, Complete(rob, e.rob), rat, freeList, prf')
        /\ Meant(m, x, Complete(rob, e.rob), prf', Wakeup(RemoveSlot(iq, i), e.prd, v), lsq',
                 storeBuffer, 0, Going)
    BY <1>2, <1>8, <1>9, <1>10, <2>1, <2>3, <2>4, WriterValues
  <2> HIDE DEF e, Going
  <2>6. /\ Mapped(m, rob', rat', freeList', prf')
        /\ Meant(m, x, rob', prf', iq', lsq', storeBuffer', 0, Going)
    BY <1>3, <2>5, Zenon DEF n
  <2> QED
    BY <2>2, <2>6
<1>13. ValuesOK'
  BY <1>3, <1>4, <1>12, ValuesBehind
<1> QED
  BY <1>4, <1>13

-----------------------------------------------------------------------------
(* Recovery: what is older than the mispredicted branch b, and b itself,    *)
(* stays as it was. *)
CutAt(r, s, b) ==
    /\ s.count = Position(r, b) + 1
    /\ \A j \in Index : /\ Position(s, j) = Position(r, j)
                        /\ InWindow(s, j) <=> InWindow(r, j) /\ Position(r, j) <= Position(r, b)
                        /\ InWindow(s, j) => s.slot[j].data = r.slot[j].data
                        /\ Pending(s, j) => Pending(r, j) /\ j # b
                        /\ InWindow(s, j) /\ Pending(r, j) /\ j # b => Pending(s, j)

Cut(x, n) == [k \in 0 .. n |-> x[k]]

(* A recovery keeps the branch and what is older. *)
LEMMA CutRing ==
    ASSUME NEW r, Ring(r), NEW b \in Index, InWindow(r, b),
           NEW s, s = SquashYoungerThan(Complete(r, b), b)
    PROVE  /\ Ring(s) /\ s.head = r.head /\ CutAt(r, s, b)
           /\ Position(r, b) \in Nat /\ r.count \in Nat /\ Position(r, b) < r.count
<1> DEFINE c == Complete(r, b)
<1>1. /\ Ring(c) /\ c.head = r.head /\ InWindow(c, b)
      /\ \A j \in Index : /\ Position(c, j) = Position(r, j)
                          /\ InWindow(c, j) <=> InWindow(r, j)
                          /\ c.slot[j].data = r.slot[j].data
                          /\ Pending(c, j) <=> Pending(r, j) /\ j # b
  BY CompleteRing
<1> HIDE DEF c
<1>2. /\ Ring(s) /\ s.count = Position(c, b) + 1 /\ s.head = c.head
      /\ \A j \in Index :
            /\ Position(s, j) = Position(c, j)
            /\ InWindow(s, j) <=> InWindow(c, j) /\ Position(c, j) <= Position(c, b)
            /\ InWindow(s, j) <=> InWindow(c, j) /\ j \notin Younger(c, b)
            /\ InWindow(s, j) => s.slot[j] = c.slot[j]
            /\ Pending(s, j) <=> Pending(c, j) /\ j \notin Younger(c, b)
  BY <1>1, SquashRing DEF c
<1>3. CutAt(r, s, b)
  <2>1. s.count = Position(r, b) + 1
    BY <1>1, <1>2
  <2>2. ASSUME NEW j \in Index
        PROVE  /\ Position(s, j) = Position(r, j)
               /\ InWindow(s, j) <=> InWindow(r, j) /\ Position(r, j) <= Position(r, b)
               /\ InWindow(s, j) => s.slot[j].data = r.slot[j].data
               /\ Pending(s, j) => Pending(r, j) /\ j # b
               /\ InWindow(s, j) /\ Pending(r, j) /\ j # b => Pending(s, j)
    BY <1>1, <1>2
  <2> QED
    BY <2>1, <2>2 DEF CutAt
<1>4. Position(r, b) \in Nat /\ r.count \in Nat /\ Position(r, b) < r.count
  BY RingPositions
<1> QED
  BY <1>1, <1>2, <1>3, <1>4

(* The trace up to the branch is kept. *)
LEMMA TraceCut ==
    ASSUME NEW r, Ring(r), NEW s, Ring(s), NEW b \in Index, InWindow(r, b), CutAt(r, s, b),
           NEW x, Trace(x, r)
    PROVE  /\ Trace(Cut(x, Position(r, b) + 1), s)
           /\ \A j \in Index : InWindow(s, j) =>
                 /\ Cut(x, Position(r, b) + 1)[Position(s, j)] = x[Position(r, j)]
                 /\ Cut(x, Position(r, b) + 1)[Position(s, j) + 1] = x[Position(r, j) + 1]
           /\ Cut(x, Position(r, b) + 1)[0] = x[0]
<1> DEFINE n == Position(r, b) + 1
           y == Cut(x, n)
<1>1. /\ r.count \in Nat /\ n \in Nat /\ n <= r.count /\ s.count = n
      /\ \A j \in Index : Position(r, j) \in Nat
  BY RingPositions DEF CutAt
<1>2. x \in [0 .. r.count -> ArchState]
  BY DEF Trace
<1>3. \A k \in 0 .. n : y[k] = x[k] /\ k \in 0 .. r.count
  BY <1>1 DEF Cut
<1>4. y \in [0 .. s.count -> ArchState]
  BY <1>1, <1>2, <1>3 DEF Cut
<1> HIDE DEF y
<1>5. ASSUME NEW j \in Index, InWindow(s, j)
      PROVE  y[Position(s, j)] = x[Position(r, j)] /\ y[Position(s, j) + 1] = x[Position(r, j) + 1]
  <2>1. Position(s, j) = Position(r, j) /\ Position(r, j) <= Position(r, b)
    BY <1>5 DEF CutAt
  <2>2. Position(r, j) \in 0 .. n /\ Position(r, j) + 1 \in 0 .. n
    BY <1>1, <2>1
  <2> QED
    BY <1>3, <2>1, <2>2
<1>6. ASSUME NEW j \in Index, InWindow(s, j)
      PROVE  y[Position(s, j) + 1] = Does(s.slot[j].data, y[Position(s, j)])
  <2>1. InWindow(r, j) /\ s.slot[j].data = r.slot[j].data
    BY <1>6 DEF CutAt
  <2>2. x[Position(r, j) + 1] = Does(r.slot[j].data, x[Position(r, j)])
    BY <2>1 DEF Trace
  <2> QED
    BY <1>5, <1>6, <2>1, <2>2
<1>7. y[0] = x[0]
  BY <1>1, <1>3
<1> QED
  BY <1>4, <1>5, <1>6, <1>7 DEF Trace, y

(* Ready registers keep their meaning when the younger ones are squashed, *)
LEMMA ValuedCut ==
    ASSUME NEW r, Ring(r), NEW s, Ring(s), NEW b \in Index, InWindow(r, b), CutAt(r, s, b),
           NEW x, Trace(x, r), NEW m, NEW file, Valued(m, x, r, file),
           NEW h, h[0] = m[0], NEW y, y = Cut(x, Position(r, b) + 1)
    PROVE  Valued(h, y, s, file)
<1>1. /\ y[0] = x[0]
      /\ \A j \in Index : InWindow(s, j) => y[Position(s, j) + 1] = x[Position(r, j) + 1]
  BY TraceCut
<1>2. \A a \in Register : file[h[0][a]].value = y[0].regs[a]
  BY <1>1 DEF Valued
<1>3. ASSUME NEW i \in Index, Writes(s, i), file[Prd(s, i)].ready
      PROVE  file[Prd(s, i)].value = y[Position(s, i) + 1].regs[Rd(s, i)]
  <2>1. InWindow(s, i) /\ InWindow(r, i) /\ s.slot[i].data = r.slot[i].data
    BY <1>3 DEF Writes, CutAt
  <2>2. Writes(r, i) /\ Prd(s, i) = Prd(r, i) /\ Rd(s, i) = Rd(r, i)
    BY <1>3, <2>1 DEF Writes, Prd, Rd
  <2>3. file[Prd(r, i)].value = x[Position(r, i) + 1].regs[Rd(r, i)]
    BY <1>3, <2>2 DEF Valued
  <2> QED
    BY <1>1, <2>1, <2>2, <2>3
<1> QED
  BY <1>2, <1>3 DEF Valued

(* The queue behind the recovery. *)
KeptOf(q, t, s) == \A k \in IQSlot : t[k].valid => /\ t[k] = q[k] /\ q[k].valid
                                                   /\ Pending(s, q[k].rob)

(* and so do the operands of the older ones, *)
LEMMA OperandsCut ==
    ASSUME NEW r, Ring(r), NEW s, Ring(s), NEW b \in Index, InWindow(r, b), CutAt(r, s, b),
           NEW x, Trace(x, r), NEW m, NEW q, Linked(q, r), Operands(q, m, x, r),
           NEW t, KeptOf(q, t, s),
           NEW h, h = Cut(m, Position(r, b) + 1), NEW y, y = Cut(x, Position(r, b) + 1)
    PROVE  Operands(t, h, y, s)
<1> SUFFICES ASSUME NEW k \in IQSlot, t[k].valid
             PROVE  LET n == Position(s, t[k].rob) IN GetsOperands(t[k], h[n], y[n])
  BY DEF Operands
<1>1. t[k] = q[k] /\ q[k].valid /\ Pending(s, q[k].rob)
  BY DEF KeptOf
<1>2. q[k].rob \in Index /\ InWindow(s, q[k].rob)
  BY <1>1, SourcesTyped DEF Pending
<1> DEFINE p == Position(r, q[k].rob)
<1>3. Position(s, q[k].rob) = p /\ p <= Position(r, b)
  BY <1>2 DEF CutAt
<1>4. p \in 0 .. Position(r, b) + 1
  BY <1>2, <1>3, RingPositions
<1>5. h[p] = m[p] /\ y[p] = x[p]
  BY <1>4 DEF Cut
<1>6. GetsOperands(q[k], m[p], x[p])
  BY <1>1 DEF Operands
<1> HIDE DEF p
<1> QED
  BY <1>1, <1>3, <1>5, <1>6

(* and their accesses *)
LEMMA AccessesCut ==
    ASSUME NEW r, Ring(r), NEW s, Ring(s), NEW b \in Index, InWindow(r, b), CutAt(r, s, b),
           NEW x, Trace(x, r), NEW l, LsqOK(l, s), Accesses(l, x, r),
           NEW y, y = Cut(x, Position(r, b) + 1)
    PROVE  Accesses(l, y, s)
<1>1. \A k \in 1 .. Len(l) : l[k].rob \in Index /\ InWindow(s, l[k].rob)
  BY DEF LsqOK, Tracks
<1>2. \A j \in Index : InWindow(s, j) => FoundBy(j, y, s) = FoundBy(j, x, r) /\ InsAt(s, j) = InsAt(r, j)
  BY TraceCut DEF CutAt, FoundBy, InsAt
<1> SUFFICES ASSUME NEW k \in 1 .. Len(l)
             PROVE  LET f == FoundBy(l[k].rob, y, s)
                        ins == InsAt(s, l[k].rob)
                    IN  /\ l[k].addr # Unknown => l[k].addr = AddressIn(ins, f)
                        /\ l[k].type = "STORE" /\ l[k].data # Unknown => l[k].data = f.regs[ins.rs2]
  BY DEF Accesses
<1>3. FoundBy(l[k].rob, y, s) = FoundBy(l[k].rob, x, r) /\ InsAt(s, l[k].rob) = InsAt(r, l[k].rob)
  BY <1>1, <1>2
<1> QED
  BY <1>3 DEF Accesses

(* and stores. *)
LEMMA StoredCut ==
    ASSUME NEW r, Ring(r), NEW s, Ring(s), NEW b \in Index, InWindow(r, b), CutAt(r, s, b),
           InsAt(r, b).op # "SW",
           NEW x, Trace(x, r), NEW l, BufferOK(l, 0, s), BufferOK(l, 0, r), Stored(l, 0, x, r),
           NEW y, y = Cut(x, Position(r, b) + 1)
    PROVE  Stored(l, 0, y, s)
<1>1. \A k \in 1 .. Len(l) : l[k].rob \in Index /\ InWindow(s, l[k].rob) /\ InsAt(r, l[k].rob).op = "SW"
  <2>1. \A k \in 1 .. Len(l) : l[k].rob \in Index /\ (InWindow(s, l[k].rob) <=> k > 0)
    BY DEF BufferOK, Tracks
  <2>2. \A k \in 1 .. Len(l) : k > 0 => r.slot[l[k].rob].data.ins.op \in {"SW"}
    BY DEF BufferOK, Tracks
  <2> QED
    BY <2>1, <2>2 DEF InsAt
<1>2. \A j \in Index : InWindow(s, j) => FoundBy(j, y, s) = FoundBy(j, x, r) /\ InsAt(s, j) = InsAt(r, j)
  BY TraceCut DEF CutAt, FoundBy, InsAt
<1>3. \A j \in Index : InWindow(s, j) /\ ~Pending(s, j) /\ j # b => ~Pending(r, j)
  BY DEF CutAt
<1> SUFFICES ASSUME NEW k \in 1 .. Len(l), k > 0, ~Pending(s, l[k].rob)
             PROVE  LET f == FoundBy(l[k].rob, y, s)
                        ins == InsAt(s, l[k].rob)
                    IN  l[k].addr = AddressIn(ins, f) /\ l[k].data = f.regs[ins.rs2]
  BY DEF Stored
<1>4. l[k].rob # b
  BY <1>1
<1>5. /\ FoundBy(l[k].rob, y, s) = FoundBy(l[k].rob, x, r) /\ InsAt(s, l[k].rob) = InsAt(r, l[k].rob)
      /\ ~Pending(r, l[k].rob)
  BY <1>1, <1>2, <1>3, <1>4
<1> QED
  BY <1>5 DEF Stored

(* Behind each older instruction comes what came before, *)
LEMMA NextCut ==
    ASSUME NEW r, Ring(r), NEW s, Ring(s), NEW b \in Index, InWindow(r, b), CutAt(r, s, b),
           NEW G, NEW i \in Index, InWindow(s, i), i # b, NEW n, NextIs(r, G, i, n), NEW H
    PROVE  NextIs(s, H, i, n)
<1>1. Position(s, i) = Position(r, i) /\ s.count = Position(r, b) + 1
  BY DEF CutAt
<1>2. Position(s, i) + 1 # s.count
  BY <1>1, RingPositions
<1>3. ASSUME NEW j \in Index, InWindow(s, j), Position(s, j) = Position(s, i) + 1
      PROVE  s.slot[j].data.pc = n
  <2>1. /\ InWindow(r, j) /\ Position(r, j) = Position(r, i) + 1 /\ s.slot[j].data = r.slot[j].data
    BY <1>1, <1>3 DEF CutAt
  <2> QED
    BY <2>1 DEF NextIs
<1> QED
  BY <1>2, <1>3 DEF NextIs

(* behind the branch what the redirect brings, *)
LEMMA NextOfBranch ==
    ASSUME NEW r, Ring(r), NEW s, Ring(s), NEW b \in Index, InWindow(r, b), CutAt(r, s, b), NEW n
    PROVE  NextIs(s, {n}, b, n)
<1>1. Position(s, b) = Position(r, b) /\ s.count = Position(r, b) + 1
  BY DEF CutAt
<1>2. \A j \in Index : InWindow(s, j) => Position(s, j) < s.count
  BY RingPositions
<1>3. \A j \in Index : InWindow(s, j) => Position(s, j) # Position(s, b) + 1
  BY <1>1, <1>2, RingPositions
<1> QED
  BY <1>3 DEF NextIs

(* so that each branch in flight still goes where it should. *)
LEMMA GoesCut ==
    ASSUME NEW r, Ring(r), NEW s, Ring(s), NEW b \in Index, InWindow(r, b), CutAt(r, s, b),
           InsAt(r, b).op # "J",
           NEW x, Trace(x, r), NEW q, Linked(q, r), NEW G, Goes(x, r, q, G), NEW t, KeptOf(q, t, s),
           NEW y, y = Cut(x, Position(r, b) + 1), NEW n, n = x[Position(r, b) + 1].pc
    PROVE  Goes(y, s, t, {n})
<1>1. \A j \in Index : InWindow(s, j) =>
         /\ InWindow(r, j) /\ InsAt(s, j) = InsAt(r, j) /\ y[Position(s, j) + 1] = x[Position(r, j) + 1]
         /\ j # b => (Pending(s, j) <=> Pending(r, j))
  BY TraceCut DEF CutAt, InsAt
<1>2. Decided(y, s, {n})
  <2> SUFFICES ASSUME NEW i \in Index, InWindow(s, i), ~Pending(s, i), InsAt(s, i).op \in BranchOps
               PROVE  NextIs(s, {n}, i, y[Position(s, i) + 1].pc)
    BY DEF Decided
  <2>1. CASE i = b
    <3>1. y[Position(s, i) + 1].pc = n
      BY <1>1, <2>1
    <3> QED
      BY <2>1, <3>1, NextOfBranch
  <2>2. CASE i # b
    <3>1. NextIs(r, G, i, x[Position(r, i) + 1].pc)
      BY <1>1, <2>2 DEF Goes, Decided
    <3>2. NextIs(s, {n}, i, x[Position(r, i) + 1].pc)
      BY <2>2, <3>1, NextCut
    <3> QED
      BY <1>1, <3>2
  <2> QED
    BY <2>1, <2>2
<1>3. Guessed(t, s, {n})
  <2> SUFFICES ASSUME NEW k \in IQSlot, t[k].valid, t[k].ins.op \in BranchOps
               PROVE  NextIs(s, {n}, t[k].rob, Guess(t[k]))
    BY DEF Guessed
  <2>1. t[k] = q[k] /\ q[k].valid /\ Pending(s, q[k].rob)
    BY DEF KeptOf
  <2>2. q[k].rob \in Index /\ InWindow(s, q[k].rob) /\ q[k].rob # b
    <3>1. q[k].rob \in Index
      BY <2>1, SourcesTyped
    <3> QED
      BY <2>1, <3>1 DEF CutAt, Pending
  <2>3. NextIs(r, G, q[k].rob, Guess(q[k]))
    BY <2>1 DEF Goes, Guessed
  <2>4. NextIs(s, {n}, q[k].rob, Guess(q[k]))
    BY <2>2, <2>3, NextCut
  <2> QED
    BY <2>1, <2>4
<1>4. JumpsWait(s)
  <2> SUFFICES ASSUME NEW i \in Index, InWindow(s, i), InsAt(s, i).op = "J"
               PROVE  Pending(s, i)
    BY DEF JumpsWait
  <2>1. i # b /\ InWindow(r, i) /\ InsAt(r, i).op = "J"
    BY <1>1
  <2> QED
    BY <1>1, <2>1 DEF Goes, JumpsWait
<1> QED
  BY <1>2, <1>3, <1>4 DEF Goes

(* The second time the reorder buffer is asked what is younger, nothing is. *)
LEMMA QueuesSpared ==
    ASSUME MachineOK, NEW b \in Index, InWindow(rob, b)
    PROVE  LET Y == Younger(SquashYoungerThan(Complete(rob, b), b), b)
           IN  LsqSquash(lsq, Y) = lsq /\ SBSquash(storeBuffer, Y) = storeBuffer
<1> DEFINE c == Complete(rob, b)
           Y == Younger(SquashYoungerThan(c, b), b)
<1>1. Ring(rob) /\ lsq \in Seq(LoadStoreSet) /\ storeBuffer \in Seq(StoreSet)
  BY DEF MachineOK
<1>2. Ring(c) /\ InWindow(c, b)
  BY <1>1, CompleteRing
<1> HIDE DEF c
<1>3. Y = {}
  BY <1>2, NothingYounger
<1> HIDE DEF Y
<1>4. LsqSquash(lsq, Y) = lsq /\ SBSquash(storeBuffer, Y) = storeBuffer
  BY <1>1, <1>3, SquashOfNothing
<1> QED
  BY <1>4 DEF Y, c

(* The issue queue keeps the entries of what is kept. *)
LEMMA QueueSquashed ==
    ASSUME MachineOK, NEW i \in IQSlot, iq[i].valid, NEW b, b = iq[i].rob, NEW c, c = Complete(rob, b)
    PROVE  KeptOf(iq, IQSquash(RemoveSlot(iq, i), Younger(c, b)), SquashYoungerThan(c, b))
<1> DEFINE q == RemoveSlot(iq, i)
           t == IQSquash(q, Younger(c, b))
           s == SquashYoungerThan(c, b)
<1>1. Ring(rob) /\ b \in Index /\ InWindow(rob, b)
  BY IssuedInstruction
<1>2. Ring(c) /\ InWindow(c, b)
  BY <1>1, CompleteRing
<1>3. \A j \in Index : Pending(s, j) <=> Pending(c, j) /\ j \notin Younger(c, b)
  BY <1>1, <1>2, SquashRing
<1>4. Linked(q, c)
  BY ExecutedEntry
<1>5. \A k \in IQSlot : q[k].valid => q[k] = iq[k] /\ iq[k].valid
  BY LeftRemoved
<1>6. \A k \in IQSlot : t[k].valid => t[k] = q[k] /\ q[k].valid /\ q[k].rob \notin Younger(c, b)
  BY DEF IQSquash, FreeSlot
<1>7. \A k \in IQSlot : q[k].valid => q[k].rob \in Index /\ Pending(c, q[k].rob)
  BY <1>2, <1>4, SourcesTyped
<1> HIDE DEF q, t, s
<1>8. \A k \in IQSlot : t[k].valid => t[k] = iq[k] /\ iq[k].valid /\ Pending(s, iq[k].rob)
  BY <1>3, <1>5, <1>6, <1>7
<1> QED
  BY <1>8 DEF KeptOf, t, q, s

(* A branch has gone elsewhere: recovery leaves the values of what is older. *)
LEMMA SquashValues ==
    ASSUME MachineOK, MemoryOK, ControlOK, ValuesOK, BranchMispredicted, WrongPathSparesMemory
    PROVE  ValuesOK' /\ ControlOK' /\ [Meaning!Next]_(Meaning!vars)
<1>1. PICK i \in FirstSlot(ReadyBranches) :
         LET e == iq[i]
             completed == Complete(rob, e.rob)
             recovered == SquashYoungerThan(completed, e.rob)
             stillYounger == Younger(recovered, e.rob)
         IN  /\ stage = "branch"
             /\ rob' = recovered
             /\ rat' = rob.slot[e.rob].data.cp
             /\ freeList' = SquashedRegisters(SquashedWriters(completed, e.rob)) \o freeList
             /\ iq' = IQSquash(RemoveSlot(iq, i), Younger(completed, e.rob))
             /\ lsq' = LsqSquash(lsq, stillYounger)
             /\ storeBuffer' = SBSquash(storeBuffer, stillYounger)
             /\ haltDispatched' = FALSE
             /\ redirect' = [on |-> TRUE,
                             pc |-> IF Outcome(e) THEN Target(e.ins, e.pc)
                                    ELSE (e.pc + InsnBytes) % PcMod]
             /\ stage' = "alu0"
             /\ UNCHANGED <<rom, fetchPc, fd, halted, prf, arf, checkpoints, dmem>>
  BY DEF BranchMispredicted
<1> DEFINE e == iq[i]
           b == e.rob
           c == Complete(rob, b)
           s == SquashYoungerThan(c, b)
           P == Position(rob, b) + 1
<1>2. i \in IQSlot /\ Ready(e) /\ e.valid /\ e.ins.op \in BranchOps
  BY DEF FirstSlot, ReadyBranches, ReadyBranch, Ready
<1>3. /\ b \in Index /\ Ring(rob) /\ InWindow(rob, b) /\ Linked(iq, rob) /\ InsAt(rob, b) = e.ins
  BY <1>2, ReadyEntry
<1>4. lsq' = lsq /\ storeBuffer' = storeBuffer
  BY <1>1, <1>3, QueuesSpared
<1>5. /\ rob' = s /\ rat' = rob.slot[b].data.cp
      /\ freeList' = SquashedRegisters(SquashedWriters(c, b)) \o freeList
      /\ iq' = IQSquash(RemoveSlot(iq, i), Younger(c, b))
      /\ haltDispatched' = FALSE /\ redirect'.on = TRUE
      /\ redirect'.pc = IF Outcome(e) THEN Target(e.ins, e.pc) ELSE Behind(e)
      /\ stage' = "alu0" /\ prf' = prf /\ arf' = arf /\ dmem' = dmem /\ halted' = halted /\ rom' = rom
  BY <1>1 DEF Behind
<1>6. KeptOf(iq, iq', s)
  BY <1>2, <1>5, QueueSquashed
<1>7. LsqOK(lsq, s) /\ BufferOK(storeBuffer, 0, s) /\ BufferOK(storeBuffer, 0, rob)
  <2>1. MemoryOK'
    BY RecoveryQueues
  <2>2. LsqOK(lsq', rob') /\ BufferOK(storeBuffer', 0, rob')
    BY <2>1 DEF MemoryOK
  <2> HIDE DEF s
  <2>3. LsqOK(lsq, s) /\ BufferOK(storeBuffer, 0, s)
    BY <1>4, <1>5, <2>2, Zenon
  <2> QED
    BY <2>3 DEF MemoryOK
<1>8. /\ Ring(c) /\ InWindow(c, b) /\ c.slot[b].data = rob.slot[b].data /\ Position(c, b) = Position(rob, b)
  BY <1>3, CompleteRing
<1>9. e.ins.op # "J" /\ e.ins.op # "SW" /\ ~WritesRegister(e.ins)
  BY <1>2, OpcodeKinds
<1>10. freeList \in Seq(Physical) /\ ~Writes(rob, b)
  BY <1>3, <1>9 DEF MachineOK, Writes, InsAt
<1>11. Ring(s) /\ s.head = rob.head /\ CutAt(rob, s, b) /\ s.count > 0
  <2>1. Ring(s) /\ s.head = rob.head /\ CutAt(rob, s, b) /\ Position(rob, b) \in Nat
    BY <1>3, CutRing
  <2> HIDE DEF s
  <2> QED
    BY <2>1 DEF CutAt
<1>12. c.slot[b].data.ins.op \in BranchOps
  BY <1>2, <1>3, <1>8 DEF InsAt
<1> HIDE DEF e, c, s, P
<1>13. Going' = {redirect'.pc}
  BY <1>5 DEF Going, Coming
<1>14. ASSUME ~halted
       PROVE  \E m, x : ValuesAre(m, x)'
  <2>1. PICK m, x : ValuesAre(m, x)
    BY <1>14 DEF ValuesOK
  <2>2. /\ Mapped(m, rob, rat, freeList, prf) /\ x[0].regs = arf /\ x[0].mem = dmem
        /\ Trace(x, rob) /\ Valued(m, x, rob, prf) /\ Operands(iq, m, x, rob)
        /\ Accesses(lsq, x, rob) /\ Stored(storeBuffer, 0, x, rob) /\ Goes(x, rob, iq, Going)
    BY <2>1 DEF ValuesAre, Meant
  <2>3. x[P].pc = redirect'.pc
    <3>1. x[Position(rob, iq[i].rob) + 1].pc =
             IF Outcome(iq[i]) THEN Target(iq[i].ins, iq[i].pc) ELSE Behind(iq[i])
      BY <1>2, <2>1, BranchOutcome DEF e
    <3> QED
      BY <1>5, <3>1 DEF P, e
  <2> DEFINE h == Cut(m, P)
             y == Cut(x, P)
  <2>4. Trace(y, s) /\ y[0] = x[0]
    BY <1>3, <1>11, <2>2, TraceCut DEF P
  <2>5. h[0] = m[0]
    <3>1. 0 \in 0 .. P
      BY <1>3, RingPositions DEF P
    <3> QED
      BY <3>1 DEF Cut
  <2>6. Mapped(h, s, rob.slot[b].data.cp, SquashedRegisters(SquashedWriters(c, b)) \o freeList, prf)
    <3>1. Mapped(m, c, rat, freeList, prf)
      BY <1>3, <1>10, <2>2, MappedCompletes DEF c
    <3>2. Mapped([k \in 0 .. Position(c, b) + 1 |-> m[k]], SquashYoungerThan(c, b),
                 c.slot[b].data.cp, SquashedRegisters(SquashedWriters(c, b)) \o freeList, prf)
      BY <1>3, <1>8, <1>10, <1>12, <3>1, MappedSquashed
    <3> QED
      BY <1>8, <3>2, Zenon DEF Cut, P, s
  <2>7. h = Cut(m, Position(rob, b) + 1) /\ y = Cut(x, Position(rob, b) + 1)
    BY DEF P
  <2> HIDE DEF h, y
  <2>8. Valued(h, y, s, prf)
    BY <1>3, <1>11, <2>2, <2>5, <2>7, ValuedCut
  <2>9. Operands(iq', h, y, s)
    BY <1>3, <1>6, <1>11, <2>2, <2>7, OperandsCut
  <2>10. Accesses(lsq, y, s)
    BY <1>3, <1>7, <1>11, <2>2, <2>7, AccessesCut
  <2>11. Stored(storeBuffer, 0, y, s)
    BY <1>3, <1>7, <1>9, <1>11, <2>2, <2>7, StoredCut
  <2>12. Goes(y, s, iq', {redirect'.pc})
    <3> DEFINE n == redirect'.pc
    <3>1. n = x[Position(rob, b) + 1].pc
      BY <2>3 DEF P
    <3> HIDE DEF n
    <3>2. Goes(y, s, iq', {n})
      BY <1>3, <1>6, <1>9, <1>11, <2>2, <2>7, <3>1, GoesCut
    <3> QED
      BY <3>2 DEF n
  <2>13. Meant(h, y, s, prf, iq', lsq, storeBuffer, 0, Going')
    BY <1>13, <2>4, <2>8, <2>9, <2>10, <2>11, <2>12 DEF Meant
  <2>14. /\ Mapped(h, rob', rat', freeList', prf') /\ y[0].regs = arf' /\ y[0].mem = dmem'
         /\ Meant(h, y, rob', prf', iq', lsq', storeBuffer', 0, Going')
    BY <1>4, <1>5, <2>2, <2>4, <2>6, <2>13, Zenon
  <2>15. PICK g, z : /\ Mapped(g, rob', rat', freeList', prf') /\ z[0].regs = arf' /\ z[0].mem = dmem'
                     /\ Meant(g, z, rob', prf', iq', lsq', storeBuffer', 0, Going')
    BY <2>14
  <2>16. ValuesAre(g, z)'
    BY <2>15 DEF ValuesAre
  <2> QED
    BY <2>16
<1>15. ValuesOK'
  BY <1>5, <1>14 DEF ValuesOK
<1>16. ControlOK'
  <2>1. rob'.count > 0
    BY <1>5, <1>11
  <2> QED
    BY <1>5, <2>1 DEF ControlOK, HaltComing
<1>17. NextPc' = NextPc
  <2>1. rob.head \in Index /\ rob.count > 0 /\ rob'.count > 0 /\ rob'.head = rob.head
    BY <1>3, <1>5, <1>11, RingHead, RingPositions
  <2>2. rob'.slot[rob.head].data = rob.slot[rob.head].data
    <3>1. InWindow(s, rob.head)
      BY <1>11, <2>1, RingHead
    <3> QED
      BY <1>5, <1>11, <2>1, <3>1 DEF CutAt
  <2> QED
    BY <1>5, <2>1, <2>2 DEF NextPc
<1>18. [Meaning!Next]_(Meaning!vars)
  BY <1>5, <1>17 DEF Meaning!vars
<1> QED
  BY <1>15, <1>16, <1>18

-----------------------------------------------------------------------------
(* How a trace or history, the queues and the register file grow with what  *)
(* enters behind the ring r.                                                *)
SameUpTo(y, x, n) == \A k \in 0 .. n : y[k] = x[k]

Entered(t, q, E) == \A k \in IQSlot : t[k].valid => (q[k].valid /\ t[k] = q[k]) \/ t[k] \in E

EnteredWith(E, c, m, x) == \A e \in E : e.rob = c /\ GetsOperands(e, m, x)

EnteredGuess(E, c, n) == \A e \in E : e.rob = c /\ (e.ins.op \in BranchOps => Guess(e) = n)

BlankAt(l, k) == l[k].addr = Unknown /\ l[k].data = Unknown

EnteredLsq(t, l) == \A k \in 1 .. Len(t) : (k \in 1 .. Len(l) /\ t[k] = l[k]) \/ BlankAt(t, k)

EnteredStores(t, b, s) == \A k \in 1 .. Len(t) : (k \in 1 .. Len(b) /\ t[k] = b[k]) \/ Pending(s, t[k].rob)

HeadTaken(f, d, file) == WritesRegister(d.ins) => 1 \in 1 .. Len(f) /\ d.prd = f[1] /\ ~file[d.prd].ready

OthersKept(file1, file, d) == \A p : ~(WritesRegister(d.ins) /\ p = d.prd) => file1[p] = file[p]

NoneDecided(s, c, d) == ~Pending(s, c) => d.ins.op \notin BranchOps \cup {"J"}

(* An instruction d enters behind what r holds.                             *)
GrowsBy(r, s, d) ==
    /\ s.count = r.count + 1 /\ s.head = r.head
    /\ r.tail \in Index /\ ~InWindow(r, r.tail) /\ Position(r, r.tail) = r.count
    /\ s.slot[r.tail].data = d
    /\ \A j \in Index : /\ Position(s, j) = Position(r, j)
                        /\ InWindow(s, j) <=> InWindow(r, j) \/ j = r.tail
                        /\ j # r.tail => /\ s.slot[j].data = r.slot[j].data
                                         /\ Pending(s, j) <=> Pending(r, j)

Grown(x, n, v) == [k \in 0 .. n + 1 |-> IF k <= n THEN x[k] ELSE v]

(* A history that is one longer. *)
LEMMA GrownStates ==
    ASSUME NEW x, NEW n \in Nat, NEW v, NEW y, y = Grown(x, n, v)
    PROVE  /\ \A k \in 0 .. n : y[k] = x[k]
           /\ y[n + 1] = v
BY DEF Grown

(* A new entry of the reorder buffer is the youngest, *)
LEMMA AllocateGrows ==
    ASSUME NEW r, Ring(r), ~Full(r), NEW d, DataOK(d), NEW s, s = Allocate(r, d)
    PROVE  /\ Ring(s) /\ GrowsBy(r, s, d) /\ Pending(s, r.tail)
           /\ Ring(Complete(s, r.tail)) /\ GrowsBy(r, Complete(s, r.tail), d)
<1> DEFINE c == r.tail
           u == Complete(s, c)
<1>1. /\ Ring(s) /\ s.head = r.head /\ s.count = r.count + 1
      /\ c \in Index /\ ~InWindow(r, c) /\ Position(r, c) = r.count
      /\ s.slot[c].data = d
      /\ \A j \in Index : /\ Position(s, j) = Position(r, j)
                          /\ InWindow(s, j) <=> InWindow(r, j) \/ j = c
                          /\ j # c => s.slot[j] = r.slot[j]
                          /\ Pending(s, j) <=> Pending(r, j) \/ j = c
  BY AllocateRing
<1>2. /\ Ring(u) /\ u.count = s.count /\ u.head = s.head
      /\ \A j \in Index : /\ Position(u, j) = Position(s, j)
                          /\ InWindow(u, j) <=> InWindow(s, j)
                          /\ u.slot[j].data = s.slot[j].data
                          /\ Pending(u, j) <=> Pending(s, j) /\ j # c
  <2>1. InWindow(s, c)
    BY <1>1
  <2> QED
    BY <1>1, <2>1, CompleteRing
<1> HIDE DEF u
<1>3. GrowsBy(r, s, d)
  BY <1>1 DEF GrowsBy
<1>4. GrowsBy(r, u, d)
  BY <1>1, <1>2 DEF GrowsBy
<1> QED
  BY <1>1, <1>2, <1>3, <1>4 DEF u

(* and the others stay where they are. *)
LEMMA GrownPosition ==
    ASSUME NEW r, Ring(r), NEW s, NEW d, GrowsBy(r, s, d), NEW j \in Index, InWindow(r, j)
    PROVE  /\ j # r.tail /\ InWindow(s, j) /\ s.slot[j].data = r.slot[j].data
           /\ Position(s, j) = Position(r, j)
           /\ Position(r, j) \in 0 .. r.count /\ Position(r, j) + 1 \in 0 .. r.count
<1>1. j # r.tail /\ InWindow(s, j) /\ Position(s, j) = Position(r, j)
  BY DEF GrowsBy
<1>2. s.slot[j].data = r.slot[j].data
  BY <1>1 DEF GrowsBy
<1>3. Position(r, j) \in 0 .. r.count /\ Position(r, j) + 1 \in 0 .. r.count
  BY RingPositions
<1> QED
  BY <1>1, <1>2, <1>3

(* The new instruction follows from the state behind the youngest. *)
LEMMA TraceGrown ==
    ASSUME NEW r, Ring(r), NEW s, NEW d, DataOK(d), GrowsBy(r, s, d), NEW x, Trace(x, r),
           NEW y, y = Grown(x, r.count, Does(d, x[r.count]))
    PROVE  Trace(y, s) /\ SameUpTo(y, x, r.count)
<1> USE DEF SameUpTo
<1>1. r.count \in Nat /\ s.count = r.count + 1
  BY RingPositions DEF GrowsBy
<1>2. (\A k \in 0 .. r.count : y[k] = x[k]) /\ y[r.count + 1] = Does(d, x[r.count])
  BY <1>1, GrownStates
<1>3. \A k \in 0 .. r.count : x[k] \in ArchState
  BY TraceStates
<1>4. Does(d, x[r.count]) \in ArchState
  <2>1. x[r.count] \in ArchState
    BY <1>1, <1>3
  <2> QED
    BY <2>1, DoesEffect
<1>5. y \in [0 .. s.count -> ArchState]
  BY <1>1, <1>3, <1>4 DEF Grown
<1>6. ASSUME NEW i \in Index, InWindow(s, i)
      PROVE  y[Position(s, i) + 1] = Does(s.slot[i].data, y[Position(s, i)])
  <2>1. CASE i = r.tail
    <3>1. Position(s, i) = r.count /\ s.slot[i].data = d
      BY <2>1 DEF GrowsBy
    <3>2. y[r.count] = x[r.count]
      BY <1>1, <1>2
    <3> QED
      BY <1>2, <3>1, <3>2
  <2>2. CASE i # r.tail
    <3>1. InWindow(r, i)
      BY <1>6, <2>2 DEF GrowsBy
    <3>2. /\ s.slot[i].data = r.slot[i].data /\ Position(s, i) = Position(r, i)
          /\ Position(r, i) \in 0 .. r.count /\ Position(r, i) + 1 \in 0 .. r.count
      BY <3>1, GrownPosition
    <3>3. x[Position(r, i) + 1] = Does(r.slot[i].data, x[Position(r, i)])
      BY <3>1 DEF Trace
    <3> QED
      BY <1>2, <3>2, <3>3
  <2> QED
    BY <2>1, <2>2
<1> QED
  BY <1>2, <1>5, <1>6 DEF Trace

(* The destination of the one that enters was free. *)
LEMMA ValuedGrown ==
    ASSUME NEW r, Ring(r), NEW s, NEW d, GrowsBy(r, s, d), NEW x, NEW m, NEW f,
           Partitioned(m[0], r, f), NEW file, Valued(m, x, r, file),
           NEW y, SameUpTo(y, x, r.count), NEW h, h[0] = m[0],
           NEW file1, HeadTaken(f, d, file1), OthersKept(file1, file, d)
    PROVE  Valued(h, y, s, file1)
<1> USE DEF SameUpTo, HeadTaken, OthersKept
<1>1. 0 \in 0 .. r.count
  BY RingPositions
<1>2. ASSUME NEW a \in Register
      PROVE  file1[h[0][a]].value = y[0].regs[a]
  <2>1. WritesRegister(d.ins) => d.prd # m[0][a]
    BY DEF Partitioned
  <2>2. file1[m[0][a]] = file[m[0][a]]
    BY <2>1
  <2> QED
    BY <1>1, <2>2 DEF Valued
<1>3. ASSUME NEW i \in Index, Writes(s, i), file1[Prd(s, i)].ready
      PROVE  file1[Prd(s, i)].value = y[Position(s, i) + 1].regs[Rd(s, i)]
  <2>1. i # r.tail
    <3>1. CASE i = r.tail
      <4>1. Prd(s, i) = d.prd /\ WritesRegister(d.ins)
        BY <1>3, <3>1 DEF Writes, Prd, GrowsBy
      <4> QED
        BY <1>3, <4>1
    <3> QED
      BY <3>1
  <2>2. InWindow(r, i)
    BY <1>3, <2>1 DEF Writes, GrowsBy
  <2>3. /\ s.slot[i].data = r.slot[i].data /\ Position(s, i) = Position(r, i)
        /\ Position(r, i) + 1 \in 0 .. r.count
    BY <2>2, GrownPosition
  <2>4. Writes(r, i) /\ Prd(s, i) = Prd(r, i) /\ Rd(s, i) = Rd(r, i)
    BY <1>3, <2>2, <2>3 DEF Writes, Prd, Rd
  <2>5. WritesRegister(d.ins) => d.prd # Prd(r, i)
    BY <2>4 DEF Partitioned
  <2>6. file1[Prd(r, i)] = file[Prd(r, i)]
    BY <2>5
  <2>7. file[Prd(r, i)].value = x[Position(r, i) + 1].regs[Rd(r, i)]
    BY <1>3, <2>4, <2>6 DEF Valued
  <2> QED
    BY <2>3, <2>4, <2>6, <2>7
<1> QED
  BY <1>2, <1>3 DEF Valued

(* E is empty, or the entry of the one that enters. *)
LEMMA OperandsGrown ==
    ASSUME NEW r, Ring(r), NEW s, NEW d, GrowsBy(r, s, d), NEW x, NEW m, NEW q, Linked(q, r),
           Operands(q, m, x, r),
           NEW y, SameUpTo(y, x, r.count), NEW h, SameUpTo(h, m, r.count),
           NEW E, EnteredWith(E, r.tail, m[r.count], x[r.count]), NEW t, Entered(t, q, E)
    PROVE  Operands(t, h, y, s)
<1> USE DEF SameUpTo, EnteredWith, Entered
<1> SUFFICES ASSUME NEW k \in IQSlot, t[k].valid
             PROVE  LET n == Position(s, t[k].rob) IN GetsOperands(t[k], h[n], y[n])
  BY DEF Operands
<1>1. CASE q[k].valid /\ t[k] = q[k]
  <2>1. q[k].rob \in Index /\ InWindow(r, q[k].rob)
    BY <1>1, SourcesTyped
  <2>2. Position(s, q[k].rob) = Position(r, q[k].rob) /\ Position(r, q[k].rob) \in 0 .. r.count
    BY <2>1, GrownPosition
  <2>3. GetsOperands(q[k], m[Position(r, q[k].rob)], x[Position(r, q[k].rob)])
    BY <1>1 DEF Operands
  <2> QED
    BY <1>1, <2>2, <2>3
<1>2. CASE t[k] \in E
  <2>1. t[k].rob = r.tail /\ GetsOperands(t[k], m[r.count], x[r.count])
    BY <1>2
  <2>2. Position(s, r.tail) = r.count
    BY DEF GrowsBy
  <2>3. h[r.count] = m[r.count] /\ y[r.count] = x[r.count]
    <3>1. r.count \in 0 .. r.count
      BY RingPositions
    <3> QED
      BY <3>1
  <2> QED
    BY <2>1, <2>2, <2>3
<1> QED
  BY <1>1, <1>2

(* A new entry of the load/store queue knows nothing yet, *)
LEMMA AccessesGrown ==
    ASSUME NEW r, Ring(r), NEW s, NEW d, GrowsBy(r, s, d), NEW x, NEW l, LsqOK(l, r), Accesses(l, x, r),
           NEW y, SameUpTo(y, x, r.count), NEW t, EnteredLsq(t, l)
    PROVE  Accesses(t, y, s)
<1> USE DEF SameUpTo, EnteredLsq, BlankAt
<1> SUFFICES ASSUME NEW k \in 1 .. Len(t)
             PROVE  LET f == FoundBy(t[k].rob, y, s)
                        ins == InsAt(s, t[k].rob)
                    IN  /\ t[k].addr # Unknown => t[k].addr = AddressIn(ins, f)
                        /\ t[k].type = "STORE" /\ t[k].data # Unknown => t[k].data = f.regs[ins.rs2]
  BY DEF Accesses
<1>1. CASE k \in 1 .. Len(l) /\ t[k] = l[k]
  <2>1. l[k].rob \in Index /\ InWindow(r, l[k].rob)
    BY <1>1 DEF LsqOK, Tracks
  <2>2. FoundBy(l[k].rob, y, s) = FoundBy(l[k].rob, x, r) /\ InsAt(s, l[k].rob) = InsAt(r, l[k].rob)
    BY <2>1, GrownPosition DEF FoundBy, InsAt
  <2> QED
    BY <1>1, <2>2 DEF Accesses
<1>2. CASE t[k].addr = Unknown /\ t[k].data = Unknown
  BY <1>2
<1> QED
  BY <1>1, <1>2

(* and neither does a new entry of the store buffer. *)
LEMMA StoredGrown ==
    ASSUME NEW r, Ring(r), NEW s, NEW d, GrowsBy(r, s, d), NEW x, NEW b, BufferOK(b, 0, r),
           Stored(b, 0, x, r), NEW y, SameUpTo(y, x, r.count), NEW t, EnteredStores(t, b, s)
    PROVE  Stored(t, 0, y, s)
<1> USE DEF SameUpTo, EnteredStores
<1> SUFFICES ASSUME NEW k \in 1 .. Len(t), k > 0, ~Pending(s, t[k].rob)
             PROVE  LET f == FoundBy(t[k].rob, y, s)
                        ins == InsAt(s, t[k].rob)
                    IN  t[k].addr = AddressIn(ins, f) /\ t[k].data = f.regs[ins.rs2]
  BY DEF Stored
<1>1. k \in 1 .. Len(b) /\ t[k] = b[k]
  OBVIOUS
<1>2. b[k].rob \in Index /\ (InWindow(r, b[k].rob) <=> k > 0)
  BY <1>1 DEF BufferOK, Tracks
<1>3. /\ FoundBy(b[k].rob, y, s) = FoundBy(b[k].rob, x, r) /\ InsAt(s, b[k].rob) = InsAt(r, b[k].rob)
      /\ b[k].rob # r.tail
  BY <1>2, GrownPosition DEF FoundBy, InsAt
<1>4. ~Pending(r, b[k].rob)
  BY <1>1, <1>2, <1>3 DEF GrowsBy
<1> QED
  BY <1>1, <1>3, <1>4 DEF Stored

(* The new instruction is what had to come, *)
LEMMA NextGrown ==
    ASSUME NEW r, Ring(r), NEW s, NEW d, GrowsBy(r, s, d), NEW i \in Index, InWindow(r, i),
           NEW v, NextIs(r, {d.pc}, i, v), NEW H
    PROVE  NextIs(s, H, i, v)
<1>1. Position(s, i) = Position(r, i) /\ s.count = r.count + 1 /\ Position(r, i) < r.count
  BY RingPositions DEF GrowsBy
<1>2. Position(s, i) + 1 # s.count
  BY <1>1, RingPositions
<1>3. ASSUME NEW j \in Index, InWindow(s, j), Position(s, j) = Position(s, i) + 1
      PROVE  s.slot[j].data.pc = v
  <2>1. CASE j = r.tail
    <3>1. Position(s, j) = r.count /\ s.slot[j].data = d
      BY <2>1 DEF GrowsBy
    <3>2. Position(r, i) + 1 = r.count
      BY <1>1, <1>3, <3>1
    <3>3. d.pc = v
      BY <3>2 DEF NextIs
    <3> QED
      BY <3>1, <3>3
  <2>2. CASE j # r.tail
    <3>1. InWindow(r, j)
      BY <1>3, <2>2 DEF GrowsBy
    <3>2. s.slot[j].data = r.slot[j].data /\ Position(r, j) = Position(r, i) + 1
      BY <1>1, <1>3, <3>1, GrownPosition
    <3> QED
      BY <3>1, <3>2 DEF NextIs
  <2> QED
    BY <2>1, <2>2
<1> QED
  BY <1>2, <1>3 DEF NextIs

(* and behind it comes whatever the front end brings, *)
LEMMA NextOfLast ==
    ASSUME NEW r, Ring(r), NEW s, Ring(s), NEW d, GrowsBy(r, s, d), NEW n
    PROVE  NextIs(s, {n}, r.tail, n)
<1>1. r.tail \in Index /\ Position(s, r.tail) = r.count /\ s.count = r.count + 1
  BY DEF GrowsBy
<1>2. \A j \in Index : InWindow(s, j) => Position(s, j) < s.count /\ Position(s, j) \in Nat
  BY RingPositions
<1>3. \A j \in Index : InWindow(s, j) => Position(s, j) # Position(s, r.tail) + 1
  BY <1>1, <1>2
<1> QED
  BY <1>3 DEF NextIs

(* so that branches go where they went, and the new one where it is predicted to. *)
LEMMA GoesGrown ==
    ASSUME NEW r, Ring(r), NEW s, Ring(s), NEW d, GrowsBy(r, s, d), NEW x, NEW q, Linked(q, r),
           Goes(x, r, q, {d.pc}), NEW n,
           NEW y, SameUpTo(y, x, r.count), NoneDecided(s, r.tail, d),
           NEW E, EnteredGuess(E, r.tail, n), NEW t, Entered(t, q, E)
    PROVE  Goes(y, s, t, {n})
<1> USE DEF SameUpTo, NoneDecided, EnteredGuess, Entered
<1>1. InsAt(s, r.tail) = d.ins
  BY DEF GrowsBy, InsAt
<1>2. \A j \in Index : InWindow(s, j) /\ j # r.tail =>
         /\ InWindow(r, j) /\ InsAt(s, j) = InsAt(r, j) /\ y[Position(s, j) + 1] = x[Position(r, j) + 1]
         /\ Pending(s, j) <=> Pending(r, j)
  <2> SUFFICES ASSUME NEW j \in Index, InWindow(s, j), j # r.tail
               PROVE  /\ InWindow(r, j) /\ InsAt(s, j) = InsAt(r, j)
                      /\ y[Position(s, j) + 1] = x[Position(r, j) + 1]
                      /\ Pending(s, j) <=> Pending(r, j)
    OBVIOUS
  <2>1. InWindow(r, j) /\ (Pending(s, j) <=> Pending(r, j))
    BY DEF GrowsBy
  <2>2. /\ Position(s, j) = Position(r, j) /\ Position(r, j) + 1 \in 0 .. r.count
        /\ s.slot[j].data = r.slot[j].data
    BY <2>1, GrownPosition
  <2> QED
    BY <2>1, <2>2 DEF InsAt
<1>3. Decided(y, s, {n})
  <2> SUFFICES ASSUME NEW i \in Index, InWindow(s, i), ~Pending(s, i), InsAt(s, i).op \in BranchOps
               PROVE  NextIs(s, {n}, i, y[Position(s, i) + 1].pc)
    BY DEF Decided
  <2>1. i # r.tail
    BY <1>1
  <2>2. NextIs(r, {d.pc}, i, x[Position(r, i) + 1].pc) /\ InWindow(r, i)
    BY <1>2, <2>1 DEF Goes, Decided
  <2>3. NextIs(s, {n}, i, x[Position(r, i) + 1].pc)
    BY <2>2, NextGrown
  <2> QED
    BY <1>2, <2>1, <2>3
<1>4. Guessed(t, s, {n})
  <2> SUFFICES ASSUME NEW k \in IQSlot, t[k].valid, t[k].ins.op \in BranchOps
               PROVE  NextIs(s, {n}, t[k].rob, Guess(t[k]))
    BY DEF Guessed
  <2>1. CASE q[k].valid /\ t[k] = q[k]
    <3>1. q[k].rob \in Index /\ InWindow(r, q[k].rob)
      BY <2>1, SourcesTyped
    <3>2. NextIs(r, {d.pc}, q[k].rob, Guess(q[k]))
      BY <2>1 DEF Goes, Guessed
    <3>3. NextIs(s, {n}, q[k].rob, Guess(q[k]))
      BY <3>1, <3>2, NextGrown
    <3> QED
      BY <2>1, <3>3
  <2>2. CASE t[k] \in E
    <3>1. t[k].rob = r.tail /\ Guess(t[k]) = n
      BY <2>2
    <3> QED
      BY <3>1, NextOfLast
  <2> QED
    BY <2>1, <2>2
<1>5. JumpsWait(s)
  <2> SUFFICES ASSUME NEW i \in Index, InWindow(s, i), InsAt(s, i).op = "J"
               PROVE  Pending(s, i)
    BY DEF JumpsWait
  <2>1. CASE i = r.tail
    BY <1>1, <2>1
  <2>2. CASE i # r.tail
    BY <1>2, <2>2 DEF Goes, JumpsWait
  <2> QED
    BY <2>1, <2>2
<1> QED
  BY <1>3, <1>4, <1>5 DEF Goes

(* With fewer places to go on at less is said. *)
LEMMA GoesLess ==
    ASSUME NEW x, NEW r, NEW q, NEW G, Goes(x, r, q, G), NEW H \in SUBSET G
    PROVE  Goes(x, r, q, H)
<1>1. \A i, n : NextIs(r, G, i, n) => NextIs(r, H, i, n)
  BY DEF NextIs
<1> QED
  BY <1>1 DEF Goes, Decided, Guessed

(* What allocation adds to the memory queues. *)
LEMMA AppendedQueues ==
    ASSUME NEW c \in Index, NEW l \in Seq(LoadStoreSet), NEW b \in Seq(StoreSet)
    PROVE  /\ \A type \in {"LOAD", "STORE"} : LET t == LsqAllocate(l, type, c)
                 IN  \A k \in 1 .. Len(t) : (k \in 1 .. Len(l) /\ t[k] = l[k])
                                               \/ (t[k].addr = Unknown /\ t[k].data = Unknown)
           /\ LET t == SBAllocate(b, c)
              IN  \A k \in 1 .. Len(t) : (k \in 1 .. Len(b) /\ t[k] = b[k]) \/ t[k].rob = c
<1>1. ASSUME NEW type \in {"LOAD", "STORE"}
      PROVE  LET t == LsqAllocate(l, type, c)
             IN  \A k \in 1 .. Len(t) : (k \in 1 .. Len(l) /\ t[k] = l[k])
                                           \/ (t[k].addr = Unknown /\ t[k].data = Unknown)
  <2> DEFINE e == LsqEntry(type, c)
  <2>1. e \in LoadStoreSet /\ e.addr = Unknown /\ e.data = Unknown
    BY DEF LsqEntry, LoadStoreSet
  <2>2. LsqAllocate(l, type, c) = IF Len(l) < LSQCapacity THEN Append(l, e) ELSE l
    BY DEF LsqAllocate
  <2> HIDE DEF e
  <2> QED
    BY <2>1, <2>2
<1>2. LET t == SBAllocate(b, c)
      IN  \A k \in 1 .. Len(t) : (k \in 1 .. Len(b) /\ t[k] = b[k]) \/ t[k].rob = c
  <2> DEFINE e == StoreEntry(c)
  <2>1. e \in StoreSet /\ e.rob = c
    BY WordIsInt DEF StoreEntry, StoreSet
  <2>2. SBAllocate(b, c) = IF Len(b) < SBCapacity THEN Append(b, e) ELSE b
    BY DEF SBAllocate
  <2> HIDE DEF e
  <2> QED
    BY <2>1, <2>2
<1> QED
  BY <1>1, <1>2

(* An operand that is taken from file is what the program gives, or waits   *)
(* for the register it is mapped to.                                        *)
LEMMA GetsDispatched ==
    ASSUME NEW r, Ring(r), NEW m, History(m, r), NEW x, Trace(x, r), NEW file, Valued(m, x, r, file),
           NEW a \in Register, NEW p, p = m[r.count][a], NEW regs, regs[p] = file[p]
    PROVE  Gets(Operand(TRUE, p, regs), m[r.count], x[r.count], a)
<1> DEFINE o == Operand(TRUE, p, regs)
<1>1. o.reg = p /\ o.ready = regs[p].ready /\ o.value = regs[p].value
  BY DEF Operand
<1> HIDE DEF o
<1>2. r.count \in 0 .. r.count
  BY RingPositions
<1>3. file[p].ready => file[p].value = x[r.count].regs[a]
  BY <1>2, ReadValue
<1>4. Gets(o, m[r.count], x[r.count], a)
  BY <1>1, <1>3 DEF Gets
<1> QED
  BY <1>4 DEF o

-----------------------------------------------------------------------------
(* x is the rename state and s what has been dispatched; the trace starts   *)
(* from the architectural state v.                                          *)
Understood(x, s, v, G) ==
    \E h, z : /\ z[0] = v
              /\ Mapped(h, s.rob, x.rat, x.freeList, x.prf)
              /\ Meant(h, z, s.rob, x.prf, s.iq, s.lsq, s.buffer, 0, G)

(* What the rename unit makes of lane l. *)
Through(x, l, b) ==
    /\ b.lane = l /\ b.rs1 = x.rat[l.ins.rs1] /\ b.rs2 = x.rat[l.ins.rs2]
    /\ WritesRegister(l.ins) => b.prd = Head(x.freeList) /\ b.old = x.rat[l.ins.rd]

(* R has the cells of x, but for registers that are free in x. *)
CellsKept(R, x) ==
    \A p \in Physical : (\A k \in 1 .. Len(x.freeList) : x.freeList[k] # p) => R.prf[p] = x.prf[p]

(* Where the front end goes on behind lane l. *)
GoesOn(l, next) == l.ins.op \in BranchOps => next = IF l.pred.taken THEN Target(l.ins, l.pc) ELSE Behind(l)

(* One lane is dispatched: m is the history and w the trace before it.      *)
LEMMA LaneValues ==
    ASSUME NEW x, RenameOK(x), NEW l \in LaneSet,
           WritesRegister(l.ins) => Len(x.freeList) >= 1,
           NEW n \in Nat, NEW s, DispatchOK(s, n), Accepts(s), MemQueues(s),
           NEW m, NEW w, Mapped(m, s.rob, x.rat, x.freeList, x.prf),
           Meant(m, w, s.rob, x.prf, s.iq, s.lsq, s.buffer, 0, {l.pc}),
           NEW R, RenameOK(R), l.ins.op \in BranchOps => R.rat = Rename(x, l).rat, CellsKept(R, x),
           NEW b \in BundleSet, Through(x, l, b), NEW next, GoesOn(l, next),
           NEW y, y = Rename(x, l), NEW t, t = Dispatch(R, s, b)
    PROVE  Understood(y, t, w[0], {next})
<1> USE DEF CellsKept, Through, GoesOn
<1> DEFINE r == s.rob
           q == s.iq
           c == r.tail
           d == RobData(R, b)
           e == IssueEntry(R, b, c)
           a == Allocate(r, d)
           ins == l.ins
           writes == WritesRegister(ins)
           p0 == Head(x.freeList)
           E == IF CompletesAtDispatch(ins) THEN {} ELSE {e}
           u == t.rob
<1>1. /\ y.rat = IF writes THEN [x.rat EXCEPT ![ins.rd] = p0] ELSE x.rat
      /\ y.freeList = IF writes THEN Tail(x.freeList) ELSE x.freeList
      /\ y.prf = IF writes THEN [x.prf EXCEPT ![p0] = [ready |-> FALSE, value |-> 0]] ELSE x.prf
  BY DEF Rename
<1>2. RenameOK(y)
  BY RenameTyped
<1>3. ins.rs1 \in Register /\ ins.rs2 \in Register /\ ins.rd \in Register /\ ins \in Instruction
  BY DEF LaneSet, Instruction
<1>4. /\ u = IF CompletesAtDispatch(ins) THEN Complete(a, c) ELSE a
      /\ t.iq = IF CompletesAtDispatch(ins) THEN q ELSE Insert(q, e)
      /\ t.lsq = CASE ins.op = "LW" -> LsqAllocate(s.lsq, "LOAD", c)
                   [] ins.op = "SW" -> LsqAllocate(s.lsq, "STORE", c)
                   [] OTHER -> s.lsq
      /\ t.buffer = IF ins.op = "SW" THEN SBAllocate(s.buffer, c) ELSE s.buffer
  BY DEF Dispatch, Accepts
<1>5. /\ Ring(r) /\ ~Full(r) /\ Linked(q, r) /\ ~IQFull(q)
      /\ s.lsq \in Seq(LoadStoreSet) /\ s.buffer \in Seq(StoreSet)
      /\ LsqOK(s.lsq, r) /\ BufferOK(s.buffer, 0, r)
  BY DEF DispatchOK, Accepts, MemQueues
<1>6. c \in Index
  BY <1>5 DEF Ring, InOrder
<1>7. DataOK(d) /\ e \in EntrySet /\ e.rob = c
  BY <1>6, DispatchedData
<1>8. /\ d.ins = ins /\ d.pc = l.pc
      /\ writes => d.prd = p0 /\ d.old = x.rat[ins.rd]
      /\ ins.op \in BranchOps => d.cp = y.rat
  BY DEF RobData
<1>9. /\ e.op1 = Operand(ReadsRs1(ins), x.rat[ins.rs1], R.prf)
      /\ e.op2 = Operand(ReadsRs2(ins), x.rat[ins.rs2], R.prf)
      /\ e.ins = ins /\ e.pc = l.pc /\ e.predTaken = l.pred.taken
  BY DEF IssueEntry
<1>10. /\ Trace(w, r) /\ Valued(m, w, r, x.prf) /\ Operands(q, m, w, r) /\ Accesses(s.lsq, w, r)
       /\ Stored(s.buffer, 0, w, r) /\ Goes(w, r, q, {l.pc})
  BY DEF Meant
<1> HIDE DEF a
<1>11. /\ Ring(u) /\ GrowsBy(r, u, d)
       /\ ~CompletesAtDispatch(ins) => Pending(u, c)
  <2> HIDE DEF u, d, r
  <2>1. /\ Ring(a) /\ GrowsBy(r, a, d) /\ Pending(a, r.tail)
        /\ Ring(Complete(a, r.tail)) /\ GrowsBy(r, Complete(a, r.tail), d)
    BY <1>5, <1>7, AllocateGrows DEF a
  <2> QED
    BY <1>4, <2>1
<1> HIDE DEF d, e, u, writes, p0
<1>12. /\ writes => Len(x.freeList) >= 1 /\ p0 = x.freeList[1] /\ p0 \in Physical
       /\ x.freeList \in Seq(Physical) /\ x.prf \in [Physical -> Cell] /\ x.rat \in [Register -> Physical]
  BY DEF RenameOK, p0, writes
<1>13. \A p : ~(writes /\ p = p0) => y.prf[p] = x.prf[p]
  BY <1>1
<1>14. writes => y.prf[p0] = [ready |-> FALSE, value |-> 0]
  BY <1>1, <1>12
<1>15. /\ History(m, r) /\ x.rat = m[r.count] /\ Partitioned(m[0], r, x.freeList)
  BY DEF Mapped
<1> DEFINE h == Grown(m, r.count, y.rat)
           z == Grown(w, r.count, Does(d, w[r.count]))
<1>16. r.count \in Nat
  BY <1>5, RingPositions
<1>17. Mapped(h, u, y.rat, y.freeList, y.prf)
  <2>1. Renames(x.rat, y.rat, d) /\ y.rat \in [Register -> Physical]
    <3>1. y.rat = IF WritesRegister(d.ins) THEN [x.rat EXCEPT ![d.ins.rd] = d.prd] ELSE x.rat
      BY <1>1, <1>8 DEF writes
    <3> QED
      BY <1>2, <1>8, <3>1 DEF Renames, RenameOK, writes
  <2>2. /\ WritesRegister(d.ins) => Len(x.freeList) >= 1 /\ d.prd = x.freeList[1] /\ y.freeList = Tail(x.freeList)
        /\ ~WritesRegister(d.ins) => y.freeList = x.freeList
    BY <1>1, <1>8, <1>12 DEF writes
  <2>3. \A p \in Physical : y.prf[p].ready <=> /\ x.prf[p].ready
                                                /\ ~(WritesRegister(d.ins) /\ p = d.prd)
    BY <1>8, <1>13, <1>14 DEF writes
  <2> DEFINE map == x.rat
             map1 == y.rat
             f == x.freeList
             f1 == y.freeList
             file == x.prf
             file1 == y.prf
             m1 == [k \in 0 .. r.count + 1 |-> IF k <= r.count THEN m[k] ELSE map1]
  <2>4. /\ Mapped(m, r, map, f, file) /\ Renames(map, map1, d)
        /\ map1 \in [Register -> Physical] /\ f \in Seq(Physical)
        /\ WritesRegister(d.ins) => Len(f) >= 1 /\ d.prd = f[1] /\ f1 = Tail(f)
        /\ ~WritesRegister(d.ins) => f1 = f
        /\ \A p \in Physical : file1[p].ready <=> /\ file[p].ready
                                                  /\ ~(WritesRegister(d.ins) /\ p = d.prd)
    BY <1>12, <2>1, <2>2, <2>3
  <2> HIDE DEF map, map1, f, f1, file, file1, r
  <2>5. Mapped(m1, a, map1, f1, file1)
    BY <1>5, <1>7, <2>4, MappedAllocated DEF a
  <2>6. h = m1
    BY DEF Grown, map1
  <2> HIDE DEF m1, h
  <2>7. Mapped(h, a, map1, f1, file1)
    BY <2>5, <2>6, Zenon
  <2>8. CASE CompletesAtDispatch(ins)
    <3>1. Ring(a) /\ GrowsBy(r, a, d)
      BY <1>5, <1>7, AllocateGrows DEF a
    <3>2. InWindow(a, c) /\ a.slot[c].data = d
      BY <1>6, <3>1 DEF GrowsBy, c
    <3>3. ~WritesRegister(d.ins)
      BY <1>8, <2>8 DEF CompletesAtDispatch, WritesRegister, AluOps, TwoSourceAlu
    <3>4. ~Writes(a, c)
      BY <3>2, <3>3 DEF Writes
    <3>5. Mapped(h, Complete(a, c), map1, f1, file1)
      BY <1>6, <2>7, <3>1, <3>2, <3>4, MappedCompletes
    <3> QED
      BY <1>4, <2>8, <3>5 DEF map1, f1, file1
  <2>9. CASE ~CompletesAtDispatch(ins)
    BY <1>4, <2>7, <2>9 DEF map1, f1, file1
  <2> QED
    BY <2>8, <2>9
<1>18. Trace(z, u) /\ SameUpTo(z, w, r.count)
  BY <1>5, <1>7, <1>10, <1>11, TraceGrown
<1>19. SameUpTo(h, m, r.count)
  BY <1>16, GrownStates DEF SameUpTo
<1> HIDE DEF h, z
<1>20. h[0] = m[0] /\ z[0] = w[0]
  <2>1. 0 \in 0 .. r.count
    BY <1>16
  <2> QED
    BY <1>18, <1>19, <2>1 DEF SameUpTo
<1>21. Valued(h, z, u, y.prf)
  <2>1. HeadTaken(x.freeList, d, y.prf)
    BY <1>8, <1>12, <1>14 DEF writes, HeadTaken
  <2>2. OthersKept(y.prf, x.prf, d)
    BY <1>8, <1>13 DEF writes, OthersKept
  <2> DEFINE f == x.freeList
             file == x.prf
             file1 == y.prf
  <2>3. /\ HeadTaken(f, d, file1) /\ OthersKept(file1, file, d)
        /\ Partitioned(m[0], r, f) /\ Valued(m, w, r, file)
        /\ Ring(r) /\ GrowsBy(r, u, d)
        /\ SameUpTo(z, w, r.count) /\ h[0] = m[0]
    BY <1>5, <1>10, <1>11, <1>15, <1>18, <1>20, <2>1, <2>2
  <2> HIDE DEF f, file, file1, r
  <2>4. Valued(h, z, u, file1)
    BY <2>3, ValuedGrown
  <2> QED
    BY <2>4 DEF file1
<1>22. \A k \in IQSlot : t.iq[k].valid => (q[k].valid /\ t.iq[k] = q[k]) \/ t.iq[k] \in E
  <2>1. CASE CompletesAtDispatch(ins)
    BY <1>4, <2>1
  <2>2. CASE ~CompletesAtDispatch(ins)
    <3> DEFINE g == Min({j \in IQSlot : ~q[j].valid})
    <3>1. t.iq = [q EXCEPT ![g] = e] /\ E = {e}
      BY <1>4, <2>2 DEF Insert
    <3>2. q \in [IQSlot -> EntrySet \cup {FreeSlot}]
      BY <1>5 DEF Linked
    <3> HIDE DEF g, E, q
    <3>3. \A k \in IQSlot : t.iq[k] = IF k = g THEN e ELSE q[k]
      BY <3>1, <3>2
    <3> QED
      BY <3>1, <3>3
  <2> QED
    BY <2>1, <2>2
<1>23. GetsOperands(e, m[r.count], w[r.count])
  <2>1. ASSUME NEW rs \in Register
        PROVE  Gets(Operand(TRUE, x.rat[rs], R.prf), m[r.count], w[r.count], rs)
    <3> DEFINE p == x.rat[rs]
               file == x.prf
               regs == R.prf
    <3>1. r.count \in 0 .. r.count
      BY <1>16
    <3>2. \A k \in 1 .. Len(x.freeList) : x.freeList[k] # p
      BY <1>5, <1>12, <1>15, <3>1, MappedRegister
    <3>3. p \in Physical
      BY <1>12
    <3>4. regs[p] = file[p] /\ p = m[r.count][rs] /\ Valued(m, w, r, file)
      BY <1>10, <1>15, <3>2, <3>3
    <3> HIDE DEF p, file, regs, r
    <3>5. Gets(Operand(TRUE, p, regs), m[r.count], w[r.count], rs)
      BY <1>5, <1>10, <1>15, <3>4, GetsDispatched
    <3> QED
      BY <3>5 DEF p, regs
  <2>2. ReadsRs1(e.ins) => e.op1 = Operand(TRUE, x.rat[e.ins.rs1], R.prf)
    BY <1>9
  <2>3. ReadsRs2(e.ins) => e.op2 = Operand(TRUE, x.rat[e.ins.rs2], R.prf)
    BY <1>9
  <2> QED
    BY <1>3, <1>9, <2>1, <2>2, <2>3 DEF GetsOperands
<1>24. \A g \in E : g = e
  OBVIOUS
<1> HIDE DEF E
<1>25. Operands(t.iq, h, z, u)
  <2> DEFINE iq1 == t.iq
  <2>1. Entered(iq1, q, E)
    BY <1>22 DEF Entered
  <2>2. EnteredWith(E, r.tail, m[r.count], w[r.count])
    BY <1>7, <1>23, <1>24 DEF EnteredWith
  <2>3. Ring(r) /\ GrowsBy(r, u, d) /\ Linked(q, r) /\ Operands(q, m, w, r)
    BY <1>5, <1>10, <1>11
  <2>4. SameUpTo(z, w, r.count) /\ SameUpTo(h, m, r.count)
    BY <1>18, <1>19
  <2> HIDE DEF iq1, q, r
  <2>5. Operands(iq1, h, z, u)
    BY <2>1, <2>2, <2>3, <2>4, OperandsGrown
  <2> QED
    BY <2>5 DEF iq1
<1>26. Accesses(t.lsq, z, u)
  <2> DEFINE l0 == s.lsq
             l1 == t.lsq
  <2>1. \A k \in 1 .. Len(l1) : (k \in 1 .. Len(l0) /\ l1[k] = l0[k])
                                   \/ (l1[k].addr = Unknown /\ l1[k].data = Unknown)
    <3>1. l1 \in {LsqAllocate(l0, "LOAD", c), LsqAllocate(l0, "STORE", c), l0}
      BY <1>4
    <3> HIDE DEF l0, l1
    <3>2. /\ l0 \in Seq(LoadStoreSet)
          /\ \A type \in {"LOAD", "STORE"} : \A k \in 1 .. Len(LsqAllocate(l0, type, c)) :
                (k \in 1 .. Len(l0) /\ LsqAllocate(l0, type, c)[k] = l0[k])
                   \/ (LsqAllocate(l0, type, c)[k].addr = Unknown /\ LsqAllocate(l0, type, c)[k].data = Unknown)
      <4>1. l0 \in Seq(LoadStoreSet) /\ s.buffer \in Seq(StoreSet)
        BY <1>5 DEF l0
      <4> HIDE DEF c
      <4> QED
        BY <1>6, <4>1, AppendedQueues
    <3> QED
      BY <3>1, <3>2
  <2>2. LsqOK(l0, r) /\ Accesses(l0, w, r) /\ Ring(r) /\ GrowsBy(r, u, d) /\ SameUpTo(z, w, r.count)
    BY <1>5, <1>10, <1>11, <1>18
  <2>3. EnteredLsq(l1, l0)
    BY <2>1 DEF EnteredLsq, BlankAt
  <2> HIDE DEF l0, l1, r
  <2>4. Accesses(l1, z, u)
    BY <2>2, <2>3, AccessesGrown
  <2> QED
    BY <2>4 DEF l1
<1>27. Stored(t.buffer, 0, z, u)
  <2> DEFINE b0 == s.buffer
             b1 == t.buffer
  <2>1. EnteredStores(b1, b0, u)
    <3>1. CASE ins.op = "SW"
      <4>1. b1 = SBAllocate(b0, c)
        BY <1>4, <3>1
      <4>2. Pending(u, c)
        BY <1>11, <3>1 DEF CompletesAtDispatch
      <4>3. b0 \in Seq(StoreSet) /\ s.lsq \in Seq(LoadStoreSet)
        BY <1>5
      <4> HIDE DEF b0, b1, c
      <4>4. \A k \in 1 .. Len(b1) : (k \in 1 .. Len(b0) /\ b1[k] = b0[k]) \/ b1[k].rob = c
        BY <1>6, <4>1, <4>3, AppendedQueues
      <4> QED
        BY <4>2, <4>4 DEF EnteredStores
    <3>2. CASE ins.op # "SW"
      BY <1>4, <3>2 DEF EnteredStores
    <3> QED
      BY <3>1, <3>2
  <2>2. BufferOK(b0, 0, r) /\ Stored(b0, 0, w, r)
    BY <1>5, <1>10
  <2>3. Ring(r) /\ GrowsBy(r, u, d) /\ SameUpTo(z, w, r.count)
    BY <1>5, <1>11, <1>18
  <2> HIDE DEF b0, b1, r
  <2>4. Stored(b1, 0, z, u)
    BY <2>1, <2>2, <2>3, StoredGrown
  <2> QED
    BY <2>4 DEF b1
<1>28. Goes(z, u, t.iq, {next})
  <2> DEFINE iq1 == t.iq
  <2>1. Entered(iq1, q, E)
    BY <1>22 DEF Entered
  <2>2. e.ins.op \in BranchOps => Guess(e) = next
    BY <1>9 DEF Guess, Behind
  <2>3. EnteredGuess(E, r.tail, next)
    BY <1>7, <1>24, <2>2 DEF EnteredGuess
  <2>4. NoneDecided(u, r.tail, d)
    BY <1>8, <1>11 DEF CompletesAtDispatch, BranchOps, NoneDecided
  <2>5. Goes(w, r, q, {d.pc})
    BY <1>8, <1>10
  <2>6. Ring(r) /\ Ring(u) /\ GrowsBy(r, u, d) /\ SameUpTo(z, w, r.count) /\ Linked(q, r)
    BY <1>5, <1>11, <1>18
  <2> HIDE DEF iq1, q, r
  <2>7. Goes(z, u, iq1, {next})
    BY <2>1, <2>3, <2>4, <2>5, <2>6, GoesGrown
  <2> QED
    BY <2>7 DEF iq1
<1>29. Meant(h, z, u, y.prf, t.iq, t.lsq, t.buffer, 0, {next})
  BY <1>18, <1>21, <1>25, <1>26, <1>27, <1>28 DEF Meant
<1> QED
  BY <1>17, <1>20, <1>29 DEF u, Understood

-----------------------------------------------------------------------------
(* The front end follows its predictions: a lane that is taken for taken has *)
(* a target.  (Two branches that share an entry of the predictor share its   *)
(* counter, and the second one then has the counter but not the target.)     *)
OwnCounters ==
    BundleArrives => \A k \in DOMAIN Lanes : Lanes[k].pred.taken => Lanes[k].pred.hit

(* The front end has gone on behind the bundle that it brings. *)
LEMMA BehindBundle ==
    ASSUME MachineOK, OrderOK, BundleArrives
    PROVE  (((fd.pc + InsnBytes) % PcMod) + InsnBytes) % PcMod = fetchPc
<1>1. fetchPc = (fd.pc + FetchWidth * InsnBytes) % PcMod
  BY DEF OrderOK, BundleArrives
<1>2. fd.pc \in Int /\ PcMod \in Nat \ {0}
  BY SizeAssumption DEF MachineOK, PcValue
<1> DEFINE x == fd.pc + 4
<1>3. x \in Int /\ 4 \in Int /\ 4 + x = fd.pc + 2 * 4
  BY <1>2
<1> HIDE DEF x
<1>4. (4 + (x % PcMod)) % PcMod = (4 + x) % PcMod
  BY <1>2, <1>3, RemainderOfSum, Zenon
<1>5. x % PcMod \in Int
  BY <1>2, <1>3
<1>6. 4 + (x % PcMod) = (x % PcMod) + 4
  BY <1>5
<1>7. ((x % PcMod) + 4) % PcMod = fetchPc
  BY <1>1, <1>3, <1>4, <1>6 DEF InsnBytes, FetchWidth
<1> QED
  BY <1>7 DEF x, InsnBytes

(* The second lane and the fetch after the bundle follow the predictions. *)
LEMMA LanesGuessed ==
    ASSUME MachineOK, OrderOK, BundleArrives, OwnCounters
    PROVE  LET after == PredictedRedirect(Lanes)
               next == IF after.on THEN after.pc ELSE fetchPc
           IN  /\ Len(Lanes) = 2 => GoesOn(Lanes[1], Lanes[2].pc)
               /\ GoesOn(Lanes[Len(Lanes)], next)
<1> DEFINE a == Lane(fd.pc)
           pc2 == (fd.pc + InsnBytes) % PcMod
           b == Lane(pc2)
           after == PredictedRedirect(Lanes)
           next == IF after.on THEN after.pc ELSE fetchPc
<1>1. fd.pc \in PcValue /\ pc2 \in PcValue
  <2>1. fd.pc \in PcValue
    BY DEF MachineOK
  <2>2. fd.pc + InsnBytes \in Int
    BY <2>1 DEF PcValue, InsnBytes
  <2> QED
    BY <2>1, <2>2, PcOf
<1>2. Lanes = IF Redirects(a) THEN <<a>> ELSE <<a, b>>
  BY DEF Lanes, Bundle
<1>3. ASSUME NEW pc \in PcValue
      PROVE  Lane(pc).pc = pc /\ (Redirects(Lane(pc)) => GoesOn(Lane(pc), Lane(pc).pred.target))
  <2> DEFINE l == Lane(pc)
  <2>1. l.pc = pc /\ l.ins = Meaning!InstructionAt(rom, pc)
    BY DEF Lane
  <2>2. l.pred = IF IsControlFlow(l.ins) THEN Predict(predictor, pc) ELSE NotPredicted
    BY DEF Lane
  <2> HIDE DEF l
  <2>3. CASE Redirects(l)
    <3>1. l.pred = Predict(predictor, pc) /\ l.pred.hit /\ l.pred.taken
      BY <2>2, <2>3 DEF Redirects, NotPredicted
    <3>2. PredictsBranches(rom, predictor)
      BY DEF OrderOK
    <3>3. l.pred.target = Target(l.ins, pc)
      BY <2>1, <3>1, <3>2, PredictedTarget
    <3> QED
      BY <2>1, <3>1, <3>3 DEF GoesOn, l
  <2> QED
    BY <2>1, <2>3 DEF l
<1>4. a.pc = fd.pc /\ b.pc = pc2
  BY <1>1, <1>3
<1>5. /\ Redirects(a) => GoesOn(a, a.pred.target)
      /\ Redirects(b) => GoesOn(b, b.pred.target)
  BY <1>1, <1>3
<1>6. ~redirect.on /\ (pc2 + InsnBytes) % PcMod = fetchPc
  BY BehindBundle DEF BundleArrives
<1>7. \A k \in DOMAIN Lanes : ~Redirects(Lanes[k]) => ~Lanes[k].pred.taken
  BY DEF OwnCounters, Redirects
<1> HIDE DEF a, b, pc2
<1>8. CASE Redirects(a)
  <2>1. Lanes = <<a>> /\ Len(Lanes) = 1 /\ Lanes[1] = a /\ Last(Lanes) = a
    BY <1>2, <1>8 DEF Last
  <2>2. \E k \in DOMAIN Lanes : Redirects(Lanes[k])
    BY <1>8, <2>1
  <2>3. after.on /\ after.pc = a.pred.target
    BY <2>1, <2>2 DEF PredictedRedirect
  <2> QED
    BY <1>5, <1>8, <2>1, <2>3
<1>9. CASE ~Redirects(a)
  <2>1. /\ Lanes = <<a, b>> /\ Len(Lanes) = 2 /\ Lanes[1] = a /\ Lanes[2] = b
        /\ Last(Lanes) = b /\ DOMAIN Lanes = 1 .. 2
    BY <1>2, <1>9 DEF Last
  <2>2. ~a.pred.taken /\ (~Redirects(b) => ~b.pred.taken)
    <3>1. 1 \in DOMAIN Lanes /\ 2 \in DOMAIN Lanes
      BY <2>1
    <3> QED
      BY <1>7, <1>9, <2>1, <3>1
  <2>3. GoesOn(a, b.pc)
    BY <1>4, <2>2 DEF GoesOn, Behind, pc2
  <2>4. GoesOn(b, next)
    <3>1. CASE Redirects(b)
      <4>1. \E k \in DOMAIN Lanes : Redirects(Lanes[k])
        BY <2>1, <3>1
      <4>2. after.on /\ after.pc = b.pred.target
        BY <2>1, <4>1 DEF PredictedRedirect
      <4> QED
        BY <1>5, <3>1, <4>2
    <3>2. CASE ~Redirects(b)
      <4>1. ~\E k \in DOMAIN Lanes : Redirects(Lanes[k])
        BY <1>9, <2>1, <3>2
      <4>2. after = redirect
        BY <4>1, Zenon DEF PredictedRedirect
      <4>3. next = (pc2 + InsnBytes) % PcMod
        BY <1>6, <4>2
      <4> QED
        BY <1>4, <2>2, <3>2, <4>3 DEF GoesOn, Behind
    <3> QED
      BY <3>1, <3>2
  <2> HIDE DEF next
  <2> QED
    BY <2>1, <2>3, <2>4 DEF next
<1> QED
  BY <1>8, <1>9

(* A lane enters: what is next to retire stays, and a HALT is in flight.     *)
Controlled(t, r, pc) ==
    /\ t.rob.count > 0
    /\ \A next : PcAt(t.rob, FALSE, next) = PcAt(r, FALSE, pc)
    /\ HaltComing(t.rob, t.halt)

(* A dispatched lane leaves the PC of the oldest instruction. *)
LEMMA LaneControl ==
    ASSUME NEW R, RenameOK(R), NEW b \in BundleSet, NEW n \in Nat, NEW s, DispatchOK(s, n), Accepts(s),
           NEW t, t = Dispatch(R, s, b)
    PROVE  Controlled(t, s.rob, b.lane.pc)
<1> DEFINE r == s.rob
           d == RobData(R, b)
           a == Allocate(r, d)
           u == t.rob
<1>1. /\ u = IF CompletesAtDispatch(b.lane.ins) THEN Complete(a, r.tail) ELSE a
      /\ t.halt = (b.lane.ins.op = "HALT")
  BY DEF Dispatch, Accepts
<1>2. Ring(r) /\ ~Full(r)
  BY DEF DispatchOK, Accepts
<1>3. DataOK(d)
  <2>1. r.tail \in Index
    BY <1>2 DEF Ring, InOrder
  <2> QED
    BY <2>1, DispatchedData
<1>4. d.pc = b.lane.pc /\ d.ins = b.lane.ins
  BY DEF RobData
<1> HIDE DEF a
<1>5. GrowsBy(r, u, d)
  <2> HIDE DEF u, d, r
  <2>1. GrowsBy(r, a, d) /\ GrowsBy(r, Complete(a, r.tail), d)
    BY <1>2, <1>3, AllocateGrows DEF a
  <2> QED
    BY <1>1, <2>1
<1> HIDE DEF d, u, r
<1>6. /\ r.count \in Nat /\ r.head \in Index /\ Position(r, r.head) = 0
      /\ \A i, j \in Index : Position(r, i) = Position(r, j) => i = j
  BY <1>2, RingHead, RingPositions
<1>7. /\ u.count = r.count + 1 /\ u.head = r.head /\ r.tail \in Index
      /\ Position(r, r.tail) = r.count /\ u.slot[r.tail].data = d /\ InWindow(u, r.tail)
      /\ r.head # r.tail => u.slot[r.head].data = r.slot[r.head].data
  BY <1>5, <1>6 DEF GrowsBy
<1>8. u.slot[u.head].data.pc = IF r.count > 0 THEN r.slot[r.head].data.pc ELSE d.pc
  <2>1. CASE r.count = 0
    BY <1>6, <1>7, <2>1
  <2>2. CASE r.count > 0
    BY <1>6, <1>7, <2>2
  <2> QED
    BY <1>6, <2>1, <2>2
<1>9. u.count > 0
  BY <1>6, <1>7
<1>10. \A next : PcAt(u, FALSE, next) = PcAt(r, FALSE, b.lane.pc)
  BY <1>4, <1>8, <1>9 DEF PcAt
<1>11. HaltComing(u, t.halt)
  BY <1>1, <1>4, <1>7 DEF HaltComing, InsAt
<1> QED
  BY <1>9, <1>10, <1>11 DEF u, r, Controlled

(* Nothing is lost when the front end stops. *)
LEMMA UnderstoodLess ==
    ASSUME NEW x, NEW s, NEW v, NEW G, Understood(x, s, v, G), NEW H \in SUBSET G
    PROVE  Understood(x, s, v, H)
<1>1. PICK h, z : /\ z[0] = v
                  /\ Mapped(h, s.rob, x.rat, x.freeList, x.prf)
                  /\ Meant(h, z, s.rob, x.prf, s.iq, s.lsq, s.buffer, 0, G)
  BY DEF Understood
<1>2. Goes(z, s.rob, s.iq, H)
  <2>1. Goes(z, s.rob, s.iq, G)
    BY <1>1 DEF Meant
  <2> QED
    BY <2>1, GoesLess
<1>3. Meant(h, z, s.rob, x.prf, s.iq, s.lsq, s.buffer, 0, H)
  BY <1>1, <1>2 DEF Meant
<1> QED
  BY <1>1, <1>3 DEF Understood

(* A lane enters with the operands that the program gives it. *)
LEMMA LaneUnderstood ==
    ASSUME NEW x, RenameOK(x), NEW l \in LaneSet,
           WritesRegister(l.ins) => Len(x.freeList) >= 1,
           NEW n \in Nat, NEW s, DispatchOK(s, n), Accepts(s), MemQueues(s),
           NEW v, Understood(x, s, v, {l.pc}),
           NEW R, RenameOK(R), CellsKept(R, x),
           l.ins.op \in BranchOps => R.rat = Rename(x, l).rat,
           NEW b \in BundleSet, Through(x, l, b), NEW next, GoesOn(l, next)
    PROVE  Understood(Rename(x, l), Dispatch(R, s, b), v, {next})
<1>1. PICK m, w : /\ w[0] = v
                  /\ Mapped(m, s.rob, x.rat, x.freeList, x.prf)
                  /\ Meant(m, w, s.rob, x.prf, s.iq, s.lsq, s.buffer, 0, {l.pc})
  BY DEF Understood
<1> DEFINE y == Rename(x, l)
           t == Dispatch(R, s, b)
<1>5. y = Rename(x, l) /\ t = Dispatch(R, s, b)
  OBVIOUS
<1> HIDE DEF y, t
<1>6. Understood(y, t, w[0], {next})
  BY <1>1, <1>5, LaneValues
<1> QED
  BY <1>1, <1>5, <1>6, Zenon

(* The bundles the two lanes become. *)
Unrenamed == [rat |-> rat, freeList |-> freeList, prf |-> prf, out |-> << >>]

(* What renaming hands to dispatch for each lane. *)
LEMMA LanesRenamed ==
    ASSUME MachineOK, CanRename(Lanes),
           NEW x1, x1 = Rename(Unrenamed, Lanes[1])
    PROVE  /\ RenameOK(Unrenamed) /\ RenameOK(x1)
           /\ WritesRegister(Lanes[1].ins) => Len(Unrenamed.freeList) >= 1
           /\ CellsKept(x1, Unrenamed)
           /\ \E b \in BundleSet : Renamed(Lanes).out[1] = b /\ Through(Unrenamed, Lanes[1], b)
           /\ Len(Lanes) = 1 => Renamed(Lanes) = x1
           /\ Len(Lanes) = 2 =>
                /\ Renamed(Lanes) = Rename(x1, Lanes[2])
                /\ WritesRegister(Lanes[2].ins) => Len(x1.freeList) >= 1
                /\ CellsKept(Renamed(Lanes), x1) /\ CellsKept(Renamed(Lanes), Unrenamed)
                /\ ~WritesRegister(Lanes[2].ins) =>
                      /\ Renamed(Lanes).rat = x1.rat
                      /\ Renamed(Lanes).freeList = x1.freeList
                      /\ Renamed(Lanes).prf = x1.prf
                /\ \E b \in BundleSet : Renamed(Lanes).out[2] = b /\ Through(x1, Lanes[2], b)
<1> DEFINE lanes == Lanes
           R == Renamed(lanes)
           x0 == Unrenamed
<1>1. lanes \in Seq(LaneSet) /\ Len(lanes) \in {1, 2}
  BY LanesTyped
<1>2. RenameOK(x0) /\ x0.out = << >> /\ x0.freeList = freeList /\ Len(freeList) \in Nat
  BY DEF MachineOK, RenameOK, Unrenamed
<1>3. /\ Len(lanes) = 1 => R = x1
      /\ Len(lanes) = 2 => R = Rename(x1, lanes[2])
  BY DEF Renamed, ForEach, Unrenamed
<1>4. /\ WritesRegister(lanes[1].ins) => Len(freeList) >= 1
      /\ Len(lanes) = 2 /\ WritesRegister(lanes[2].ins) =>
            Len(freeList) >= IF WritesRegister(lanes[1].ins) THEN 2 ELSE 1
  BY BundleRegisters
<1>5. x1 = Rename(x0, lanes[1])
  OBVIOUS
<1> HIDE DEF lanes, R, x0
<1>6. lanes[1] \in LaneSet /\ (Len(lanes) = 2 => lanes[2] \in LaneSet)
  BY <1>1
<1>7. /\ RenameOK(x1)
      /\ Len(x1.freeList) = IF WritesRegister(lanes[1].ins) THEN Len(freeList) - 1
                            ELSE Len(freeList)
  BY <1>2, <1>4, <1>5, <1>6, RenameTyped
<1>8. /\ CellsKept(x1, x0)
      /\ \A p \in Physical : (\A k \in 1 .. Len(x0.freeList) : x0.freeList[k] # p) =>
            \A k \in 1 .. Len(x1.freeList) : x1.freeList[k] # p
      /\ \E b \in BundleSet : x1.out = Append(x0.out, b) /\ Through(x0, lanes[1], b)
  <2> DEFINE y == Rename(x0, lanes[1])
  <2>1. /\ \A p \in Physical : (\A k \in 1 .. Len(x0.freeList) : x0.freeList[k] # p) =>
              /\ y.prf[p] = x0.prf[p]
              /\ \A k \in 1 .. Len(y.freeList) : y.freeList[k] # p
        /\ \E b \in BundleSet :
              /\ y.out = Append(x0.out, b)
              /\ b.lane = lanes[1]
              /\ b.rs1 = x0.rat[lanes[1].ins.rs1] /\ b.rs2 = x0.rat[lanes[1].ins.rs2]
              /\ WritesRegister(lanes[1].ins) => b.prd = Head(x0.freeList) /\ b.old = x0.rat[lanes[1].ins.rd]
    BY <1>2, <1>4, <1>6, RenameKeeps
  <2>2. y = x1
    BY <1>5
  <2> HIDE DEF y
  <2> QED
    BY <2>1, <2>2 DEF CellsKept, Through
<1>9. PICK b1 \in BundleSet : x1.out = Append(x0.out, b1) /\ Through(x0, lanes[1], b1)
  BY <1>8
<1>10. x1.out = <<b1>>
  BY <1>2, <1>9
<1>11. CASE Len(lanes) = 1
  <2>1. R = x1 /\ R.out[1] = b1
    BY <1>3, <1>10, <1>11
  <2> QED
    BY <1>2, <1>4, <1>7, <1>8, <1>9, <1>11, <2>1 DEF lanes, R, x0
<1>12. CASE Len(lanes) = 2
  <2>1. WritesRegister(lanes[2].ins) => Len(x1.freeList) >= 1
    BY <1>2, <1>4, <1>7, <1>12
  <2>2. R = Rename(x1, lanes[2])
    BY <1>3, <1>12
  <2>3. /\ CellsKept(R, x1)
        /\ \E b \in BundleSet : R.out = Append(x1.out, b) /\ Through(x1, lanes[2], b)
    <3> DEFINE y == Rename(x1, lanes[2])
    <3>1. /\ \A p \in Physical : (\A k \in 1 .. Len(x1.freeList) : x1.freeList[k] # p) =>
                y.prf[p] = x1.prf[p]
          /\ \E b \in BundleSet :
                /\ y.out = Append(x1.out, b)
                /\ b.lane = lanes[2]
                /\ b.rs1 = x1.rat[lanes[2].ins.rs1] /\ b.rs2 = x1.rat[lanes[2].ins.rs2]
                /\ WritesRegister(lanes[2].ins) => b.prd = Head(x1.freeList) /\ b.old = x1.rat[lanes[2].ins.rd]
      <4>1. RenameOK(x1) /\ lanes[2] \in LaneSet
        BY <1>6, <1>7, <1>12
      <4> QED
        BY <2>1, <4>1, RenameKeeps
    <3>2. y = R
      BY <2>2
    <3> HIDE DEF y
    <3> QED
      BY <3>1, <3>2 DEF CellsKept, Through
  <2>4. PICK b2 \in BundleSet : R.out = Append(x1.out, b2) /\ Through(x1, lanes[2], b2)
    BY <2>3
  <2>5. R.out[1] = b1 /\ R.out[2] = b2
    <3>1. Append(<<b1>>, b2) = <<b1, b2>>
      BY PairOf
    <3>2. R.out = <<b1, b2>>
      BY <1>10, <2>4, <3>1
    <3> QED
      BY <3>2
  <2>6. CellsKept(R, x0)
    BY <1>8, <2>3 DEF CellsKept
  <2>7. ~WritesRegister(lanes[2].ins) => R.rat = x1.rat /\ R.freeList = x1.freeList /\ R.prf = x1.prf
    BY <2>2 DEF Rename
  <2>8. \E b \in BundleSet : R.out[1] = b /\ Through(x0, lanes[1], b)
    BY <1>9, <2>5
  <2>9. \E b \in BundleSet : R.out[2] = b /\ Through(x1, lanes[2], b)
    BY <2>4, <2>5
  <2> QED
    BY <1>2, <1>4, <1>7, <1>8, <1>12, <2>1, <2>2, <2>3, <2>6, <2>7, <2>8, <2>9 DEF lanes, R, x0
<1> QED
  BY <1>1, <1>11, <1>12

GoingTo(stopped, next) == IF stopped THEN {} ELSE {next}

(* A bundle enters. *)
LEMMA BundleValues ==
    ASSUME Capacity <= LSQCapacity, Capacity <= SBCapacity,
           MachineOK, MemoryOK, BundleArrives,
           LanesEnter, WritersDispatched, NoWriterBehindBranch,
           NEW v, Lanes[1].pc = fd.pc,
           Len(Lanes) = 2 => GoesOn(Lanes[1], Lanes[2].pc),
           NEW next, GoesOn(Lanes[Len(Lanes)], next),
           NEW R, R = Renamed(Lanes), NEW t, t = Dispatched(R)
    PROVE  /\ Controlled(t, rob, fd.pc)
           /\ Understood(Unrenamed, NothingDispatched, v, {fd.pc}) => Understood(R, t, v, GoingTo(t.halt, next))
<1> DEFINE before == Understood(Unrenamed, NothingDispatched, v, {fd.pc})
           lanes == Lanes
           x0 == Unrenamed
           x1 == Rename(x0, lanes[1])
           s0 == NothingDispatched
           s1 == Dispatch(R, s0, R.out[1])
<1>1. lanes \in Seq(LaneSet) /\ Len(lanes) \in {1, 2} /\ DOMAIN lanes = 1 .. Len(lanes)
  BY LanesTyped
<1>2. CanRename(Lanes)
  BY DEF LanesEnter
<1>3. RenameOK(R) /\ Len(R.out) = Len(lanes)
  BY <1>2, RenamedTyped
<1>4. /\ Len(R.out) = 1 => t = s1
      /\ Len(R.out) = 2 => t = Dispatch(R, s1, R.out[2])
  BY DEF Dispatched, ForEach, NothingDispatched
<1>5. DispatchOK(s0, 0) /\ s0.rob = rob /\ ~s0.halt /\ MemQueues(s0)
  BY DEF DispatchOK, MachineOK, MemoryOK, MemQueues, NothingDispatched
<1>6. /\ Accepts(s0)
      /\ Len(lanes) = 2 => s1.halt \/ Accepts(s1)
      /\ Len(lanes) = 2 /\ WritesRegister(lanes[2].ins) => Accepts(s1) /\ lanes[1].ins.op \notin BranchOps
  <2>1. 1 \in DOMAIN lanes /\ (Len(lanes) = 2 => 2 \in DOMAIN lanes) /\ 2 # 1
    BY <1>1
  <2>2. DispatchedBefore(1) = s0 /\ DispatchedBefore(2) = s1
    BY DEF DispatchedBefore
  <2>3. \A k \in DOMAIN lanes : DispatchedBefore(k).halt \/ Accepts(DispatchedBefore(k))
    BY DEF LanesEnter
  <2>4. BundleRenames
    BY <1>2 DEF BundleArrives, BundleRenames
  <2>5. /\ \A k \in DOMAIN lanes : WritesRegister(lanes[k].ins) => Accepts(DispatchedBefore(k))
        /\ Len(lanes) = 2 /\ WritesRegister(lanes[2].ins) => lanes[1].ins.op \notin BranchOps
    BY <2>4 DEF WritersDispatched, NoWriterBehindBranch
  <2> HIDE DEF lanes, s0, s1
  <2> QED
    BY <1>5, <2>1, <2>2, <2>3, <2>5
<1>7. /\ RenameOK(x0) /\ RenameOK(x1)
      /\ WritesRegister(lanes[1].ins) => Len(x0.freeList) >= 1
      /\ CellsKept(x1, x0)
      /\ \E b \in BundleSet : R.out[1] = b /\ Through(x0, lanes[1], b)
      /\ Len(lanes) = 1 => R = x1
      /\ Len(lanes) = 2 =>
           /\ R = Rename(x1, lanes[2])
           /\ WritesRegister(lanes[2].ins) => Len(x1.freeList) >= 1
           /\ CellsKept(R, x1) /\ CellsKept(R, x0)
           /\ ~WritesRegister(lanes[2].ins) => R.rat = x1.rat /\ R.freeList = x1.freeList /\ R.prf = x1.prf
           /\ \E b \in BundleSet : R.out[2] = b /\ Through(x1, lanes[2], b)
  BY <1>2, LanesRenamed
<1>8. lanes[1] \in LaneSet /\ (Len(lanes) = 2 => lanes[2] \in LaneSet)
  BY <1>1
<1>9. /\ (before => Understood(x0, s0, v, {lanes[1].pc})) /\ lanes[1].pc = fd.pc
      /\ Len(lanes) = 2 => GoesOn(lanes[1], lanes[2].pc)
      /\ GoesOn(lanes[Len(lanes)], next)
  OBVIOUS
<1>10. x1 = Rename(x0, lanes[1])
  OBVIOUS
<1> HIDE DEF before, lanes, x0, x1, s0
<1>11. PICK b1 \in BundleSet : R.out[1] = b1 /\ Through(x0, lanes[1], b1)
  BY <1>7
<1>12. s1 = Dispatch(R, s0, b1)
  BY <1>11
<1> HIDE DEF s1
<1>13. DispatchOK(s1, 1) /\ MemQueues(s1)
  <2>1. DispatchOK(s1, 0 + 1)
    BY <1>3, <1>5, <1>12, DispatchTyped
  <2>2. MemQueues(s1)
    BY <1>3, <1>5, <1>12, DispatchQueues
  <2> QED
    BY <2>1, <2>2
<1>14. CellsKept(R, x0) /\ (lanes[1].ins.op \in BranchOps => R.rat = x1.rat)
  BY <1>1, <1>6, <1>7
<1>15. ASSUME before, NEW pc, GoesOn(lanes[1], pc)
       PROVE  Understood(x1, s1, v, {pc})
  <2>1. lanes[1].ins.op \in BranchOps => R.rat = Rename(x0, lanes[1]).rat
    BY <1>10, <1>14
  <2>2. Understood(Rename(x0, lanes[1]), Dispatch(R, s0, b1), v, {pc})
    BY <1>3, <1>5, <1>6, <1>7, <1>8, <1>9, <1>11, <1>14, <1>15, <2>1, LaneUnderstood
  <2> QED
    BY <1>10, <1>12, <2>2
<1>16. Controlled(s1, rob, fd.pc)
  <2>1. b1.lane.pc = fd.pc
    BY <1>9, <1>11 DEF Through
  <2>2. Controlled(s1, s0.rob, b1.lane.pc)
    BY <1>3, <1>5, <1>6, <1>12, LaneControl
  <2> QED
    BY <1>5, <2>1, <2>2
<1>17. ASSUME NEW G, before => Understood(R, t, v, {next}) \/ (t.halt /\ Understood(R, t, v, G))
       PROVE  before => Understood(R, t, v, GoingTo(t.halt, next))
  <2> DEFINE H == GoingTo(t.halt, next)
  <2>1. H \in SUBSET {next} /\ (t.halt => H \in SUBSET G)
    BY DEF GoingTo
  <2> HIDE DEF H
  <2>2. before => Understood(R, t, v, H)
    BY <1>17, <2>1, UnderstoodLess
  <2> QED
    BY <2>2 DEF H
<1>18. CASE Len(lanes) = 1
  <2>1. t = s1 /\ R = x1
    BY <1>3, <1>4, <1>7, <1>18
  <2>2. before => Understood(R, t, v, {next})
    BY <1>9, <1>15, <1>18, <2>1
  <2> QED
    BY <1>16, <1>17, <2>1, <2>2 DEF before
<1>19. CASE Len(lanes) = 2
  <2>1. PICK b2 \in BundleSet : R.out[2] = b2 /\ Through(x1, lanes[2], b2)
    BY <1>7, <1>19
  <2>2. t = Dispatch(R, s1, b2)
    BY <1>3, <1>4, <1>19, <2>1
  <2>3. before => Understood(x1, s1, v, {lanes[2].pc})
    BY <1>9, <1>15, <1>19
  <2>4. CASE s1.halt
    <3>1. t = s1
      BY <2>2, <2>4 DEF Dispatch
    <3>2. R.rat = x1.rat /\ R.freeList = x1.freeList /\ R.prf = x1.prf
      BY <1>6, <1>7, <1>19, <2>4 DEF Accepts
    <3>3. before => Understood(R, t, v, {lanes[2].pc})
      BY <2>3, <3>1, <3>2 DEF Understood
    <3> QED
      BY <1>16, <1>17, <2>4, <3>1, <3>3 DEF before
  <2>5. CASE ~s1.halt
    <3>1. Accepts(s1)
      BY <1>6, <1>19, <2>5
    <3>2. R = Rename(x1, lanes[2]) /\ CellsKept(R, x1)
          /\ (WritesRegister(lanes[2].ins) => Len(x1.freeList) >= 1)
      BY <1>7, <1>19
    <3>3. lanes[2] \in LaneSet /\ GoesOn(lanes[2], next) /\ RenameOK(x1)
      BY <1>7, <1>8, <1>9, <1>19
    <3>4. lanes[2].ins.op \in BranchOps => R.rat = Rename(x1, lanes[2]).rat
      BY <3>2
    <3>5. ASSUME before
          PROVE  Understood(Rename(x1, lanes[2]), Dispatch(R, s1, b2), v, {next})
      BY <1>3, <1>13, <2>1, <2>3, <3>1, <3>2, <3>3, <3>4, <3>5, LaneUnderstood
    <3>6. before => Understood(R, t, v, {next})
      BY <2>2, <3>2, <3>5
    <3>7. Controlled(t, s1.rob, b2.lane.pc)
      BY <1>3, <1>13, <2>2, <3>1, LaneControl
    <3>8. Controlled(t, rob, fd.pc)
      BY <1>16, <3>7 DEF Controlled
    <3> QED
      BY <1>17, <3>6, <3>8 DEF before
  <2> QED
    BY <2>4, <2>5
<1> QED
  BY <1>1, <1>18, <1>19

-----------------------------------------------------------------------------
(* The stages of the front end, and what the program gives. *)

(* The two lanes of a bundle enter one after the other. *)
LEMMA RenameValues ==
    ASSUME Capacity <= LSQCapacity, Capacity <= SBCapacity,
           MachineOK, MemoryOK, OrderOK, ControlOK, ValuesOK, RenameAndDispatch,
           LanesEnter, WritersDispatched, NoWriterBehindBranch, OwnCounters
    PROVE  ValuesOK' /\ ControlOK' /\ [Meaning!Next]_(Meaning!vars)
<1> DEFINE R == Renamed(Lanes)
           t == Dispatched(R)
           after == PredictedRedirect(Lanes)
           next == IF after.on THEN after.pc ELSE fetchPc
<1>1. BundleArrives
  BY DEF RenameAndDispatch, BundleArrives
<1>2. /\ redirect' = after /\ rob' = t.rob /\ haltDispatched' = t.halt /\ stage' = "fetch"
      /\ rat' = R.rat /\ freeList' = R.freeList /\ prf' = R.prf
      /\ iq' = t.iq /\ lsq' = t.lsq /\ storeBuffer' = t.buffer
      /\ UNCHANGED <<rom, fetchPc, fd, halted, arf, dmem>>
  BY DEF RenameAndDispatch
<1>3. /\ Lanes[1].pc = fd.pc
      /\ Len(Lanes) = 2 => GoesOn(Lanes[1], Lanes[2].pc)
      /\ GoesOn(Lanes[Len(Lanes)], next)
  BY <1>1, LanesFollow, LanesGuessed
<1>4. R = Renamed(Lanes) /\ t = Dispatched(R)
  OBVIOUS
<1>5. Coming' = next
  BY <1>2 DEF Coming
<1>6. ~redirect.on /\ ~haltDispatched /\ Coming = fd.pc /\ Going = {fd.pc}
  BY <1>1 DEF BundleArrives, Coming, Going
<1> HIDE DEF R, t, after, next
<1>7. /\ Controlled(t, rob, fd.pc)
      /\ \A v : Understood(Unrenamed, NothingDispatched, v, {fd.pc}) =>
                   Understood(R, t, v, GoingTo(t.halt, next))
  BY <1>1, <1>3, <1>4, BundleValues
<1>8. ControlOK'
  <2>1. rob'.count > 0 /\ HaltComing(rob', haltDispatched')
    BY <1>2, <1>7 DEF Controlled
  <2>2. rob'.count # 0
    BY <2>1
  <2> QED
    BY <1>2, <2>1, <2>2 DEF ControlOK
<1>9. [Meaning!Next]_(Meaning!vars)
  <2>1. NextPc = PcAt(rob, halted, fd.pc)
    BY <1>6, NextIsVisible
  <2>2. rob'.count > 0 /\ PcAt(rob', FALSE, next) = PcAt(rob, FALSE, fd.pc)
    BY <1>2, <1>7 DEF Controlled
  <2>3. NextPc' = NextPc
    <3>1. CASE halted
      BY <1>2, <3>1 DEF NextPc
    <3>2. CASE ~halted
      <4>1. PcAt(rob', FALSE, next) = rob'.slot[rob'.head].data.pc
        BY <2>2 DEF PcAt
      <4>2. NextPc' = rob'.slot[rob'.head].data.pc
        BY <1>2, <2>2, <3>2 DEF NextPc
      <4>3. NextPc = PcAt(rob, FALSE, fd.pc)
        BY <2>1, <3>2 DEF PcAt
      <4> QED
        BY <2>2, <4>1, <4>2, <4>3
    <3> QED
      BY <3>1, <3>2
  <2> QED
    BY <1>2, <2>3 DEF Meaning!vars
<1>10. Going' = GoingTo(t.halt, next)
  BY <1>2, <1>5 DEF Going, GoingTo
<1>11. ValuesOK'
  <2> SUFFICES ASSUME ~halted' PROVE \E h, z : ValuesAre(h, z)'
    BY DEF ValuesOK
  <2>1. PICK m, w : ValuesAre(m, w)
    BY <1>2 DEF ValuesOK
  <2>2. Understood(Unrenamed, NothingDispatched, w[0], {fd.pc})
    <3>1. /\ Mapped(m, rob, rat, freeList, prf)
          /\ Meant(m, w, rob, prf, iq, lsq, storeBuffer, 0, {fd.pc})
      BY <1>6, <2>1 DEF ValuesAre
    <3> QED
      BY <3>1 DEF Understood, Unrenamed, NothingDispatched
  <2>3. Understood(R, t, w[0], Going')
    BY <1>7, <1>10, <2>2
  <2>4. PICK h, z : /\ z[0] = w[0]
                    /\ Mapped(h, t.rob, R.rat, R.freeList, R.prf)
                    /\ Meant(h, z, t.rob, R.prf, t.iq, t.lsq, t.buffer, 0, Going')
    BY <2>3 DEF Understood
  <2>5. /\ Mapped(h, rob', rat', freeList', prf')
        /\ Meant(h, z, rob', prf', iq', lsq', storeBuffer', 0, Going')
    BY <1>2, <2>4
  <2>6. z[0].regs = arf' /\ z[0].mem = dmem'
    BY <1>2, <2>1, <2>4 DEF ValuesAre
  <2>7. ValuesAre(h, z)'
    BY <2>5, <2>6 DEF ValuesAre
  <2> QED
    BY <2>7
<1> QED
  BY <1>8, <1>9, <1>11

(* There is no bundle. *)
LEMMA RenameIdleValues ==
    ASSUME MachineOK, ControlOK, ValuesOK, RenameIdle
    PROVE  ValuesOK' /\ ControlOK' /\ [Meaning!Next]_(Meaning!vars)
<1>1. /\ UNCHANGED <<rom, fetchPc, fd, redirect, halted, haltDispatched, rob, iq, prf, arf, rat, freeList,
                     lsq, storeBuffer, dmem>>
      /\ stage' = "fetch" /\ (redirect.on \/ haltDispatched \/ ~fd.valid)
  BY DEF RenameIdle, frontend, renaming, memory
<1>2. Going' = Going
  BY <1>1 DEF Going, Coming
<1>3. ~halted /\ haltDispatched => rob.count > 0
  <2> SUFFICES ASSUME ~halted, haltDispatched PROVE rob.count > 0
    OBVIOUS
  <2>1. PICK i \in Index : InWindow(rob, i)
    BY DEF ControlOK, HaltComing
  <2>2. Ring(rob)
    BY DEF MachineOK
  <2> QED
    BY <2>1, <2>2, RingPositions
<1>4. ControlOK'
  <2>1. stage' = "fetch" /\ ~halted' /\ rob'.count = 0 => ~fd'.valid
    BY <1>1, <1>3 DEF ControlOK
  <2>2. redirect'.on => rob'.count > 0 /\ stage' \notin {"commit", "memory", "branch"}
    BY <1>1 DEF ControlOK
  <2>3. ~halted' => HaltComing(rob', haltDispatched')
    BY <1>1 DEF ControlOK
  <2> QED
    BY <2>1, <2>2, <2>3 DEF ControlOK
<1>5. [Meaning!Next]_(Meaning!vars)
  BY <1>1 DEF Meaning!vars, NextPc
<1> QED
  BY <1>1, <1>2, <1>4, <1>5, ValuesUntouched

(* A bundle is fetched. *)
LEMMA FetchValues ==
    ASSUME MachineOK, ControlOK, ValuesOK, Fetch
    PROVE  ValuesOK' /\ ControlOK' /\ [Meaning!Next]_(Meaning!vars)
<1>1. /\ stage = "fetch" /\ stage' = "commit" /\ ~redirect'.on
      /\ fd' = IF redirect.on THEN Bubble ELSE [valid |-> TRUE, pc |-> fetchPc]
      /\ fetchPc' = IF redirect.on THEN redirect.pc
                    ELSE (fetchPc + FetchWidth * InsnBytes) % PcMod
      /\ UNCHANGED <<rom, halted, haltDispatched, rob, iq, prf, arf, rat, freeList,
                     lsq, storeBuffer, dmem>>
  BY DEF Fetch, NoRedirect, renaming, memory
<1>2. Going' = Going
  BY <1>1 DEF Going, Coming, Bubble
<1>3. ControlOK'
  BY <1>1 DEF ControlOK
<1>4. NextPc' = NextPc
  <2>1. CASE halted \/ rob.count > 0
    BY <1>1, <2>1 DEF NextPc
  <2>2. CASE ~halted /\ ~(rob.count > 0)
    <3>1. rob.count = 0
      <4>1. rob.count \in Nat
        BY RingPositions DEF MachineOK
      <4> QED
        BY <2>2, <4>1
    <3>2. ~fd.valid /\ ~redirect.on
      BY <1>1, <2>2, <3>1 DEF ControlOK
    <3> QED
      BY <1>1, <2>2, <3>2 DEF NextPc
  <2> QED
    BY <2>1, <2>2
<1>5. [Meaning!Next]_(Meaning!vars)
  BY <1>1, <1>4 DEF Meaning!vars
<1> QED
  BY <1>1, <1>2, <1>3, <1>5, ValuesUntouched

(* In the beginning nothing is in flight. *)
LEMMA ValuesInit == Init => ValuesOK /\ ControlOK /\ Meaning!Init
<1> SUFFICES ASSUME Init PROVE ValuesOK /\ ControlOK /\ Meaning!Init
  OBVIOUS
<1>1. /\ rom \in Programs /\ rob.count = 0 /\ rob = ResetRob
      /\ fetchPc = 0 /\ fd = Bubble /\ redirect = NoRedirect
      /\ halted = FALSE /\ haltDispatched = FALSE /\ stage = "commit"
      /\ rat = [a \in Register |-> a]
      /\ prf = [p \in Physical |-> [ready |-> p \in Register, value |-> 0]]
      /\ arf = [a \in Register |-> 0]
      /\ dmem = [i \in 0 .. DMemWords - 1 |-> 0]
      /\ lsq = << >> /\ storeBuffer = << >>
      /\ iq = [i \in IQSlot |-> FreeSlot]
  BY DEF Init, ResetRob, ResetIQ
<1>2. MachineOK /\ Ring(rob)
  BY MachineInit DEF MachineOK
<1>3. \A i \in Index : ~InWindow(rob, i) /\ ~Writes(rob, i)
  <2>1. \A i \in Index : Position(rob, i) \in Nat
    BY <1>2, RingPositions
  <2> QED
    BY <1>1, <2>1 DEF InWindow, Writes
<1>4. Meaning!Init
  <2>1. NextPc = 0
    BY <1>1 DEF NextPc, Bubble
  <2>2. dmem = Meaning!LoadedMemory(rom)
    BY <1>1 DEF Meaning!LoadedMemory
  <2> QED
    BY <1>1, <2>1, <2>2 DEF Meaning!Init, Meaning!Register, Register
<1>5. ControlOK
  BY <1>1 DEF ControlOK, NoRedirect, Bubble, HaltComing
<1>6. PICK m : Mapped(m, rob, rat, freeList, prf)
  BY <1>1, RenamingInit DEF RenamingOK
<1>7. m[0] = rat
  BY <1>1, <1>6 DEF Mapped
<1> DEFINE s == [pc |-> 0, regs |-> arf, mem |-> dmem]
           x == [k \in 0 .. 0 |-> s]
<1>8. s \in ArchState /\ s.regs = arf /\ s.mem = dmem
  <2>1. arf \in [Register -> Word] /\ dmem \in [0 .. DMemWords - 1 -> Word] /\ 0 \in PcValue
    BY <1>1, <1>2 DEF MachineOK
  <2> QED
    BY <2>1 DEF ArchState
<1> HIDE DEF s
<1>9. x \in [0 .. rob.count -> ArchState] /\ x[0] = s
  BY <1>1, <1>8
<1> HIDE DEF x
<1>10. Trace(x, rob)
  BY <1>3, <1>9 DEF Trace
<1>11. Valued(m, x, rob, prf)
  <2>1. ASSUME NEW a \in Register
        PROVE  prf[m[0][a]].value = x[0].regs[a]
    <3>1. m[0][a] = a /\ x[0].regs[a] = 0
      BY <1>1, <1>7, <1>8, <1>9
    <3>2. a \in Physical
      BY SizeAssumption DEF Register, Physical
    <3>3. prf[a].value = 0
      BY <1>1, <3>2
    <3> QED
      BY <3>1, <3>3
  <2> QED
    BY <1>3, <2>1 DEF Valued
<1>12. Operands(iq, m, x, rob)
  BY <1>1 DEF Operands, FreeSlot
<1>13. Accesses(lsq, x, rob) /\ Stored(storeBuffer, 0, x, rob)
  <2>1. Len(lsq) = 0 /\ Len(storeBuffer) = 0
    BY <1>1
  <2> HIDE DEF x
  <2> QED
    BY <2>1 DEF Accesses, Stored
<1>14. Goes(x, rob, iq, Going)
  BY <1>1, <1>3 DEF Goes, Decided, Guessed, JumpsWait, FreeSlot
<1>15. ValuesAre(m, x)
  BY <1>6, <1>8, <1>9, <1>10, <1>11, <1>12, <1>13, <1>14 DEF ValuesAre, Meant
<1>16. ValuesOK
  BY <1>15 DEF ValuesOK
<1> QED
  BY <1>4, <1>5, <1>16

(* Every action keeps the values, and is a step of the sequential machine or none. *)
LEMMA ValuesStep ==
    ASSUME Capacity <= LSQCapacity, Capacity <= SBCapacity
    PROVE  MachineOK /\ MemoryOK /\ OrderOK /\ ControlOK /\ ValuesOK
              /\ LanesEnter /\ WritersDispatched /\ NoWriterBehindBranch /\ OwnCounters
              /\ WrongPathSparesMemory /\ AccessesInside' /\ [Next]_vars
           => ValuesOK' /\ ControlOK' /\ [Meaning!Next]_(Meaning!vars)
<1> SUFFICES ASSUME MachineOK, MemoryOK, OrderOK, ControlOK, ValuesOK,
                    LanesEnter, WritersDispatched, NoWriterBehindBranch, OwnCounters,
                    WrongPathSparesMemory, AccessesInside', [Next]_vars
             PROVE  ValuesOK' /\ ControlOK' /\ [Meaning!Next]_(Meaning!vars)
  OBVIOUS
<1>1. CASE CommitStage
  BY <1>1, CommitValues
<1>2. CASE MemoryIdle
  BY <1>2, MemoryIdleValues
<1>3. CASE ExecuteLoad
  BY <1>3, LoadValues
<1>4. CASE ExecuteStore
  BY <1>4, StoreValues
<1>5. CASE NoBranchReady \/ AluIdle
  BY <1>5, IdleValues
<1>6. CASE BranchAsPredicted
  BY <1>6, PredictedValues
<1>7. CASE BranchMispredicted
  BY <1>7, SquashValues
<1>8. CASE ExecuteAlu
  BY <1>8, AluValues
<1>9. CASE RenameIdle
  BY <1>9, RenameIdleValues
<1>10. CASE BundleNotRenamed
  BY <1>10 DEF BundleNotRenamed, LanesEnter, BundleArrives
<1>11. CASE RenameAndDispatch
  BY <1>11, RenameValues
<1>12. CASE Fetch
  BY <1>12, FetchValues
<1>13. CASE UNCHANGED vars
  <2>1. UNCHANGED <<rom, stage, fetchPc, fd, redirect, halted, haltDispatched, rob, iq, prf, arf, rat, freeList,
                    lsq, storeBuffer, dmem>>
    BY <1>13 DEF vars, frontend, renaming, memory
  <2>2. Going' = Going /\ ControlOK' /\ [Meaning!Next]_(Meaning!vars)
    BY <2>1 DEF Going, Coming, ControlOK, Meaning!vars, NextPc
  <2> QED
    BY <2>1, <2>2, ValuesUntouched
<1> QED
  BY <1>1, <1>2, <1>3, <1>4, <1>5, <1>6, <1>7, <1>8, <1>9, <1>10, <1>11, <1>12, <1>13 DEF Next

(* Seen through its architectural registers, its data memory and the PC of  *)
(* the next instruction to retire, the CPU executes the program one         *)
(* instruction after the other: renaming, forwarding, speculation and       *)
(* recovery never show.  The hypotheses are what the code does not see to   *)
(* itself: the memory queues have the depth of the reorder buffer; a bundle *)
(* that arrives enters whole; no lane behind a branch of its bundle writes  *)
(* a register; no two branches share a counter of the predictor; what a     *)
(* recovery squashes holds no load or store; and an access is a word of the *)
(* data memory.                                                             *)
THEOREM ProgramExecuted ==
    ASSUME Capacity <= LSQCapacity, Capacity <= SBCapacity
    PROVE  Spec /\ []LanesEnter /\ []WritersDispatched /\ []NoWriterBehindBranch /\ []OwnCounters
              /\ []WrongPathSparesMemory /\ []AccessesInside
           => SequentialMeaning
<1>1. MachineOK /\ MemoryOK /\ OrderOK /\ ControlOK /\ ValuesOK
         /\ LanesEnter /\ WritersDispatched /\ NoWriterBehindBranch /\ OwnCounters
         /\ WrongPathSparesMemory /\ AccessesInside' /\ [Next]_vars
      => ValuesOK' /\ ControlOK' /\ [Meaning!Next]_(Meaning!vars)
  BY ValuesStep
<1>2. Spec /\ []WrongPathSparesMemory => []MemoryOK
  BY MemoryHolds
<1>3. Spec /\ []LanesEnter => []OrderOK
  BY FetchFollowsProgram
<1> QED
  BY <1>1, <1>2, <1>3, MachineHolds, ValuesInit, PTL DEF Spec, SequentialMeaning, Meaning!Spec
=============================================================================
