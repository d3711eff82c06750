--------------------------- MODULE VectorCPU_proofs ---------------------------
(***************************************************************************)
(* For every number of registers and lanes, every word, lane operation and *)
(* instruction: vl fits vtype, and the datapath with its latches           *)
(* implements ElementwiseVector.  The argument is one equation: the master *)
(* latches hold what the instruction presented last makes of the registers *)
(* as they are now.                                                        *)
(***************************************************************************)
EXTENDS VectorCPU, TLAPS

Configuration == {c \in [vl : 0 .. 16, vtype : 0 .. 2] : c.vl <= VLMAX(c.vtype)}

TypeOK == /\ vreg \in [Register -> Vector]
          /\ config \in Configuration /\ configMaster \in Configuration
          /\ presented \in Elementwise!Request

MastersAhead == master = Elementwise!After(presented, vreg)

IInv == TypeOK /\ MastersAhead

-----------------------------------------------------------------------------
(* The two modules name the same requests and the same zero. *)
LEMMA SameNames ==
    /\ Hold = Elementwise!Hold /\ Clear = Elementwise!Clear
    /\ Elementwise!Zero = [l \in Lane |-> 0] /\ Elementwise!Zero \in Vector
    /\ Elementwise!Vector = Vector
  BY VectorAssumption DEF Hold, Clear, Elementwise!Hold, Elementwise!Clear, Elementwise!Zero,
     Elementwise!Vector, Vector

(* What each kind of request does to the registers. *)
LEMMA AfterHold ==
    ASSUME NEW r PROVE Elementwise!After(Hold, r) = r
  BY DEF Elementwise!After, Hold

LEMMA AfterClear ==
    ASSUME NEW r
    PROVE Elementwise!After(Clear, r) = [x \in Register |-> [l \in Lane |-> 0]]
  BY SameNames DEF Elementwise!After, Clear

LEMMA AfterWrite ==
    ASSUME NEW r, NEW x, NEW v
    PROVE Elementwise!After(Write(x, v), r) = [r EXCEPT ![x] = v]
  BY DEF Elementwise!After, Write

LEMMA AfterExecute ==
    ASSUME NEW r, NEW i
    PROVE Elementwise!After(Execute(i), r) =
             [r EXCEPT ![i.rd] = [l \in Lane |-> IF l < config.vl
                                                 THEN LaneOp(i.funct3, r[i.rs1][l], r[i.rs2][l])
                                                 ELSE r[i.rd][l]]]
  BY DEF Elementwise!After, Execute

(* No request leaves the registers with something that is no word. *)
LEMMA AfterTyped ==
    ASSUME NEW r \in [Register -> Vector], NEW q \in Elementwise!Request
    PROVE Elementwise!After(q, r) \in [Register -> Vector]
<1>1. CASE q = Elementwise!Hold
  BY <1>1, SameNames, AfterHold
<1>2. CASE q = Elementwise!Clear
  BY <1>2, SameNames, AfterClear, VectorAssumption DEF Vector
<1>3. CASE q \in Elementwise!Write
  BY <1>3, SameNames DEF Elementwise!Write, Elementwise!After
<1>4. CASE q \in Elementwise!Execute
  <2>1. /\ q.kind = "execute" /\ q.op \in 0 .. 7
        /\ q.rd \in Register /\ q.rs1 \in Register /\ q.rs2 \in Register
    BY <1>4 DEF Elementwise!Execute
  <2>2. \A l \in Lane : /\ LaneOp(q.op, r[q.rs1][l], r[q.rs2][l]) \in Word
                        /\ r[q.rd][l] \in Word
    BY <2>1, VectorAssumption DEF Vector
  <2> QED
    BY <2>1, <2>2 DEF Elementwise!After, Vector
<1> QED
  BY <1>1, <1>2, <1>3, <1>4 DEF Elementwise!Request

(* The configuration a valid request makes. *)
LEMMA ConfigurationTyped ==
    ASSUME config \in Configuration, NEW avl \in AVL, NEW sew \in SEW, NEW configure,
           NEW reset \in BOOLEAN
    PROVE ConfigurationInput(avl, sew, configure, reset) \in Configuration
<1>1. CASE reset
  BY <1>1 DEF ConfigurationInput, Configuration, VLMAX
<1>2. CASE ~reset /\ configure = TRUE /\ Valid(avl, sew)
  <2>1. avl \in 0 .. 255 /\ sew \in 0 .. 2
    BY <1>2, ConfigurationAssumption DEF Valid
  <2>2. VLMAX(sew) \in 0 .. 16
    BY <2>1 DEF VLMAX
  <2>3. Minimum(avl, VLMAX(sew)) \in 0 .. 16 /\ Minimum(avl, VLMAX(sew)) <= VLMAX(sew)
    BY <2>1, <2>2 DEF Minimum
  <2> QED
    BY <1>2, <2>1, <2>3 DEF ConfigurationInput, Configuration
<1>3. CASE ~reset /\ ~(configure = TRUE /\ Valid(avl, sew))
  BY <1>3 DEF ConfigurationInput
<1> QED
  BY <1>1, <1>2, <1>3

(* The netlist between the read ports and the registers is what the request *)
(* says. *)
LEMMA InstructionRequested ==
    ASSUME TypeOK, NEW i \in Instruction, NEW reset \in BOOLEAN,
           NEW q, q = IF reset THEN Clear ELSE IF ValidInstruction(i) THEN Execute(i) ELSE Hold
    PROVE LET p == Controls(i, reset)
          IN  /\ q \in Elementwise!Request
              /\ RegisterInput(p.enable, p.reset, p.rd, WritebackResult(p))
                    = Elementwise!After(q, vreg)
<1> DEFINE p == Controls(i, reset)
           w == RegisterInput(p.enable, p.reset, p.rd, WritebackResult(p))
<1>1. /\ i.rd \in Register /\ i.rs1 \in Register /\ i.rs2 \in Register
      /\ i.funct3 \in 0 .. 7 /\ vreg \in [Register -> Vector] /\ config.vl \in 0 .. 255
  BY VectorAssumption DEF TypeOK, Configuration
<1>2. /\ p.enable = WriteEnable(i, reset) /\ p.reset = reset /\ p.rd = i.rd
      /\ p.rs1 = i.rs1 /\ p.rs2 = i.rs2 /\ p.op = i.funct3
  BY DEF Controls
<1>3. WritebackResult(p) = [l \in Lane |-> IF l < config.vl
                                           THEN LaneOp(i.funct3, vreg[i.rs1][l], vreg[i.rs2][l])
                                           ELSE vreg[i.rd][l]]
  BY <1>2 DEF WritebackResult, LaneMask, ExecutionResult
<1> HIDE DEF p
<1>4. CASE reset
  <2>1. q = Clear /\ Clear \in Elementwise!Request
    BY <1>4, SameNames DEF Elementwise!Request
  <2> QED
    BY <1>2, <1>4, <2>1, AfterClear DEF RegisterInput, p
<1>5. CASE ~reset /\ ValidInstruction(i)
  <2>1. q = Execute(i) /\ i.funct3 \in 0 .. 4
    BY <1>1, <1>5 DEF ValidInstruction
  <2>2. Execute(i) \in Elementwise!Request
    BY <1>1, <2>1 DEF Execute, Elementwise!Request, Elementwise!Execute
  <2>3. w = [vreg EXCEPT ![i.rd] = WritebackResult(p)]
    BY <1>1, <1>2, <1>5 DEF RegisterInput, WriteEnable
  <2> QED
    BY <1>3, <2>1, <2>2, <2>3, AfterExecute DEF p
<1>6. CASE ~reset /\ ~ValidInstruction(i)
  <2>1. q = Hold /\ Hold \in Elementwise!Request
    BY <1>6, SameNames DEF Elementwise!Request
  <2>2. w = vreg
    BY <1>1, <1>2, <1>6 DEF RegisterInput, WriteEnable
  <2> QED
    BY <2>1, <2>2, AfterHold DEF p
<1> QED
  BY <1>4, <1>5, <1>6

LEMMA WriteRequested ==
    ASSUME TypeOK, NEW r \in Register, NEW v \in Vector, NEW reset \in BOOLEAN,
           NEW q, q = IF reset THEN Clear ELSE Write(r, v)
    PROVE /\ q \in Elementwise!Request
          /\ RegisterInput(TRUE, reset, r, v) = Elementwise!After(q, vreg)
<1>1. Write(r, v) \in Elementwise!Write
  BY SameNames DEF Write, Elementwise!Write
<1>2. CASE reset
  BY <1>2, SameNames, AfterClear DEF RegisterInput, Elementwise!Request
<1>3. CASE ~reset
  <2>1. RegisterInput(TRUE, reset, r, v) = [vreg EXCEPT ![r] = v]
    BY <1>3 DEF RegisterInput, TypeOK
  <2> QED
    BY <1>1, <1>3, <2>1, AfterWrite DEF Elementwise!Request
<1> QED
  BY <1>2, <1>3
LEMMA IdleRequested ==
    ASSUME TypeOK, NEW reset \in BOOLEAN, NEW q, q = IF reset THEN Clear ELSE Hold
    PROVE /\ q \in Elementwise!Request
          /\ RegisterInput(FALSE, reset, 0, vreg[0]) = Elementwise!After(q, vreg)
<1>1. CASE reset
  BY <1>1, SameNames, AfterClear DEF RegisterInput, Elementwise!Request
<1>2. CASE ~reset
  <2>1. RegisterInput(FALSE, reset, 0, vreg[0]) = vreg
    BY <1>2 DEF RegisterInput, TypeOK
  <2> QED
    BY <1>2, <2>1, SameNames, AfterHold DEF Elementwise!Request
<1> QED
  BY <1>1, <1>2

-----------------------------------------------------------------------------
LEMMA InitKeeps == Init => IInv /\ Elementwise!Init
<1> SUFFICES ASSUME Init PROVE IInv /\ Elementwise!Init
  OBVIOUS
<1>1. /\ vreg = [r \in Register |-> [l \in Lane |-> 0]] /\ master = vreg
      /\ config = [vl |-> 0, vtype |-> 0] /\ configMaster = config /\ presented = Hold
  BY DEF Init
<1>2. TypeOK
  <2>1. config \in Configuration
    BY <1>1 DEF Configuration, VLMAX
  <2>2. vreg \in [Register -> Vector]
    BY <1>1, VectorAssumption DEF Vector
  <2>3. presented \in Elementwise!Request
    BY <1>1, SameNames DEF Elementwise!Request
  <2> QED
    BY <1>1, <2>1, <2>2, <2>3 DEF TypeOK
<1>3. MastersAhead
  BY <1>1, AfterHold DEF MastersAhead
<1>4. Elementwise!Init
  BY <1>1, SameNames DEF Elementwise!Init
<1> QED
  BY <1>2, <1>3, <1>4 DEF IInv

(* Every call keeps the invariant and is a step of the abstract machine. *)
LEMMA NextKeeps ==
    ASSUME IInv, [Next]_vars
    PROVE IInv' /\ [Elementwise!Next]_<<vreg, presented>>
<1>1. TypeOK /\ MastersAhead
  BY DEF IInv
<1>2. ASSUME NEW avl \in AVL, NEW sew \in SEW, NEW configure, NEW reset \in BOOLEAN,
             ConfigureLow(avl, sew, configure, reset)
      PROVE IInv' /\ [Elementwise!Next]_<<vreg, presented>>
  <2>1. configMaster' \in Configuration /\ UNCHANGED <<vreg, master, config, presented>>
    BY <1>1, <1>2, ConfigurationTyped DEF ConfigureLow, TypeOK
  <2> QED
    BY <1>1, <2>1 DEF IInv, TypeOK, MastersAhead
<1>3. ASSUME ConfigureHigh
      PROVE IInv' /\ [Elementwise!Next]_<<vreg, presented>>
  BY <1>1, <1>3 DEF ConfigureHigh, IInv, TypeOK, MastersAhead
<1>4. ASSUME NEW i \in Instruction, NEW reset \in BOOLEAN, InstructionLow(i, reset)
      PROVE IInv' /\ [Elementwise!Next]_<<vreg, presented>>
  <2>1. /\ presented' \in Elementwise!Request
        /\ master' = Elementwise!After(presented', vreg)
        /\ UNCHANGED <<vreg, config, configMaster>>
    BY <1>1, <1>4, InstructionRequested DEF InstructionLow
  <2> QED
    BY <1>1, <2>1 DEF IInv, TypeOK, MastersAhead, Elementwise!Next, Elementwise!Present
<1>5. ASSUME NEW r \in Register, NEW v \in Vector, NEW reset \in BOOLEAN, WriteLow(r, v, reset)
      PROVE IInv' /\ [Elementwise!Next]_<<vreg, presented>>
  <2>1. /\ presented' \in Elementwise!Request
        /\ master' = Elementwise!After(presented', vreg)
        /\ UNCHANGED <<vreg, config, configMaster>>
    BY <1>1, <1>5, WriteRequested DEF WriteLow
  <2> QED
    BY <1>1, <2>1 DEF IInv, TypeOK, MastersAhead, Elementwise!Next, Elementwise!Present
<1>6. ASSUME High
      PROVE IInv' /\ [Elementwise!Next]_<<vreg, presented>>
  <2>1. vreg' = Elementwise!After(presented, vreg) /\ presented' = Hold
    BY <1>1, <1>6 DEF High, MastersAhead
  <2>2. vreg' \in [Register -> Vector]
    BY <1>1, <2>1, AfterTyped DEF TypeOK
  <2>3. Elementwise!Edge
    BY <2>1, SameNames DEF Elementwise!Edge
  <2>4. presented' \in Elementwise!Request
    BY <2>1, SameNames DEF Elementwise!Request
  <2>5. TypeOK'
    BY <1>1, <1>6, <2>2, <2>4 DEF TypeOK, High
  <2>6. MastersAhead'
    BY <1>6, <2>1, AfterHold DEF MastersAhead, High
  <2> QED
    BY <2>3, <2>5, <2>6 DEF IInv, Elementwise!Next
<1>7. ASSUME NEW reset \in BOOLEAN, IdleLow(reset)
      PROVE IInv' /\ [Elementwise!Next]_<<vreg, presented>>
  <2>1. /\ presented' \in Elementwise!Request
        /\ master' = Elementwise!After(presented', vreg)
        /\ UNCHANGED <<vreg, config, configMaster>>
    BY <1>1, <1>7, IdleRequested DEF IdleLow
  <2> QED
    BY <1>1, <2>1 DEF IInv, TypeOK, MastersAhead, Elementwise!Next, Elementwise!Present
<1>8. ASSUME UNCHANGED vars
      PROVE IInv' /\ [Elementwise!Next]_<<vreg, presented>>
  BY <1>1, <1>8 DEF vars, IInv, TypeOK, MastersAhead
<1> QED
  BY <1>2, <1>3, <1>4, <1>5, <1>6, <1>7, <1>8 DEF Next

-----------------------------------------------------------------------------
(* The masters hold what the instruction presented last makes of the        *)
(* registers, after any sequence of calls.                                  *)
THEOREM VectorInvariant == Spec => []IInv
<1>1. Init => IInv
  BY InitKeeps
<1>2. IInv /\ [Next]_vars => IInv'
  BY NextKeeps
<1> QED
  BY <1>1, <1>2, PTL DEF Spec

(* vl never exceeds what vtype allows, in the registers and in their        *)
(* masters: reset, invalid widths and unknown inputs included.              *)
THEOREM LengthAlwaysFits == Spec => []LengthFitsWidth
<1>1. IInv => LengthFitsWidth
  <2> SUFFICES ASSUME NEW c \in Configuration
               PROVE c.vtype \in 0 .. 2 /\ c.vl \in 0 .. VLMAX(c.vtype)
    BY DEF IInv, TypeOK, LengthFitsWidth
  <2> QED
    BY DEF Configuration, VLMAX
<1> QED
  BY <1>1, VectorInvariant, PTL

(* The datapath behind its latches executes every vector instruction once,  *)
(* element by element, on the registers of the edge.                        *)
THEOREM VectorImplementsElementwise == Spec => ImplementsElementwise
<1>1. Init => Elementwise!Init
  BY InitKeeps
<1>2. IInv /\ [Next]_vars => [Elementwise!Next]_<<vreg, presented>>
  BY NextKeeps
<1> QED
  BY <1>1, <1>2, VectorInvariant, PTL DEF Spec, ImplementsElementwise, Elementwise!Spec
=============================================================================
