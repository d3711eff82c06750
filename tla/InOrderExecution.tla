-------------------------- MODULE InOrderExecution --------------------------
(***************************************************************************)
(* What an out-of-order integer back end promises, without renaming, issue *)
(* queue or reorder buffer: instructions enter in program order, one or    *)
(* two at a time, and take effect on the architectural registers one after *)
(* the other when they retire.  A branch may be decided at any time before *)
(* it retires, out of order and ahead of the values it reads, but it       *)
(* retires only if it was decided the way the registers say by then; a     *)
(* branch decided against its prediction takes along what is behind it.    *)
(***************************************************************************)
EXTENDS Integers, Sequences

CONSTANTS Reg,              \* the architectural registers
          Instruction,      \* the instructions that may enter
          Alu(_, _, _),     \* what an instruction makes of its two operands
          Taken(_, _, _)    \* which way they send a branch

VARIABLES flight,   \* the instructions in flight, oldest first
          regs      \* the architectural registers

(* What instruction i reads where its first and second operand are.         *)
First(i, r)  == IF i.use1 THEN r[i.rs1] ELSE 0
Second(i, r) == IF i.use2 THEN r[i.rs2] ELSE 0

(* An instruction in flight with the decision of its branch, empty as long  *)
(* as there is none. *)
Undecided(i) == [ins |-> i, decided |-> {}]

Init == /\ flight = << >>
        /\ regs = [r \in Reg |-> 0]

EnterOne(i) == /\ flight' = Append(flight, Undecided(i))
               /\ UNCHANGED regs

EnterTwo(i, j) == /\ flight' = Append(Append(flight, Undecided(i)), Undecided(j))
                  /\ UNCHANGED regs

(* Branch k goes the way taken. *)
Decide(k, taken) ==
    LET marked == [flight EXCEPT ![k] = [ins |-> flight[k].ins, decided |-> {taken}]]
    IN  /\ flight[k].ins.branch
        /\ flight[k].decided = {}
        /\ flight' = IF taken = flight[k].ins.predicted THEN marked
                     ELSE SubSeq(marked, 1, k)
        /\ UNCHANGED regs

(* The oldest instruction of f may take effect on the registers r, and the  *)
(* registers it leaves. *)
MayRetire(f, r) ==
    /\ f # << >>
    /\ LET i == Head(f).ins
       IN  i.branch => Head(f).decided = {Taken(i, First(i, r), Second(i, r))}

Effect(i, r) == IF i.write THEN [r EXCEPT ![i.rd] = Alu(i, First(i, r), Second(i, r))]
                ELSE r

RetireOne == /\ MayRetire(flight, regs)
             /\ regs' = Effect(Head(flight).ins, regs)
             /\ flight' = Tail(flight)

RetireTwo == LET between == Effect(Head(flight).ins, regs)
             IN  /\ MayRetire(flight, regs)
                 /\ MayRetire(Tail(flight), between)
                 /\ regs' = Effect(Head(Tail(flight)).ins, between)
                 /\ flight' = Tail(Tail(flight))

Next == \/ \E i \in Instruction : EnterOne(i)
        \/ \E i, j \in Instruction : EnterTwo(i, j)
        \/ \E k \in 1 .. Len(flight), taken \in BOOLEAN : Decide(k, taken)
        \/ RetireOne
        \/ RetireTwo

Spec == Init /\ [][Next]_<<flight, regs>>
=============================================================================
