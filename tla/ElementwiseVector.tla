-------------------------- MODULE ElementwiseVector --------------------------
(***************************************************************************)
(* What a vector unit promises, without latches, multiplexers and clock    *)
(* levels: while the clock is low somebody says what is to be done, the    *)
(* last word counts, and the next edge does it once, to the registers as   *)
(* they are then.                                                          *)
(***************************************************************************)
EXTENDS Integers

CONSTANTS Register, Lane, Word,
          Length,               \* vector lengths
          Operation,
          LaneOp(_, _, _)       \* an operation on two words

VARIABLES regs,     \* the vector registers
          pending   \* what the next edge will do

Vector == [Lane -> Word]

Zero == [l \in Lane |-> 0]

Hold  == [kind |-> "hold"]
Clear == [kind |-> "clear"]

Write == [kind : {"write"}, rd : Register, data : Vector]

Execute == [kind : {"execute"}, op : Operation, rd : Register, rs1 : Register,
            rs2 : Register, vl : Length]

Request == {Hold, Clear} \cup Write \cup Execute

(* The registers once q has been done: elements from vl on are undisturbed. *)
After(q, r) ==
    CASE q.kind = "hold"    -> r
      [] q.kind = "clear"   -> [x \in Register |-> Zero]
      [] q.kind = "write"   -> [r EXCEPT ![q.rd] = q.data]
      [] q.kind = "execute" ->
            [r EXCEPT ![q.rd] = [l \in Lane |-> IF l < q.vl
                                                THEN LaneOp(q.op, r[q.rs1][l], r[q.rs2][l])
                                                ELSE r[q.rd][l]]]

Init == /\ regs = [x \in Register |-> Zero]
        /\ pending = Hold

Present == /\ pending' \in Request
           /\ UNCHANGED regs

Edge == /\ regs' = After(pending, regs)
        /\ pending' = Hold

Next == Present \/ Edge

Spec == Init /\ [][Next]_<<regs, pending>>
=============================================================================
