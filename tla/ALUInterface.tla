------------------------------ MODULE ALUInterface ------------------------------
(***************************************************************************)
(* The ALU that the pipelined and the multi-cycle datapath drive with a    *)
(* control signal (components/ALUInterface.hpp).                           *)
(***************************************************************************)
EXTENDS Isa

(* Faulty: the adder keeps its carry. *)
AluCarries(operation, a, b) ==
    CASE operation = "ADD"    -> a + b
      [] operation = "SUB"    -> (a - b) % WordMod
      [] operation = "AND"    -> BitAnd(a, b)
      [] operation = "OR"     -> BitOr(a, b)
      [] operation = "XOR"    -> BitXor(a, b)
      [] operation = "NOT"    -> WordMod - 1 - a
      [] operation = "PASS_B" -> b

Alu(operation, a, b) ==
    CASE operation = "ADD"    -> (a + b) % WordMod
      [] operation = "SUB"    -> (a - b) % WordMod
      [] operation = "AND"    -> BitAnd(a, b)
      [] operation = "OR"     -> BitOr(a, b)
      [] operation = "XOR"    -> BitXor(a, b)
      [] operation = "NOT"    -> WordMod - 1 - a
      [] operation = "PASS_B" -> b
=============================================================================
