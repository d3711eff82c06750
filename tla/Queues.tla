-------------------------------- MODULE Queues --------------------------------
(***************************************************************************)
(* What the superscalar units do with their queues and lanes, as           *)
(* SelectSeq and FoldLeft would say it, but without recursion, so that     *)
(* proofs can speak of it.                                                 *)
(***************************************************************************)
EXTENDS Integers, Sequences, FiniteSets

(* The entries of a queue at some positions, in their order. *)
SubQueue(q, positions) ==
    [n \in 1 .. Cardinality(positions) |->
        q[CHOOSE k \in positions : Cardinality({j \in positions : j <= k}) = n]]

(* A loop over the lanes: the machine is two instructions wide everywhere. *)
ForEach(Step(_, _), s, lanes) ==
    CASE Len(lanes) = 0 -> s
      [] Len(lanes) = 1 -> Step(s, lanes[1])
      [] Len(lanes) = 2 -> Step(Step(s, lanes[1]), lanes[2])
=============================================================================
