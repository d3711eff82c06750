----------------------------- MODULE PredictorOps -----------------------------
(***************************************************************************)
(* The branch predictor as a value: a table of two-bit counters and branch *)
(* targets indexed by the low bits of the instruction's slot number        *)
(* (superscalar/core/branch/BranchPredictor.hpp).                          *)
(***************************************************************************)
EXTENDS Integers

CONSTANT BPTableSize

NoTag == -1

WeakNotTaken == 1

ResetPredictor ==
    [i \in 0 .. BPTableSize - 1 |-> [counter |-> WeakNotTaken, tag |-> NoTag, target |-> 0]]

Hash(pc) == (pc \div 4) % BPTableSize

Predict(bp, pc) ==
    LET e == bp[Hash(pc)]
        hit == e.tag = pc
    IN  [taken |-> e.counter >= 2, target |-> IF hit THEN e.target ELSE 0, hit |-> hit]

(* Faulty: the counter does not saturate. *)
UpdateUnsaturated(bp, pc, taken, target) ==
    [bp EXCEPT ![Hash(pc)] =
        IF taken THEN [counter |-> @.counter + 1, tag |-> pc, target |-> target]
        ELSE [@ EXCEPT !.counter = @ - 1]]

Update(bp, pc, taken, target) ==
    LET e == bp[Hash(pc)]
    IN  [bp EXCEPT ![Hash(pc)] =
            IF taken
            THEN [counter |-> IF e.counter < 3 THEN e.counter + 1 ELSE 3,
                  tag |-> pc, target |-> target]
            ELSE [e EXCEPT !.counter = IF e.counter > 0 THEN e.counter - 1 ELSE 0]]
=============================================================================
