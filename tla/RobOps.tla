------------------------------- MODULE RobOps -------------------------------
(***************************************************************************)
(* The reorder buffer as a value: a record of Capacity slots used as a     *)
(* ring, and one operator per member function of ReOrderBuffer             *)
(* (superscalar/core/dispatch/ReOrderBuffer.hpp).  The ReOrderBuffer       *)
(* module makes a state machine of them; the whole CPU uses the same       *)
(* operators on its own reorder buffer.                                    *)
(*                                                                         *)
(* A slot is a record [valid, completed, data]: data stands for what the   *)
(* instruction carries (pc, registers, checkpoint); NoData is what Entry{} *)
(* holds.                                                                  *)
(***************************************************************************)
EXTENDS Integers

CONSTANTS Capacity,     \* the template parameter Capacity
          NoData

ASSUME CapacityAssumption == Capacity \in Nat \ {0}

Index == 0 .. Capacity - 1

EmptyEntry == [valid |-> FALSE, completed |-> FALSE, data |-> NoData]

ResetRob == [slot  |-> [i \in Index |-> EmptyEntry],
             head  |-> 0,
             tail  |-> 0,
             count |-> 0]

Empty(rob) == rob.count = 0
Full(rob)  == rob.count = Capacity

(* Faulty: the wrap-around is missing. *)
NextIndexUnwrapped(i) == i + 1

NextIndex(i) == (i + 1) % Capacity

(* How many next_index steps lead from the head to slot i. *)
Position(rob, i) == (i - rob.head) % Capacity

(* The slot of the k-th oldest instruction, the other way round. *)
SlotAt(rob, k) == (rob.head + k - 1) % Capacity

(* The slots the ring holds, whatever their valid flags say. *)
InWindow(rob, i) == Position(rob, i) < rob.count

(* Faulty: does not wait for the result. *)
CanCommitUnfinished(rob) == ~Empty(rob) /\ rob.slot[rob.head].valid

(* The head can retire: it is there and its result has been written. *)
CanCommit(rob) == /\ ~Empty(rob)
                  /\ rob.slot[rob.head].valid
                  /\ rob.slot[rob.head].completed

(* Only called when the buffer is not full. *)
Allocate(rob, data) ==
    [slot  |-> [rob.slot EXCEPT ![rob.tail] =
                   [valid |-> TRUE, completed |-> FALSE, data |-> data]],
     head  |-> rob.head,
     tail  |-> NextIndex(rob.tail),
     count |-> rob.count + 1]

(* Faulty: writes the flag of a slot that has been squashed meanwhile. *)
CompleteUnchecked(rob, i) ==
    [rob EXCEPT !.slot = [@ EXCEPT ![i] = [@ EXCEPT !.completed = TRUE]]]

(* A result for a slot that has been squashed meanwhile is dropped. *)
Complete(rob, i) ==
    [slot  |-> [j \in Index |->
                   IF j = i /\ rob.slot[i].valid
                   THEN [valid |-> TRUE, completed |-> TRUE, data |-> rob.slot[i].data]
                   ELSE rob.slot[j]],
     head  |-> rob.head,
     tail  |-> rob.tail,
     count |-> rob.count]

(* Only called when CanCommit holds. *)
Commit(rob) ==
    [slot  |-> [rob.slot EXCEPT ![rob.head] = EmptyEntry],
     head  |-> NextIndex(rob.head),
     tail  |-> rob.tail,
     count |-> rob.count - 1]

(* Faulty: compares slot numbers, as if the ring never wrapped. *)
YoungerByIndex(rob, b) == {i \in Index : InWindow(rob, i) /\ i > b}

(* The slots younger than branch b, and the same in program order. *)
Younger(rob, b) ==
    {i \in Index : InWindow(rob, i) /\ Position(rob, i) > Position(rob, b)}

YoungerCount(rob, b) == rob.count - Position(rob, b) - 1

YoungerSeq(rob, b) ==
    [k \in 1 .. YoungerCount(rob, b) |-> (b + k) % Capacity]

(* Squash everything younger than b; nothing happens when b is not held. *)
SquashYoungerThan(rob, b) ==
    IF InWindow(rob, b)
    THEN [slot  |-> [i \in Index |-> IF i \in Younger(rob, b) THEN EmptyEntry
                                     ELSE rob.slot[i]],
          head  |-> rob.head,
          tail  |-> NextIndex(b),
          count |-> rob.count - YoungerCount(rob, b)]
    ELSE rob
=============================================================================
