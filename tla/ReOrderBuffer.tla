---------------------------- MODULE ReOrderBuffer ----------------------------
(***************************************************************************)
(* The reorder buffer of the superscalar CPU under any sequence of calls   *)
(* its users make: DispatchUnit allocates, the execution units complete    *)
(* (also with the index of an instruction squashed meanwhile), CommitUnit  *)
(* retires, BranchRecoveryUnit squashes, the CPU resets.                   *)
(* squash(vector) has no caller in the repository and is left out.         *)
(***************************************************************************)
EXTENDS RobOps, Sequences

CONSTANT Payload        \* what an instruction carries; abstract here

VARIABLE rob

RobInit == rob = ResetRob

AllocateEntry(d) == /\ ~Full(rob)
                    /\ rob' = Allocate(rob, d)

CompleteEntry(i) == rob' = Complete(rob, i)

CommitHead == /\ CanCommit(rob)
              /\ rob' = Commit(rob)

SquashAfter(b) == rob' = SquashYoungerThan(rob, b)

RobReset == rob' = ResetRob

RobNext == \/ \E d \in Payload : AllocateEntry(d)
           \/ \E i \in Index : CompleteEntry(i)
           \/ \E b \in Index : SquashAfter(b)
           \/ CommitHead
           \/ RobReset

RobSpec == RobInit /\ [][RobNext]_rob

-----------------------------------------------------------------------------
Entry == [valid : BOOLEAN, completed : BOOLEAN, data : Payload \cup {NoData}]

Ring == [slot  : [Index -> Entry],
         head  : Index,
         tail  : Index,
         count : 0 .. Capacity]

(* Every slot is an entry and head, tail and count stay inside the ring:    *)
(* no sequence of calls drives an index of ReOrderBuffer.hpp out of range.  *)
RobTypeOK == rob \in Ring

(* The three ways the code tells which slots are in use agree after any     *)
(* history of wrap-arounds and squashes: the valid flags, the count walked  *)
(* from the head, and the place where the tail will write next.             *)
RobWindow == /\ \A i \in Index : rob.slot[i].valid <=> InWindow(rob, i)
             /\ rob.tail = (rob.head + rob.count) % Capacity

(* No slot carries a completion flag of an earlier occupant: what is not in *)
(* use is not completed, so an allocated instruction cannot retire at once. *)
FreeSlotsAreClean == \A i \in Index : ~InWindow(rob, i) => rob.slot[i] = EmptyEntry

RobIInv == RobTypeOK /\ RobWindow /\ FreeSlotsAreClean

-----------------------------------------------------------------------------
(* The ring read from the head is the queue of InOrderWindow. *)
FlightOf(r) == [k \in 1 .. r.count |->
                   LET e == r.slot[SlotAt(r, k)]
                   IN  [data |-> e.data, done |-> e.completed]]

Flight == FlightOf(rob)

Queue == INSTANCE InOrderWindow WITH Size <- Capacity, flight <- Flight

(* The ring buffer implements the in-order queue: program order is kept     *)
(* over wrap-around, only a completed oldest instruction retires, and a     *)
(* misprediction removes exactly the instructions younger than the branch.  *)
ImplementsQueue == Queue!Spec
=============================================================================
