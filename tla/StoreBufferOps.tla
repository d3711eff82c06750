---------------------------- MODULE StoreBufferOps ----------------------------
(***************************************************************************)
(* The store buffer as a value: the stores that have not reached memory,   *)
(* in program order, with one operator per member function of StoreBuffer  *)
(* (superscalar/core/commit/StoreBuffer.hpp).  ready stands for the pair   *)
(* address_ready, data_ready, which update always sets together.           *)
(***************************************************************************)
EXTENDS Queues, SequencesExt

CONSTANT SBCapacity

StoreEntry(r) == [rob |-> r, addr |-> 0, data |-> 0, ready |-> FALSE, committed |-> FALSE]

FindStore(b, r) == SelectInSeq(b, LAMBDA e : e.rob = r)

(* The result is not looked at by the CPU: a full buffer drops the store. *)
SBAllocate(b, r) == IF Len(b) < SBCapacity THEN Append(b, StoreEntry(r)) ELSE b

SBUpdate(b, r, a, d) ==
    LET i == FindStore(b, r)
    IN  IF i = 0 THEN b ELSE [b EXCEPT ![i].addr = a, ![i].data = d, ![i].ready = TRUE]

MarkCommitted(b, r) ==
    LET i == FindStore(b, r) IN IF i = 0 THEN b ELSE [b EXCEPT ![i].committed = TRUE]

(* Faulty: the last store is never popped. *)
CanPopUnlessLast(b) == Len(b) > 1 /\ Head(b).committed

(* pop_committed takes the oldest store, and only when it has committed. *)
CanPop(b) == b # << >> /\ Head(b).committed

SBSquash(b, indices) ==
    SubQueue(b, {k \in DOMAIN b : b[k].committed \/ b[k].rob \notin indices})
=============================================================================
