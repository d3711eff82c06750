------------------------------- MODULE LsqOps -------------------------------
(***************************************************************************)
(* The load/store queue as a value: the sequence of the loads and stores   *)
(* in flight in program order, with one operator per member function of    *)
(* LoadStoreQueue (superscalar/core/memory/LoadStoreQueue.hpp).  Unknown   *)
(* stands for an address_valid or data_valid flag that is not set.         *)
(***************************************************************************)
EXTENDS Queues, SequencesExt, FiniteSetsExt

CONSTANT LSQCapacity

Unknown == -1

LsqEntry(type, r) == [type |-> type, rob |-> r, addr |-> Unknown, data |-> Unknown,
                      executed |-> FALSE]

(* The first entry of reorder-buffer slot r, 0 when there is none. *)
Find(q, r) == SelectInSeq(q, LAMBDA e : e.rob = r)

(* The result is not looked at by the CPU: a full queue drops the entry. *)
LsqAllocate(q, type, r) ==
    IF Len(q) < LSQCapacity THEN Append(q, LsqEntry(type, r)) ELSE q

SetAddress(q, r, a) ==
    LET i == Find(q, r) IN IF i = 0 THEN q ELSE [q EXCEPT ![i].addr = a]

(* set_store_data and mark_executed of a store *)
SetStoreData(q, r, d) ==
    LET i == Find(q, r)
    IN  IF i = 0 THEN q
        ELSE [q EXCEPT ![i].executed = TRUE,
                       ![i].data = IF q[i].type = "STORE" THEN d ELSE @]

(* complete_load and mark_executed of a load *)
CompleteLoad(q, r, d) ==
    LET i == Find(q, r)
    IN  IF i = 0 THEN q
        ELSE [q EXCEPT ![i].executed = TRUE,
                       ![i].data = IF q[i].type = "LOAD" THEN d ELSE @]

(* Faulty: a load passes stores whose address is not known yet. *)
BlockingStoreSameAddress(q, i) ==
    Max({0} \cup {j \in 1 .. i - 1 : q[j].type = "STORE" /\ q[j].addr = q[i].addr})

(* Faulty: the oldest matching store forwards, not the youngest. *)
BlockingStoreOldest(q, i) ==
    LET stores == {j \in 1 .. i - 1 : /\ q[j].type = "STORE"
                                      /\ q[j].addr \in {Unknown, q[i].addr}}
    IN  IF stores = {} THEN 0 ELSE Min(stores)

(* The youngest store older than entry i that stops its search through the  *)
(* queue: same address, or address not known yet.  0 when there is none.    *)
BlockingStore(q, i) ==
    Max({0} \cup {j \in 1 .. i - 1 : /\ q[j].type = "STORE"
                                     /\ q[j].addr \in {Unknown, q[i].addr}})

(* execute_load: where the load of slot r gets its value from. *)
LoadResult(q, r) ==
    LET i == Find(q, r)
        j == IF i = 0 \/ q[i].addr = Unknown THEN 0 ELSE BlockingStore(q, i)
    IN  [hit  |-> j # 0 /\ q[j].addr # Unknown /\ q[j].data # Unknown,
         wait |-> j # 0 /\ Unknown \in {q[j].addr, q[j].data},
         data |-> IF j = 0 THEN Unknown ELSE q[j].data]

(* check_order_violation: a younger load has already read this address. *)
OrderViolation(q, r) ==
    LET i == Find(q, r)
    IN  /\ i # 0
        /\ q[i].addr # Unknown
        /\ \E j \in i + 1 .. Len(q) : /\ q[j].type = "LOAD"
                                      /\ q[j].executed
                                      /\ q[j].addr = q[i].addr

(* Faulty: retired stores stay. *)
LsqRemoveLoadsOnly(q, r) ==
    LET i == Find(q, r) IN IF i = 0 \/ q[i].type = "STORE" THEN q ELSE RemoveAt(q, i)

LsqRemove(q, r) ==
    LET i == Find(q, r) IN IF i = 0 THEN q ELSE RemoveAt(q, i)

LsqSquash(q, indices) == SubQueue(q, {k \in DOMAIN q : q[k].rob \notin indices})
=============================================================================
