---------------------------- MODULE IssueQueueOps ----------------------------
(***************************************************************************)
(* The issue queue as a value: IQCapacity slots that hold the instructions *)
(* waiting for their operands, with one operator per member function of    *)
(* IssueQueue (superscalar/core/issue/IssueQueue.hpp).  An entry carries   *)
(* its reorder-buffer slot rob and two operands op1 and op2, each          *)
(* [reg, ready, value].                                                    *)
(***************************************************************************)
EXTENDS Integers, Sequences, FiniteSetsExt

CONSTANT IQCapacity

IQSlot == 0 .. IQCapacity - 1

FreeSlot == [valid |-> FALSE]

ResetIQ == [i \in IQSlot |-> FreeSlot]

IQFull(iq) == \A i \in IQSlot : iq[i].valid

(* Only called when the queue is not full: the first free slot is taken. *)
Insert(iq, e) ==
    [iq EXCEPT ![Min({i \in IQSlot : ~iq[i].valid})] = e]

(* Faulty: an executed instruction stays. *)
RemoveSlotForgotten(iq, i) == iq

RemoveSlot(iq, i) == [iq EXCEPT ![i] = FreeSlot]

(* Entries whose operands have both arrived. *)
Ready(e) == e.valid /\ e.op1.ready /\ e.op2.ready

(* The first of some slots, the one a selection loop stops at; empty when   *)
(* there is none.                                                           *)
FirstSlot(slots) == {i \in slots : \A j \in slots : i <= j}

Waked(operand, p, v) ==
    IF ~operand.ready /\ operand.reg = p
    THEN [reg |-> p, ready |-> TRUE, value |-> v]
    ELSE operand

(* Faulty: the second source is never woken. *)
WakeupFirstSource(iq, p, v) ==
    [i \in IQSlot |-> IF iq[i].valid THEN [iq[i] EXCEPT !.op1 = Waked(@, p, v)] ELSE iq[i]]

(* A result on its way to register p reaches every operand waiting for it. *)
Wakeup(iq, p, v) ==
    [i \in IQSlot |->
        IF iq[i].valid
        THEN [iq[i] EXCEPT !.op1 = Waked(@, p, v), !.op2 = Waked(@, p, v)]
        ELSE iq[i]]

(* Faulty: squashed instructions stay. *)
IQSquashForgotten(iq, indices) == iq

IQSquash(iq, indices) ==
    [i \in IQSlot |-> IF iq[i].valid /\ iq[i].rob \in indices THEN FreeSlot ELSE iq[i]]
=============================================================================
