---------------------------- MODULE PersistentMemory ----------------------------
(***************************************************************************)
(* What a write-back cache in front of a memory promises: reads return the *)
(* value written last, the memory underneath takes over values at times    *)
(* nobody can predict, flush() makes it take over all of them, and reset() *)
(* loses what it has not taken over.                                       *)
(***************************************************************************)
EXTENDS Integers

CONSTANTS Address, Words

VARIABLES store,      \* what a read returns
          saved,      \* what the memory underneath holds
          answer      \* what the last call returned

vars == <<store, saved, answer>>

Answer(v) == [ok |-> TRUE, value |-> v]
Rejected  == [ok |-> FALSE, value |-> 0]

Init == /\ saved \in [Address -> Words]
        /\ store = saved
        /\ answer = Rejected

(* Any words may be written back along with a call. *)
SomeWritebacks == /\ saved' \in [Address -> Words]
                  /\ \A a \in Address : saved'[a] \in {saved[a], store[a]}

Read(a) == /\ answer' = Answer(store[a])
           /\ SomeWritebacks
           /\ UNCHANGED store

Write(a, v) == /\ store' = [store EXCEPT ![a] = v]
               /\ answer' = Answer(v)
               /\ SomeWritebacks

Reject == answer' = Rejected /\ UNCHANGED <<store, saved>>

Flush == saved' = store /\ UNCHANGED <<store, answer>>

Reset == store' = saved /\ UNCHANGED <<saved, answer>>

Next == \/ \E a \in Address : Read(a) \/ (\E v \in Words : Write(a, v))
        \/ Reject
        \/ Flush
        \/ Reset

Spec == Init /\ [][Next]_vars
=============================================================================
