---------------------------- MODULE InOrderWindow ----------------------------
(***************************************************************************)
(* What a reorder buffer promises, without a ring: the instructions in     *)
(* flight form a queue in program order; each may finish at any time; only *)
(* the oldest leaves, and only finished; a flush cuts the young end.       *)
(***************************************************************************)
EXTENDS Naturals, Sequences

CONSTANTS Payload, Size

VARIABLE flight     \* the instructions in flight, oldest first

Enter(d) == /\ Len(flight) < Size
            /\ flight' = Append(flight, [data |-> d, done |-> FALSE])

Finish(k) == flight' = [flight EXCEPT ![k].done = TRUE]

Retire == /\ flight # << >>
          /\ Head(flight).done
          /\ flight' = Tail(flight)

FlushAfter(k) == flight' = SubSeq(flight, 1, k)

Init == flight = << >>

Next == \/ \E d \in Payload : Enter(d)
        \/ \E k \in 1 .. Len(flight) : Finish(k) \/ FlushAfter(k)
        \/ Retire
        \/ flight' = << >>

Spec == Init /\ [][Next]_flight
=============================================================================
