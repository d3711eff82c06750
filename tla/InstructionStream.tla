--------------------------- MODULE InstructionStream ---------------------------
(***************************************************************************)
(* What an instruction fetch promises: the instructions of the ROM in      *)
(* pairs, in program order, none left out and none twice, from the start   *)
(* again after a reset.                                                    *)
(***************************************************************************)
EXTENDS Integers

CONSTANTS AddressWords, RomWords, Rom

VARIABLES pc,         \* the first instruction of the next pair
          fetched     \* the last pair handed over

vars == <<pc, fetched>>

RomAt(a)  == Rom[a % RomWords]
Plus(a, n) == (a + n) % AddressWords

Lane(a)  == [pc |-> a, instruction |-> RomAt(a)]
Pair(a)  == <<Lane(a), Lane(Plus(a, 1))>>

Init == pc = 0 /\ fetched = <<>>

Fetch == fetched' = Pair(pc) /\ pc' = Plus(pc, 2)

Restart == pc' = 0 /\ UNCHANGED fetched

Spec == Init /\ [][Fetch \/ Restart]_vars

Live == WF_vars(Fetch)
=============================================================================
