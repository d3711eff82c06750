---------------------------- MODULE InstructionFetch ----------------------------
(***************************************************************************)
(* The instruction fetch of superscalar/core with its cache: FetchUnit,    *)
(* the two-ported InstructionCacheLine and the refill machine              *)
(* InstructionCacheController, joined to the instruction memory the way    *)
(* tests/superscalar/test_fetch_icache_integration.cpp does.  An action is *)
(* one clock cycle.  Addresses count instructions.                         *)
(***************************************************************************)
EXTENDS DirectMapped

CONSTANTS AddressWords, RomWords, Rom,
          RefillWords,      \* values of the refill word counter, 2^RefillWordBits
          MaxDisturbances   \* bounds resets and invalidations together

(* The counter is wide enough to tell the words of a line apart.            *)
ASSUME FetchAssumption == /\ AddressWords \in Nat \ {0} /\ RomWords \in Nat \ {0}
                          /\ RefillWords \in Nat /\ WordsPerLine <= RefillWords

VARIABLES pc, ilines,
          state, line_base, refill_word, refill_buffer,     \* the controller
          fetched,                                          \* the last bundle taken
          disturbances

controller == <<state, line_base, refill_word, refill_buffer>>
fetchVars == <<pc, ilines, state, line_base, refill_word, refill_buffer, fetched, disturbances>>

FetchAddress == 0 .. AddressWords - 1

State == {"IDLE", "REFILL_REQUEST", "REFILL_WAIT", "INSTALL", "COMPLETE"}

(* The instruction memory sees only the low bits of an address. *)
RomAt(a) == Rom[a % RomWords]

Plus(a, n) == (a + n) % AddressWords

EmptyInstructionLine == [valid |-> FALSE, tag |-> 0, words |-> [w \in Offset |-> 0]]

FetchInit == /\ pc = 0
             /\ ilines = [i \in Line |-> EmptyInstructionLine]
             /\ state = "IDLE" /\ line_base = 0 /\ refill_word = 0
             /\ refill_buffer = [w \in Offset |-> 0]
             /\ fetched = <<>>
             /\ disturbances = 0

(* Faulty: any valid line will do. *)
HitAnyTag(a) == ilines[LineOf(a)].valid

FetchHit(a) == ilines[LineOf(a)].valid /\ ilines[LineOf(a)].tag = TagOf(a)

(* FetchUnit::get_bundle with both lanes valid. *)
Lane(a) == [pc |-> a, instruction |-> ilines[LineOf(a)].words[OffsetOf(a)]]
Bundle  == <<Lane(pc), Lane(Plus(pc, 1))>>

(* Nothing to refill and both lanes hit: fetch does not stall. *)
BothHit == FetchHit(pc) /\ FetchHit(Plus(pc, 1))

(* Lane 0 is served first when both lanes miss. *)
MissAddress == IF ~FetchHit(pc) THEN pc ELSE Plus(pc, 1)

Deliver == /\ state = "IDLE" /\ BothHit
           /\ fetched' = Bundle
           /\ pc' = Plus(pc, 2)
           /\ UNCHANGED <<ilines, controller, disturbances>>

(* Faulty: the refill starts in the middle of the line. *)
UnalignedBase(a) == a

LineBase(a) == BlockOf(a) * WordsPerLine

StartRefill == /\ state = "IDLE" /\ ~BothHit
               /\ line_base' = LineBase(MissAddress)
               /\ refill_word' = 0
               /\ state' = "REFILL_REQUEST"
               /\ UNCHANGED <<pc, ilines, refill_buffer, fetched, disturbances>>

Request == /\ state = "REFILL_REQUEST"
           /\ state' = "REFILL_WAIT"
           /\ UNCHANGED <<pc, ilines, line_base, refill_word, refill_buffer, fetched, disturbances>>

(* Faulty: every word of the line is read from its first address. *)
FirstAddress == line_base

RefillAddress == line_base + refill_word

Received == [refill_buffer EXCEPT ![refill_word] = RomAt(RefillAddress)]

(* Faulty: one word too many. *)
LastWordLate == refill_word >= WordsPerLine

LastWord == refill_word + 1 >= WordsPerLine

(* The memory answers in a cycle of its choice; until then nothing changes. *)
(* That a line is complete is seen before the counter is cut to its width.  *)
ReceiveWord == /\ state = "REFILL_WAIT"
               /\ refill_buffer' = Received
               /\ refill_word' = (refill_word + 1) % RefillWords
               /\ state' = IF LastWord THEN "INSTALL" ELSE "REFILL_REQUEST"
               /\ UNCHANGED <<pc, ilines, line_base, fetched, disturbances>>

(* Faulty: the line number is cut out of the address one field too low. *)
LowIndex == line_base % NumLines

RefillIndex == LineOf(line_base)

RefilledLines ==
    [ilines EXCEPT ![RefillIndex] =
        [valid |-> TRUE, tag |-> TagOf(line_base), words |-> refill_buffer]]

Install == /\ state = "INSTALL"
           /\ ilines' = RefilledLines
           /\ state' = "COMPLETE"
           /\ UNCHANGED <<pc, line_base, refill_word, refill_buffer, fetched, disturbances>>

CompleteRefill == /\ state = "COMPLETE"
                  /\ state' = "IDLE"
                  /\ UNCHANGED <<pc, ilines, line_base, refill_word, refill_buffer, fetched, disturbances>>

(* A cycle with reset high.  It loads the registers with zeros; the refill  *)
(* buffer and the lines are no registers and take what the controller's     *)
(* current state gives them all the same.                                   *)
ResetCycle == /\ disturbances < MaxDisturbances
              /\ disturbances' = disturbances + 1
              /\ pc' = 0 /\ state' = "IDLE" /\ line_base' = 0 /\ refill_word' = 0
              /\ refill_buffer' \in IF state = "REFILL_WAIT" THEN {refill_buffer, Received}
                                                             ELSE {refill_buffer}
              /\ ilines' = IF state = "INSTALL" THEN RefilledLines ELSE ilines
              /\ UNCHANGED fetched

(* InstructionCacheLine::invalidate, called between two cycles. *)
Invalidate == /\ disturbances < MaxDisturbances
              /\ disturbances' = disturbances + 1
              /\ ilines' = [i \in Line |-> [ilines[i] EXCEPT !.valid = FALSE]]
              /\ UNCHANGED <<pc, controller, fetched>>

Cycle == Deliver \/ StartRefill \/ Request \/ ReceiveWord \/ Install \/ CompleteRefill

FetchNext == Cycle \/ ResetCycle \/ Invalidate

FetchSpec == FetchInit /\ [][FetchNext]_fetchVars

FetchFairSpec == FetchSpec /\ WF_fetchVars(Cycle)

-----------------------------------------------------------------------------
Instruction == {0} \cup {Rom[i] : i \in 0 .. RomWords - 1}

InstructionLine == [valid : BOOLEAN, tag : Nat, words : [Offset -> Instruction]]

(* Lines and buffer hold instructions; a refill starts at the first word of *)
(* a line and asks for no word behind its end.                              *)
FetchTypeOK == /\ pc \in FetchAddress /\ state \in State
               /\ ilines \in [Line -> InstructionLine]
               /\ refill_buffer \in [Offset -> Instruction]
               /\ line_base \in Nat /\ OffsetOf(line_base) = 0
               /\ refill_word \in 0 .. WordsPerLine
               /\ state \in {"REFILL_REQUEST", "REFILL_WAIT"} => refill_word < WordsPerLine

(* The words received so far are those of the line being refilled, also     *)
(* when a reset has cut an earlier refill short; all of them are there when *)
(* the line is installed.                                                   *)
RefillMatchesRom ==
    state \in {"REFILL_REQUEST", "REFILL_WAIT", "INSTALL"} =>
        \A w \in Offset : (state = "INSTALL" \/ w < refill_word) =>
            refill_buffer[w] = RomAt(line_base + w)

(* Whatever address hits gets its own instruction. *)
LinesMatchRom ==
    \A a \in FetchAddress : FetchHit(a) => ilines[LineOf(a)].words[OffsetOf(a)] = RomAt(a)

Stream == INSTANCE InstructionStream

(* The bundles taken are the program, in order, nothing left out or twice,  *)
(* whatever refills, resets and invalidations happened in between.          *)
DeliversProgram == Stream!Spec

(* Every miss ends with both lanes hitting: fetch goes on for ever.         *)
KeepsFetching == Stream!Live
=============================================================================
