------------------------------- MODULE DataCache -------------------------------
(***************************************************************************)
(* The direct-mapped, write-back, write-allocate data cache of             *)
(* superscalar/core/memory/data/DataCache.hpp with the data memory behind  *)
(* it.  A byte address is represented by the word it lies in.  The         *)
(* statistics are left out.                                                *)
(***************************************************************************)
EXTENDS DirectMapped

CONSTANTS DataMemoryWords,
          Words         \* the values of a word

ASSUME SizeAssumption == DataMemoryWords \in Nat

ASSUME WordsAssumption == 0 \in Words

VARIABLES lines, memory,
          answer        \* what the last read or write returned

vars == <<lines, memory, answer>>

Address == 0 .. DataMemoryWords - 1

EmptyLine == [valid |-> FALSE, dirty |-> FALSE, tag |-> 0, words |-> [w \in Offset |-> 0]]

Answer(v) == [ok |-> TRUE, value |-> v]
Rejected  == [ok |-> FALSE, value |-> 0]

Init == /\ lines = [i \in Line |-> EmptyLine]
        /\ memory \in [Address -> Words]
        /\ answer = Rejected

Hit(a) == lines[LineOf(a)].valid /\ lines[LineOf(a)].tag = TagOf(a)

(* writeback_line: the memory with the words of line i in their places, as  *)
(* far as the memory reaches.                                               *)
BaseOf(i) == BaseFor(lines[i].tag, i)

Holds(i, a) == a - BaseOf(i) \in Offset

WriteBack(i) ==
    [a \in Address |-> IF Holds(i, a) THEN lines[i].words[a - BaseOf(i)] ELSE memory[a]]

Dirty(i) == lines[i].valid /\ lines[i].dirty

(* Faulty: the line is replaced without being written back. *)
EvictClean(i) == memory

(* refill_line, first half: the memory once line i may be replaced. *)
Evict(i) == IF Dirty(i) THEN WriteBack(i) ELSE memory

(* refill_line, second half: the line of word a, read from memory m. *)
Refilled(m, a) ==
    LET base == BlockOf(a) * WordsPerLine
    IN  [valid |-> TRUE, dirty |-> FALSE, tag |-> TagOf(a),
         words |-> [w \in Offset |-> IF base + w \in Address THEN m[base + w] ELSE 0]]

(* Faulty: only a write miss marks the line. *)
StoredClean(line, a, v) == [line EXCEPT !.words[OffsetOf(a)] = v]

Stored(line, a, v) == [line EXCEPT !.words[OffsetOf(a)] = v, !.dirty = TRUE]

ReadHit(a) == /\ Hit(a)
              /\ answer' = Answer(lines[LineOf(a)].words[OffsetOf(a)])
              /\ UNCHANGED <<lines, memory>>

ReadMiss(a) == /\ ~Hit(a)
               /\ memory' = Evict(LineOf(a))
               /\ LET line == Refilled(memory', a)
                  IN  /\ lines' = [lines EXCEPT ![LineOf(a)] = line]
                      /\ answer' = Answer(line.words[OffsetOf(a)])

WriteHit(a, v) == /\ Hit(a)
                  /\ lines' = [lines EXCEPT ![LineOf(a)] = Stored(lines[LineOf(a)], a, v)]
                  /\ answer' = Answer(v)
                  /\ UNCHANGED memory

WriteMiss(a, v) == /\ ~Hit(a)
                   /\ memory' = Evict(LineOf(a))
                   /\ lines' = [lines EXCEPT ![LineOf(a)] = Stored(Refilled(memory', a), a, v)]
                   /\ answer' = Answer(v)

(* A read or a write past the memory's end. *)
Outside == answer' = Rejected /\ UNCHANGED <<lines, memory>>

(* flush() writes back one dirty line after the other.  A word belongs to   *)
(* one line only, so all of them together give each word its line's value.  *)
(* The lines stay valid.                                                    *)
Flush == /\ memory' = [a \in Address |-> IF Dirty(LineOf(a)) THEN WriteBack(LineOf(a))[a]
                                         ELSE memory[a]]
         /\ lines' = [i \in Line |-> IF Dirty(i) THEN [lines[i] EXCEPT !.dirty = FALSE]
                                     ELSE lines[i]]
         /\ UNCHANGED answer

(* reset() drops the lines, dirty ones included. *)
Reset == /\ lines' = [i \in Line |-> EmptyLine]
         /\ UNCHANGED <<memory, answer>>

Next == \/ \E a \in Address : \/ ReadHit(a)
                              \/ ReadMiss(a)
                              \/ \E v \in Words : WriteHit(a, v) \/ WriteMiss(a, v)
        \/ Outside
        \/ Flush
        \/ Reset

Spec == Init /\ [][Next]_vars

-----------------------------------------------------------------------------
LineType == [valid : BOOLEAN, dirty : BOOLEAN, tag : Nat, words : [Offset -> Words]]

(* Every line and every word of the memory has its type, and a valid line   *)
(* holds a block that the memory reaches.                                   *)
TypeOK == /\ lines \in [Line -> LineType]
          /\ memory \in [Address -> Words]
          /\ answer \in [ok : BOOLEAN, value : Words]
          /\ \A i \in Line : lines[i].valid => BaseOf(i) \in Address

(* A valid line that is not dirty agrees with the memory, so that it may be *)
(* dropped without being written back.                                      *)
CleanLinesMatch ==
    \A a \in Address : Hit(a) /\ ~lines[LineOf(a)].dirty =>
                           lines[LineOf(a)].words[OffsetOf(a)] = memory[a]

(* The value of a word: the cached one if there is one. *)
Value(a) == IF Hit(a) THEN lines[LineOf(a)].words[OffsetOf(a)] ELSE memory[a]

Promised == INSTANCE PersistentMemory WITH
               store <- [a \in Address |-> Value(a)], saved <- memory

(* Reads return the last value written whatever was evicted in between, an  *)
(* eviction stores nothing but current values, flush() stores all of them.  *)
ImplementsMemory == Promised!Spec
=============================================================================
