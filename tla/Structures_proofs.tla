---------------------------- MODULE Structures_proofs ----------------------------
(***************************************************************************)
(* The structures of the superscalar sources on their own.  For every      *)
(* number of lines, line size, memory size and set of values the data      *)
(* cache keeps its invariants and implements PersistentMemory; for every   *)
(* geometry and every program the cached fetch delivers the program in     *)
(* order; for every capacity the reorder buffer implements InOrderWindow.  *)
(***************************************************************************)
EXTENDS DataCache, InstructionFetch, ReOrderBuffer, Arithmetic_proofs, SequenceTheorems, TLAPS

-----------------------------------------------------------------------------
(* The invariants and the value of a word. *)

IInv == TypeOK /\ CleanLinesMatch

(* Addresses count words from 0. *)
LEMMA AddressIsNat == Address \subseteq Nat
  BY SizeAssumption DEF Address

(* Line i holds word a if and only if it is the word's line and a hit.      *)
LEMMA HoldsIsHit ==
    ASSUME TypeOK, NEW a \in Address, NEW i \in Line
    PROVE  /\ Holds(i, a) <=> i = LineOf(a) /\ lines[i].tag = TagOf(a)
           /\ i = LineOf(a) /\ lines[i].tag = TagOf(a) => a - BaseOf(i) = OffsetOf(a)
<1>1. lines[i].tag \in Nat
  BY DEF TypeOK, LineType
<1>2. BaseOf(i) = BaseFor(lines[i].tag, i)
  BY DEF BaseOf, BaseFor
<1> QED
  BY <1>1, <1>2, LineHoldsItsWords, AddressIsNat DEF Holds

(* Every cached word has the type of a word. *)
LEMMA WordsTyped ==
    ASSUME TypeOK, NEW a \in Address
    PROVE  /\ lines[LineOf(a)].words[OffsetOf(a)] \in Words
           /\ lines[LineOf(a)] \in LineType
           /\ memory[a] \in Words
           /\ Value(a) \in Words
<1>1. LineOf(a) \in Line /\ OffsetOf(a) \in Offset
  BY Placement, AddressIsNat
<1>2. lines[LineOf(a)] \in LineType
  BY <1>1 DEF TypeOK
<1>3. lines[LineOf(a)].words[OffsetOf(a)] \in Words /\ memory[a] \in Words
  BY <1>1, <1>2 DEF TypeOK, LineType
<1> QED
  BY <1>2, <1>3 DEF Value

(* Once line i may be replaced the memory has the value of every word that  *)
(* belongs in line i, and has not changed anywhere else.                    *)
LEMMA EvictValue ==
    ASSUME IInv, NEW i \in Line
    PROVE  /\ Evict(i) \in [Address -> Words]
           /\ \A b \in Address : Evict(i)[b] = IF LineOf(b) = i THEN Value(b) ELSE memory[b]
<1> USE DEF IInv
<1>1. ASSUME NEW b \in Address
      PROVE  Evict(i)[b] = IF LineOf(b) = i THEN Value(b) ELSE memory[b]
  <2>1. CASE Dirty(i)
    <3>1. Evict(i)[b] = IF Holds(i, b) THEN lines[i].words[b - BaseOf(i)] ELSE memory[b]
      BY <2>1 DEF Evict, WriteBack
    <3>2. CASE LineOf(b) = i
      BY <2>1, <3>1, <3>2, HoldsIsHit DEF Value, Hit, Dirty
    <3>3. CASE LineOf(b) # i
      BY <3>1, <3>3, HoldsIsHit
    <3> QED
      BY <3>2, <3>3
  <2>2. CASE ~Dirty(i)
    <3>1. Evict(i)[b] = memory[b]
      BY <2>2 DEF Evict
    <3>2. LineOf(b) = i => Value(b) = memory[b]
      BY <2>2 DEF Value, Hit, Dirty, CleanLinesMatch
    <3> QED
      BY <3>1, <3>2
  <2> QED
    BY <2>1, <2>2
<1>2. Evict(i) = [b \in Address |-> Evict(i)[b]]
  BY DEF Evict, WriteBack, TypeOK
<1>3. \A b \in Address : Evict(i)[b] \in Words
  BY <1>1, WordsTyped
<1> QED
  BY <1>1, <1>2, <1>3

(* A refilled line holds its block as it is in memory. *)
LEMMA RefilledValue ==
    ASSUME NEW a \in Address, NEW m \in [Address -> Words]
    PROVE  /\ Refilled(m, a) \in LineType
           /\ Refilled(m, a).valid /\ ~Refilled(m, a).dirty
           /\ Refilled(m, a).tag = TagOf(a)
           /\ BaseFor(TagOf(a), LineOf(a)) \in Address
           /\ \A b \in Address : LineOf(b) = LineOf(a) /\ TagOf(b) = TagOf(a) =>
                                    Refilled(m, a).words[OffsetOf(b)] = m[b]
<1> DEFINE base == BlockOf(a) * WordsPerLine
<1>1. base = BaseFor(TagOf(a), LineOf(a))
  BY Placement, AddressIsNat DEF BaseFor
<1>2. LineOf(a) \in Line /\ TagOf(a) \in Nat
  BY Placement, AddressIsNat
<1>3. base \in Nat
  BY <1>1, <1>2, LineHoldsItsWords, AddressIsNat
<1>4. Refilled(m, a) = [valid |-> TRUE, dirty |-> FALSE, tag |-> TagOf(a),
                        words |-> [w \in Offset |-> IF base + w \in Address
                                                    THEN m[base + w] ELSE 0]]
  BY DEF Refilled
<1> HIDE DEF base
<1>5. Refilled(m, a) \in LineType
  <2>1. [w \in Offset |-> IF base + w \in Address THEN m[base + w] ELSE 0]
           \in [Offset -> Words]
    BY WordsAssumption
  <2> QED
    BY <1>2, <1>4, <2>1 DEF LineType
<1>6. base \in Address
  <2>1. a - base \in Offset
    BY <1>1, <1>2, LineHoldsItsWords, AddressIsNat
  <2> QED
    BY <1>3, <2>1, SizeAssumption, GeometryAssumption DEF Address, Offset
<1>7. ASSUME NEW b \in Address, LineOf(b) = LineOf(a), TagOf(b) = TagOf(a)
      PROVE  Refilled(m, a).words[OffsetOf(b)] = m[b]
  <2>1. b - base = OffsetOf(b) /\ OffsetOf(b) \in Offset
    BY <1>1, <1>2, <1>7, LineHoldsItsWords, Placement, AddressIsNat
  <2>2. base + OffsetOf(b) = b
    BY <1>3, <2>1 DEF Address
  <2> QED
    BY <1>4, <2>1, <2>2
<1> QED
  BY <1>1, <1>4, <1>5, <1>6, <1>7

(* Storing a word changes that word of the line and no other. *)
LEMMA StoredValue ==
    ASSUME NEW a \in Address, NEW v \in Words, NEW line \in LineType
    PROVE  /\ Stored(line, a, v) \in LineType
           /\ Stored(line, a, v).dirty
           /\ Stored(line, a, v).valid = line.valid
           /\ Stored(line, a, v).tag = line.tag
           /\ \A b \in Address : LineOf(b) = LineOf(a) /\ TagOf(b) = TagOf(a) =>
                 Stored(line, a, v).words[OffsetOf(b)] =
                    IF b = a THEN v ELSE line.words[OffsetOf(b)]
<1>1. OffsetOf(a) \in Offset
  BY Placement, AddressIsNat
<1>2. /\ Stored(line, a, v) \in LineType
      /\ Stored(line, a, v).dirty
      /\ Stored(line, a, v).valid = line.valid
      /\ Stored(line, a, v).tag = line.tag
      /\ Stored(line, a, v).words = [line.words EXCEPT ![OffsetOf(a)] = v]
  BY <1>1 DEF Stored, LineType
<1>3. ASSUME NEW b \in Address, LineOf(b) = LineOf(a), TagOf(b) = TagOf(a), b # a
      PROVE  OffsetOf(b) # OffsetOf(a)
  <2>1. BlockOf(b) = BlockOf(a)
    BY <1>3, Placement, AddressIsNat
  <2> QED
    BY <1>3, <2>1, Placement, AddressIsNat
<1>4. \A b \in Address : OffsetOf(b) \in Offset
  BY Placement, AddressIsNat
<1>5. line.words \in [Offset -> Words]
  BY DEF LineType
<1> QED
  BY <1>1, <1>2, <1>3, <1>4, <1>5

(* Putting a line for the block of a in place, with a memory that has the   *)
(* value of what the line held before, keeps the types and every value      *)
(* outside the block.                                                       *)
LEMMA LineReplaced ==
    ASSUME IInv, NEW a \in Address, NEW line \in LineType,
           line.valid, line.tag = TagOf(a),
           BaseFor(TagOf(a), LineOf(a)) \in Address,
           lines' = [lines EXCEPT ![LineOf(a)] = line],
           memory' \in [Address -> Words],
           \A b \in Address : LineOf(b) # LineOf(a) => memory'[b] = memory[b],
           \A b \in Address : LineOf(b) = LineOf(a) /\ TagOf(b) # TagOf(a) =>
                                  memory'[b] = Value(b),
           \/ line.dirty
           \/ \A b \in Address : LineOf(b) = LineOf(a) /\ TagOf(b) = TagOf(a) =>
                                    line.words[OffsetOf(b)] = memory'[b],
           answer' \in [ok : BOOLEAN, value : Words]
    PROVE  /\ IInv'
           /\ \A b \in Address :
                 Value(b)' = IF LineOf(b) = LineOf(a) /\ TagOf(b) = TagOf(a)
                             THEN line.words[OffsetOf(b)] ELSE Value(b)
<1> USE DEF IInv
<1>1. LineOf(a) \in Line /\ lines \in [Line -> LineType]
  BY Placement, AddressIsNat DEF TypeOK
<1>2. \A i \in Line : lines'[i] = IF i = LineOf(a) THEN line ELSE lines[i]
  BY <1>1
<1>3. TypeOK'
  <2>1. lines' \in [Line -> LineType]
    BY <1>1
  <2>2. ASSUME NEW i \in Line, lines'[i].valid
        PROVE  BaseOf(i)' \in Address
    <3>1. BaseOf(i)' = BaseFor(lines'[i].tag, i)
      BY DEF BaseOf, BaseFor
    <3>2. CASE i = LineOf(a)
      BY <1>2, <3>1, <3>2
    <3>3. CASE i # LineOf(a)
      BY <1>2, <2>2, <3>3 DEF BaseOf, TypeOK
    <3> QED
      BY <3>2, <3>3
  <2> QED
    BY <2>1, <2>2 DEF TypeOK
<1>4. ASSUME NEW b \in Address
      PROVE  /\ LineOf(b) = LineOf(a) => /\ Hit(b)' <=> TagOf(b) = TagOf(a)
                                         /\ lines'[LineOf(b)] = line
             /\ LineOf(b) # LineOf(a) => /\ Hit(b)' <=> Hit(b)
                                         /\ lines'[LineOf(b)] = lines[LineOf(b)]
  <2>1. LineOf(b) \in Line
    BY Placement, AddressIsNat
  <2>2. lines'[LineOf(b)] = IF LineOf(b) = LineOf(a) THEN line ELSE lines[LineOf(b)]
    BY <1>2, <2>1
  <2>3. Hit(b)' <=> lines'[LineOf(b)].valid /\ lines'[LineOf(b)].tag = TagOf(b)
    BY DEF Hit
  <2>4. CASE LineOf(b) = LineOf(a)
    BY <2>2, <2>3, <2>4
  <2>5. CASE LineOf(b) # LineOf(a)
    BY <2>2, <2>3, <2>5 DEF Hit
  <2> QED
    BY <2>2, <2>4, <2>5
<1>5. ASSUME NEW b \in Address
      PROVE  Value(b)' = IF LineOf(b) = LineOf(a) /\ TagOf(b) = TagOf(a)
                         THEN line.words[OffsetOf(b)] ELSE Value(b)
  <2>1. Value(b)' = IF Hit(b)' THEN lines'[LineOf(b)].words[OffsetOf(b)] ELSE memory'[b]
    BY DEF Value
  <2>2. CASE LineOf(b) = LineOf(a) /\ TagOf(b) = TagOf(a)
    BY <1>4, <2>1, <2>2
  <2>3. CASE LineOf(b) = LineOf(a) /\ TagOf(b) # TagOf(a)
    BY <1>4, <2>1, <2>3
  <2>4. CASE LineOf(b) # LineOf(a)
    BY <1>4, <2>1, <2>4 DEF Value
  <2> QED
    BY <2>2, <2>3, <2>4
<1>6. CleanLinesMatch'
  <2>1. ASSUME NEW b \in Address, Hit(b)', ~lines'[LineOf(b)].dirty
        PROVE  lines'[LineOf(b)].words[OffsetOf(b)] = memory'[b]
    <3>1. CASE LineOf(b) = LineOf(a)
      BY <1>4, <2>1, <3>1
    <3>2. CASE LineOf(b) # LineOf(a)
      BY <1>4, <2>1, <3>2 DEF CleanLinesMatch
    <3> QED
      BY <3>1, <3>2
  <2> QED
    BY <2>1 DEF CleanLinesMatch
<1> QED
  BY <1>3, <1>5, <1>6

-----------------------------------------------------------------------------
(* One lemma per operation: it keeps the invariants and does what           *)
(* PersistentMemory says of it.                                             *)

Store == [a \in Address |-> Value(a)]

(* The initial state is one of PersistentMemory. *)
LEMMA InitOK == Init => IInv /\ Promised!Init
<1>1. SUFFICES ASSUME Init PROVE IInv /\ Promised!Init
  OBVIOUS
<1>2. \A i \in Line : lines[i] = EmptyLine
  BY <1>1 DEF Init
<1>3. EmptyLine \in LineType /\ ~EmptyLine.valid
  BY WordsAssumption DEF EmptyLine, LineType
<1>4. \A a \in Address : ~Hit(a)
  BY <1>2, <1>3, Placement, AddressIsNat DEF Hit
<1>5. TypeOK
  <2>1. lines \in [Line -> LineType]
    BY <1>1, <1>3 DEF Init
  <2>2. answer \in [ok : BOOLEAN, value : Words] /\ memory \in [Address -> Words]
    BY <1>1, WordsAssumption DEF Init, Rejected
  <2> QED
    BY <1>2, <1>3, <2>1, <2>2 DEF TypeOK
<1>6. CleanLinesMatch
  BY <1>4 DEF CleanLinesMatch
<1>7. Store = memory
  <2>1. \A a \in Address : Value(a) = memory[a]
    BY <1>4 DEF Value
  <2>2. memory = [a \in Address |-> memory[a]]
    BY <1>5 DEF TypeOK
  <2> QED
    BY <2>1, <2>2 DEF Store
<1>8. Promised!Init
  BY <1>1, <1>5, <1>7 DEF Init, Promised!Init, Store, Rejected, Promised!Rejected, TypeOK
<1> QED
  BY <1>5, <1>6, <1>8 DEF IInv

(* Values that stay make a store that stays. *)
LEMMA StoreKept ==
    ASSUME \A b \in Address : Value(b)' = Value(b)
    PROVE  Store' = Store
  BY DEF Store

(* A read of a cached word. *)
LEMMA ReadHitOK ==
    ASSUME IInv, NEW a \in Address, ReadHit(a)
    PROVE  IInv' /\ Promised!Read(a)
<1>1. /\ lines' = lines /\ memory' = memory
      /\ answer' = Answer(Value(a))
  BY DEF ReadHit, Value
<1>2. Value(a) \in Words
  BY WordsTyped DEF IInv
<1>3. IInv'
  <2>1. answer' \in [ok : BOOLEAN, value : Words]
    BY <1>1, <1>2 DEF Answer
  <2> QED
    BY <1>1, <2>1 DEF IInv, TypeOK, CleanLinesMatch, Hit, BaseOf
<1>4. Store' = Store
  BY <1>1 DEF Store, Value, Hit
<1>5. Promised!SomeWritebacks
  BY <1>1 DEF Promised!SomeWritebacks, IInv, TypeOK
<1> QED
  BY <1>1, <1>3, <1>4, <1>5 DEF Promised!Read, Promised!Answer, Answer, Store

(* What a miss does to the memory. *)
LEMMA MissMemory ==
    ASSUME IInv, NEW a \in Address, memory' = Evict(LineOf(a))
    PROVE  /\ memory' \in [Address -> Words]
           /\ \A b \in Address : memory'[b] = IF LineOf(b) = LineOf(a) THEN Value(b) ELSE memory[b]
           /\ Promised!SomeWritebacks
<1>1. LineOf(a) \in Line
  BY Placement, AddressIsNat
<1>2. /\ memory' \in [Address -> Words]
      /\ \A b \in Address : memory'[b] = IF LineOf(b) = LineOf(a) THEN Value(b) ELSE memory[b]
  BY <1>1, EvictValue
<1>3. Promised!SomeWritebacks
  BY <1>2 DEF Promised!SomeWritebacks
<1> QED
  BY <1>2, <1>3

(* A read that replaces a line. *)
LEMMA ReadMissOK ==
    ASSUME IInv, NEW a \in Address, ReadMiss(a)
    PROVE  IInv' /\ Promised!Read(a)
<1> DEFINE line == Refilled(memory', a)
<1>1. /\ memory' = Evict(LineOf(a))
      /\ lines' = [lines EXCEPT ![LineOf(a)] = line]
      /\ answer' = Answer(line.words[OffsetOf(a)])
  BY DEF ReadMiss
<1>2. /\ memory' \in [Address -> Words]
      /\ \A b \in Address : memory'[b] = IF LineOf(b) = LineOf(a) THEN Value(b) ELSE memory[b]
      /\ Promised!SomeWritebacks
  BY <1>1, MissMemory
<1>3. /\ line \in LineType /\ line.valid /\ line.tag = TagOf(a)
      /\ BaseFor(TagOf(a), LineOf(a)) \in Address
      /\ \A b \in Address : LineOf(b) = LineOf(a) /\ TagOf(b) = TagOf(a) =>
                               line.words[OffsetOf(b)] = memory'[b]
  BY <1>2, RefilledValue
<1>4. line.words[OffsetOf(a)] = Value(a) /\ Value(a) \in Words
  BY <1>2, <1>3, WordsTyped DEF IInv
<1>5. answer' = Answer(Value(a)) /\ answer' \in [ok : BOOLEAN, value : Words]
  BY <1>1, <1>4 DEF Answer
<1> HIDE DEF line
<1>6. /\ IInv'
      /\ \A b \in Address :
            Value(b)' = IF LineOf(b) = LineOf(a) /\ TagOf(b) = TagOf(a)
                        THEN line.words[OffsetOf(b)] ELSE Value(b)
  BY <1>1, <1>2, <1>3, <1>5, LineReplaced
<1>7. Store' = Store
  BY <1>2, <1>3, <1>6, StoreKept
<1> QED
  BY <1>2, <1>5, <1>6, <1>7 DEF Promised!Read, Promised!Answer, Answer, Store

(* A line with one word changed is a store with one word changed. *)
LEMMA WriteStep ==
    ASSUME NEW a \in Address, NEW v \in Words, answer' = Answer(v),
           Promised!SomeWritebacks,
           \A b \in Address : Value(b)' = IF b = a THEN v ELSE Value(b)
    PROVE  Promised!Write(a, v)
<1>1. Store' = [Store EXCEPT ![a] = v]
  BY DEF Store
<1> QED
  BY <1>1 DEF Promised!Write, Promised!Answer, Answer, Store

(* A write that replaces a line. *)
LEMMA WriteMissOK ==
    ASSUME IInv, NEW a \in Address, NEW v \in Words, WriteMiss(a, v)
    PROVE  IInv' /\ Promised!Write(a, v)
<1> DEFINE filled == Refilled(memory', a)
           line   == Stored(filled, a, v)
<1>1. /\ memory' = Evict(LineOf(a))
      /\ lines' = [lines EXCEPT ![LineOf(a)] = line]
      /\ answer' = Answer(v)
  BY DEF WriteMiss
<1>2. /\ memory' \in [Address -> Words]
      /\ \A b \in Address : memory'[b] = IF LineOf(b) = LineOf(a) THEN Value(b) ELSE memory[b]
      /\ Promised!SomeWritebacks
  BY <1>1, MissMemory
<1>3. /\ filled \in LineType /\ filled.valid /\ filled.tag = TagOf(a)
      /\ BaseFor(TagOf(a), LineOf(a)) \in Address
      /\ \A b \in Address : LineOf(b) = LineOf(a) /\ TagOf(b) = TagOf(a) =>
                               filled.words[OffsetOf(b)] = memory'[b]
  BY <1>2, RefilledValue
<1> HIDE DEF filled
<1>4. /\ line \in LineType /\ line.valid /\ line.tag = TagOf(a) /\ line.dirty
      /\ \A b \in Address : LineOf(b) = LineOf(a) /\ TagOf(b) = TagOf(a) =>
                               line.words[OffsetOf(b)] =
                                  IF b = a THEN v ELSE filled.words[OffsetOf(b)]
  BY <1>3, StoredValue
<1>5. answer' \in [ok : BOOLEAN, value : Words]
  BY <1>1 DEF Answer
<1> HIDE DEF line
<1>6. /\ IInv'
      /\ \A b \in Address :
            Value(b)' = IF LineOf(b) = LineOf(a) /\ TagOf(b) = TagOf(a)
                        THEN line.words[OffsetOf(b)] ELSE Value(b)
  BY <1>1, <1>2, <1>3, <1>4, <1>5, LineReplaced
<1>7. \A b \in Address : Value(b)' = IF b = a THEN v ELSE Value(b)
  BY <1>2, <1>3, <1>4, <1>6
<1> QED
  BY <1>1, <1>2, <1>6, <1>7, WriteStep

(* A write to a cached word. *)
LEMMA WriteHitOK ==
    ASSUME IInv, NEW a \in Address, NEW v \in Words, WriteHit(a, v)
    PROVE  IInv' /\ Promised!Write(a, v)
<1> DEFINE old  == lines[LineOf(a)]
           line == Stored(old, a, v)
<1>1. /\ memory' = memory
      /\ lines' = [lines EXCEPT ![LineOf(a)] = line]
      /\ answer' = Answer(v)
      /\ Hit(a)
  BY DEF WriteHit
<1>2. memory' \in [Address -> Words] /\ Promised!SomeWritebacks
  BY <1>1 DEF Promised!SomeWritebacks, IInv, TypeOK
<1>3. LineOf(a) \in Line /\ old \in LineType
  BY Placement, AddressIsNat, WordsTyped DEF IInv
<1>4. old.valid /\ old.tag = TagOf(a)
  BY <1>1 DEF Hit
<1>5. BaseFor(TagOf(a), LineOf(a)) \in Address
  BY <1>3, <1>4 DEF IInv, TypeOK, BaseOf, BaseFor
<1>6. \A b \in Address : LineOf(b) = LineOf(a) =>
         /\ TagOf(b) # TagOf(a) => Value(b) = memory[b]
         /\ TagOf(b) = TagOf(a) => Value(b) = old.words[OffsetOf(b)]
  BY <1>4 DEF Value, Hit
<1> HIDE DEF old
<1>7. /\ line \in LineType /\ line.valid /\ line.tag = TagOf(a) /\ line.dirty
      /\ \A b \in Address : LineOf(b) = LineOf(a) /\ TagOf(b) = TagOf(a) =>
                               line.words[OffsetOf(b)] =
                                  IF b = a THEN v ELSE old.words[OffsetOf(b)]
  BY <1>3, <1>4, StoredValue
<1>8. answer' \in [ok : BOOLEAN, value : Words]
  BY <1>1 DEF Answer
<1> HIDE DEF line
<1>9. /\ IInv'
      /\ \A b \in Address :
            Value(b)' = IF LineOf(b) = LineOf(a) /\ TagOf(b) = TagOf(a)
                        THEN line.words[OffsetOf(b)] ELSE Value(b)
  BY <1>1, <1>2, <1>5, <1>6, <1>7, <1>8, LineReplaced
<1>10. \A b \in Address : Value(b)' = IF b = a THEN v ELSE Value(b)
  BY <1>6, <1>7, <1>9
<1> QED
  BY <1>1, <1>2, <1>9, <1>10, WriteStep

(* A call with an address past the memory. *)
LEMMA OutsideOK ==
    ASSUME IInv, Outside
    PROVE  IInv' /\ Promised!Reject
<1>1. lines' = lines /\ memory' = memory /\ answer' = Rejected
  BY DEF Outside
<1>2. IInv'
  BY <1>1, WordsAssumption DEF IInv, TypeOK, CleanLinesMatch, Hit, BaseOf, Rejected
<1>3. Store' = Store
  BY <1>1 DEF Store, Value, Hit
<1> QED
  BY <1>1, <1>2, <1>3 DEF Promised!Reject, Promised!Rejected, Rejected, Store

(* Writing back every dirty line. *)
LEMMA FlushOK ==
    ASSUME IInv, Flush
    PROVE  IInv' /\ Promised!Flush
<1> USE DEF IInv
<1>1. /\ memory' = [a \in Address |-> IF Dirty(LineOf(a)) THEN WriteBack(LineOf(a))[a]
                                       ELSE memory[a]]
      /\ lines' = [i \in Line |-> IF Dirty(i) THEN [lines[i] EXCEPT !.dirty = FALSE]
                                   ELSE lines[i]]
      /\ answer' = answer
  BY DEF Flush
<1>2. ASSUME NEW a \in Address
      PROVE  memory'[a] = Value(a)
  <2>1. LineOf(a) \in Line
    BY Placement, AddressIsNat
  <2>2. Evict(LineOf(a))[a] = Value(a)
    BY <2>1, EvictValue
  <2> QED
    BY <1>1, <2>2 DEF Evict
<1>3. memory' = Store
  BY <1>1, <1>2 DEF Store
<1>4. memory' \in [Address -> Words]
  BY <1>3, WordsTyped DEF Store
<1>5. ASSUME NEW i \in Line
      PROVE  /\ lines'[i] \in LineType
             /\ lines'[i].valid = lines[i].valid /\ lines'[i].tag = lines[i].tag
             /\ lines'[i].words = lines[i].words
  <2>1. lines[i] \in LineType
    BY DEF TypeOK
  <2> QED
    BY <1>1, <2>1 DEF LineType
<1>6. TypeOK'
  <2>1. lines' \in [Line -> LineType]
    BY <1>1, <1>5
  <2>2. \A i \in Line : lines'[i].valid => BaseOf(i)' \in Address
    BY <1>5 DEF TypeOK, BaseOf
  <2> QED
    BY <1>1, <1>4, <2>1, <2>2 DEF TypeOK
<1>7. ASSUME NEW a \in Address
      PROVE  /\ Value(a)' = Value(a)
             /\ Hit(a)' => lines'[LineOf(a)].words[OffsetOf(a)] = memory'[a]
  <2>1. LineOf(a) \in Line
    BY Placement, AddressIsNat
  <2>2. Hit(a)' <=> Hit(a)
    BY <1>5, <2>1 DEF Hit
  <2> QED
    BY <1>2, <1>5, <2>1, <2>2 DEF Value
<1>8. CleanLinesMatch'
  BY <1>7 DEF CleanLinesMatch
<1>9. Store' = Store
  BY <1>7, StoreKept
<1> QED
  BY <1>1, <1>3, <1>6, <1>8, <1>9 DEF Promised!Flush, Store

(* Dropping every line: what was not written back is lost. *)
LEMMA ResetOK ==
    ASSUME IInv, Reset
    PROVE  IInv' /\ Promised!Reset
<1>1. lines' = [i \in Line |-> EmptyLine] /\ memory' = memory /\ answer' = answer
  BY DEF Reset
<1>2. EmptyLine \in LineType /\ ~EmptyLine.valid
  BY WordsAssumption DEF EmptyLine, LineType
<1>3. \A a \in Address : ~Hit(a)'
  BY <1>1, <1>2, Placement, AddressIsNat DEF Hit
<1>4. TypeOK'
  BY <1>1, <1>2 DEF IInv, TypeOK
<1>5. CleanLinesMatch'
  BY <1>3 DEF CleanLinesMatch
<1>6. Store' = memory
  <2>1. \A a \in Address : Value(a)' = memory[a]
    BY <1>1, <1>3 DEF Value
  <2>2. memory = [a \in Address |-> memory[a]]
    BY DEF IInv, TypeOK
  <2> QED
    BY <2>1, <2>2 DEF Store
<1> QED
  BY <1>1, <1>4, <1>5, <1>6 DEF Promised!Reset, IInv, Store

(* Every step keeps the invariants and is a step of PersistentMemory. *)
LEMMA StepOK ==
    ASSUME IInv, [Next]_vars
    PROVE  IInv' /\ [Promised!Next]_(Promised!vars)
<1>1. ASSUME NEW a \in Address, ReadHit(a) \/ ReadMiss(a)
      PROVE  IInv' /\ Promised!Next
  BY <1>1, ReadHitOK, ReadMissOK DEF Promised!Next
<1>2. ASSUME NEW a \in Address, NEW v \in Words, WriteHit(a, v) \/ WriteMiss(a, v)
      PROVE  IInv' /\ Promised!Next
  BY <1>2, WriteHitOK, WriteMissOK DEF Promised!Next
<1>3. CASE Outside
  BY <1>3, OutsideOK DEF Promised!Next
<1>4. CASE Flush
  BY <1>4, FlushOK DEF Promised!Next
<1>5. CASE Reset
  BY <1>5, ResetOK DEF Promised!Next
<1>6. CASE UNCHANGED vars
  <2>1. lines' = lines /\ memory' = memory /\ answer' = answer
    BY <1>6 DEF vars
  <2>2. IInv'
    BY <2>1 DEF IInv, TypeOK, CleanLinesMatch, Hit, BaseOf
  <2>3. Store' = Store
    BY <2>1 DEF Store, Value, Hit
  <2> QED
    BY <2>1, <2>2, <2>3 DEF Promised!vars, Store
<1> QED
  BY <1>1, <1>2, <1>3, <1>4, <1>5, <1>6 DEF Next

(* The inductive invariant: types, and clean lines that match the memory. *)
THEOREM CacheInvariant == Spec => []IInv
<1>1. Init => IInv
  BY InitOK
<1>2. IInv /\ [Next]_vars => IInv'
  BY StepOK
<1> QED
  BY <1>1, <1>2, PTL DEF Spec

(* A line that is not dirty can be dropped at any time, whatever sequence   *)
(* of reads, writes, evictions, flushes and resets came before.             *)
THEOREM CleanLinesMatchAlways == Spec => []CleanLinesMatch
<1>1. IInv => CleanLinesMatch
  BY DEF IInv
<1> QED
  BY <1>1, CacheInvariant, PTL

(* Tags stay inside the memory and words inside their type. *)
THEOREM TypesAlways == Spec => []TypeOK
<1>1. IInv => TypeOK
  BY DEF IInv
<1> QED
  BY <1>1, CacheInvariant, PTL

(* The cache implements the memory it promises, for every geometry. *)
THEOREM CacheIsMemory == Spec => ImplementsMemory
<1>1. Init => Promised!Init
  BY InitOK
<1>2. IInv /\ [Next]_vars => [Promised!Next]_(Promised!vars)
  BY StepOK
<1> QED
  BY <1>1, <1>2, CacheInvariant, PTL DEF Spec, ImplementsMemory, Promised!Spec

-----------------------------------------------------------------------------
(* The instruction fetch: its invariant. *)

FetchInv == FetchTypeOK /\ RefillMatchesRom /\ LinesMatchRom

-----------------------------------------------------------------------------
(* Lemmas about addresses and the ROM. *)

(* What the memory answers is an instruction. *)
LEMMA RomTyped ==
    ASSUME NEW a \in Nat
    PROVE  RomAt(a) \in Instruction
<1>1. a % RomWords \in 0 .. RomWords - 1
  BY FetchAssumption, DivMod
<1> QED
  BY <1>1 DEF RomAt, Instruction

(* The fetch address stays in the address space. *)
LEMMA AddressKept ==
    ASSUME NEW a \in FetchAddress, NEW n \in Nat
    PROVE  Plus(a, n) \in FetchAddress /\ a \in Nat
<1>1. a \in Nat /\ a + n \in Nat
  BY FetchAssumption DEF FetchAddress
<1> QED
  BY <1>1, FetchAssumption, DivMod DEF Plus, FetchAddress

(* The base of a line is a multiple of the line size. *)
LEMMA BaseAligned ==
    ASSUME NEW a \in FetchAddress
    PROVE  LineBase(a) \in Nat /\ OffsetOf(LineBase(a)) = 0
<1> DEFINE base == LineBase(a)
<1>1. a \in Nat /\ WordsPerLine \in Nat \ {0}
  BY AddressKept, GeometryAssumption
<1>2. BlockOf(a) \in Nat
  BY <1>1, Placement
<1>3. base \in Nat /\ base = BlockOf(a) * WordsPerLine + 0
  <2>1. BlockOf(a) * WordsPerLine \in Nat
    BY <1>1, <1>2
  <2> QED
    BY <2>1 DEF LineBase
<1> HIDE DEF base
<1>4. /\ base = BlockOf(base) * WordsPerLine + OffsetOf(base)
      /\ BlockOf(base) \in Nat /\ OffsetOf(base) \in 0 .. WordsPerLine - 1
  BY <1>3, Placement DEF Offset
<1>5. 0 \in 0 .. WordsPerLine - 1
  BY <1>1
<1>6. BlockOf(a) * WordsPerLine + 0 = BlockOf(base) * WordsPerLine + OffsetOf(base)
  BY <1>3, <1>4
<1>7. OffsetOf(base) = 0
  <2>1. BlockOf(a) \in Int /\ BlockOf(base) \in Int
    BY <1>2, <1>4
  <2> QED
    BY <1>1, <1>4, <1>5, <1>6, <2>1, DivModUnique
<1> QED
  BY <1>3, <1>7 DEF base

(* An address with line and tag of an aligned base lies in its line. *)
LEMMA SameBlock ==
    ASSUME NEW a \in Nat, NEW base \in Nat, OffsetOf(base) = 0,
           LineOf(a) = LineOf(base), TagOf(a) = TagOf(base)
    PROVE  a = base + OffsetOf(a) /\ OffsetOf(a) \in Offset
<1>1. BlockOf(a) = BlockOf(base)
  BY Placement
<1>2. /\ a = BlockOf(a) * WordsPerLine + OffsetOf(a)
      /\ base = BlockOf(base) * WordsPerLine + 0
      /\ OffsetOf(a) \in Offset
  BY Placement
<1>3. OffsetOf(a) \in Int
  BY <1>2 DEF Offset
<1>4. base = BlockOf(a) * WordsPerLine
  <2>1. BlockOf(base) * WordsPerLine \in Nat
    BY Placement, GeometryAssumption
  <2> QED
    BY <1>1, <1>2, <2>1
<1> QED
  BY <1>2, <1>3, <1>4

-----------------------------------------------------------------------------
(* One lemma per piece of state a cycle can change. *)

(* The buffer with one more word of the line. *)
LEMMA ReceivedOK ==
    ASSUME FetchInv, state = "REFILL_WAIT"
    PROVE  /\ Received \in [Offset -> Instruction]
           /\ \A w \in Offset : w < refill_word + 1 => Received[w] = RomAt(line_base + w)
<1> USE DEF FetchInv
<1>1. refill_word \in Offset /\ refill_word \in Nat /\ line_base \in Nat
  BY GeometryAssumption DEF FetchTypeOK, Offset
<1>2. RomAt(RefillAddress) \in Instruction
  BY <1>1, RomTyped DEF RefillAddress
<1>3. refill_buffer \in [Offset -> Instruction]
  BY DEF FetchTypeOK
<1>4. Received \in [Offset -> Instruction]
  BY <1>1, <1>2, <1>3 DEF Received
<1>5. ASSUME NEW w \in Offset, w < refill_word + 1
      PROVE  Received[w] = RomAt(line_base + w)
  <2>1. CASE w = refill_word
    BY <1>1, <1>3, <2>1 DEF Received, RefillAddress
  <2>2. CASE w # refill_word
    <3>1. w < refill_word
      BY <1>1, <1>5, <2>2 DEF Offset
    <3>2. refill_buffer[w] = RomAt(line_base + w)
      BY <3>1 DEF RefillMatchesRom
    <3> QED
      BY <1>1, <1>3, <2>2, <3>2 DEF Received
  <2> QED
    BY <2>1, <2>2
<1> QED
  BY <1>4, <1>5

(* The counter never wraps before the line is complete.                     *)
LEMMA CounterStep ==
    ASSUME FetchTypeOK, state = "REFILL_WAIT"
    PROVE  /\ (refill_word + 1) % RefillWords \in 0 .. WordsPerLine
           /\ LastWord => \A w \in Offset : w < refill_word + 1
           /\ ~LastWord => /\ (refill_word + 1) % RefillWords = refill_word + 1
                           /\ refill_word + 1 < WordsPerLine
<1>1. /\ refill_word \in Nat /\ refill_word < WordsPerLine
      /\ WordsPerLine \in Nat \ {0} /\ RefillWords \in Nat \ {0} /\ WordsPerLine <= RefillWords
  BY FetchAssumption, GeometryAssumption DEF FetchTypeOK
<1>2. CASE refill_word + 1 < RefillWords
  <2>1. (refill_word + 1) % RefillWords = refill_word + 1
    BY <1>1, <1>2
  <2> QED
    BY <1>1, <2>1 DEF LastWord, Offset
<1>3. CASE refill_word + 1 >= RefillWords
  <2>1. refill_word + 1 = RefillWords /\ RefillWords = WordsPerLine
    BY <1>1, <1>3
  <2>2. RefillWords % RefillWords = 0
    BY <1>1
  <2> QED
    BY <1>1, <2>1, <2>2 DEF LastWord, Offset
<1> QED
  BY <1>1, <1>2, <1>3

(* Installing a complete buffer keeps every line in agreement with the ROM. *)
LEMMA RefilledOK ==
    ASSUME FetchInv, state = "INSTALL", ilines' = RefilledLines
    PROVE  ilines' \in [Line -> InstructionLine] /\ LinesMatchRom'
<1> USE DEF FetchInv
<1> DEFINE line == [valid |-> TRUE, tag |-> TagOf(line_base), words |-> refill_buffer]
<1>1. /\ line_base \in Nat /\ OffsetOf(line_base) = 0
      /\ refill_buffer \in [Offset -> Instruction]
      /\ ilines \in [Line -> InstructionLine]
  BY DEF FetchTypeOK
<1>2. LineOf(line_base) \in Line /\ TagOf(line_base) \in Nat
  BY <1>1, Placement
<1>3. line \in InstructionLine
  BY <1>1, <1>2 DEF InstructionLine
<1>4. ilines' = [ilines EXCEPT ![LineOf(line_base)] = line]
  BY DEF RefilledLines, RefillIndex
<1>5. line.valid /\ line.tag = TagOf(line_base) /\ line.words = refill_buffer
  OBVIOUS
<1> HIDE DEF line
<1>6. ilines' \in [Line -> InstructionLine]
  BY <1>1, <1>2, <1>3, <1>4
<1>7. ASSUME NEW a \in FetchAddress, FetchHit(a)'
      PROVE  ilines'[LineOf(a)].words[OffsetOf(a)] = RomAt(a)
  <2>1. a \in Nat /\ LineOf(a) \in Line
    BY AddressKept, Placement
  <2>2. CASE LineOf(a) = LineOf(line_base)
    <3>1. ilines'[LineOf(a)] = line
      BY <1>1, <1>2, <1>4, <2>2
    <3>2. TagOf(a) = TagOf(line_base)
      BY <1>5, <1>7, <3>1 DEF FetchHit
    <3>3. a = line_base + OffsetOf(a) /\ OffsetOf(a) \in Offset
      BY <1>1, <2>1, <2>2, <3>2, SameBlock
    <3>4. refill_buffer[OffsetOf(a)] = RomAt(line_base + OffsetOf(a))
      BY <3>3 DEF RefillMatchesRom
    <3>5. line_base + OffsetOf(a) = a
      BY <3>3
    <3> QED
      BY <1>5, <3>1, <3>4, <3>5
  <2>3. CASE LineOf(a) # LineOf(line_base)
    <3>1. ilines'[LineOf(a)] = ilines[LineOf(a)]
      BY <1>1, <1>4, <2>1, <2>3
    <3>2. FetchHit(a)
      BY <1>7, <3>1 DEF FetchHit
    <3> QED
      BY <3>1, <3>2 DEF LinesMatchRom
  <2> QED
    BY <2>2, <2>3
<1> QED
  BY <1>6, <1>7 DEF LinesMatchRom

(* Lines that do not change keep matching. *)
LEMMA SameLines ==
    ASSUME LinesMatchRom, ilines' = ilines
    PROVE  LinesMatchRom'
  BY DEF LinesMatchRom, FetchHit

(* While both lanes hit the bundle is the pair the ROM has there. *)
LEMMA BundleIsPair ==
    ASSUME FetchInv, BothHit
    PROVE  Bundle = Stream!Pair(pc)
<1>1. pc \in FetchAddress /\ Plus(pc, 1) \in FetchAddress
  BY AddressKept DEF FetchInv, FetchTypeOK
<1>2. \A a \in FetchAddress : FetchHit(a) => Lane(a) = Stream!Lane(a)
  BY DEF FetchInv, LinesMatchRom, Lane, Stream!Lane, RomAt, Stream!RomAt
<1> QED
  BY <1>1, <1>2 DEF BothHit, Bundle, Stream!Pair, Plus, Stream!Plus

-----------------------------------------------------------------------------
(* The initial state. *)
LEMMA FetchInitOK == FetchInit => FetchInv /\ Stream!Init
<1>1. SUFFICES ASSUME FetchInit PROVE FetchInv /\ Stream!Init
  OBVIOUS
<1>2. [w \in Offset |-> 0] \in [Offset -> Instruction]
  BY DEF Instruction
<1>3. EmptyInstructionLine \in InstructionLine /\ ~EmptyInstructionLine.valid
  BY <1>2 DEF EmptyInstructionLine, InstructionLine
<1>4. OffsetOf(0) = 0
  BY GeometryAssumption DEF OffsetOf
<1>5. FetchTypeOK
  BY <1>1, <1>2, <1>3, <1>4, FetchAssumption, GeometryAssumption
     DEF FetchInit, FetchTypeOK, FetchAddress, State
<1>6. RefillMatchesRom
  BY <1>1 DEF FetchInit, RefillMatchesRom
<1>7. LinesMatchRom
  <2>1. \A a \in FetchAddress : LineOf(a) \in Line
    BY AddressKept, Placement
  <2> QED
    BY <1>1, <1>3, <2>1 DEF FetchInit, LinesMatchRom, FetchHit
<1> QED
  BY <1>1, <1>5, <1>6, <1>7 DEF FetchInv, FetchInit, Stream!Init

(* Every step keeps the invariant and is a step of the promised stream. *)
LEMMA FetchStepOK ==
    ASSUME FetchInv, [FetchNext]_fetchVars
    PROVE  FetchInv' /\ [Stream!Fetch \/ Stream!Restart]_(Stream!vars)
<1> USE DEF FetchInv
<1>1. CASE Deliver
  <2>1. /\ fetched' = Bundle /\ pc' = Plus(pc, 2) /\ ilines' = ilines /\ BothHit
        /\ state' = state /\ line_base' = line_base
        /\ refill_word' = refill_word /\ refill_buffer' = refill_buffer
    BY <1>1 DEF Deliver, controller
  <2>2. FetchTypeOK'
    BY <2>1, AddressKept DEF FetchTypeOK
  <2>3. RefillMatchesRom'
    BY <2>1 DEF RefillMatchesRom
  <2>4. Stream!Fetch
    BY <2>1, BundleIsPair DEF Stream!Fetch, Plus, Stream!Plus
  <2> QED
    BY <2>1, <2>2, <2>3, <2>4, SameLines
<1>2. CASE StartRefill
  <2>1. /\ line_base' = LineBase(MissAddress) /\ refill_word' = 0
        /\ state' = "REFILL_REQUEST"
        /\ pc' = pc /\ ilines' = ilines /\ refill_buffer' = refill_buffer /\ fetched' = fetched
    BY <1>2 DEF StartRefill
  <2>2. MissAddress \in FetchAddress
    BY AddressKept DEF MissAddress, FetchTypeOK
  <2>3. FetchTypeOK'
    BY <2>1, <2>2, BaseAligned, GeometryAssumption DEF FetchTypeOK, State
  <2>4. RefillMatchesRom'
    BY <2>1 DEF RefillMatchesRom, Offset
  <2> QED
    BY <2>1, <2>3, <2>4, SameLines DEF Stream!vars
<1>3. CASE Request
  <2>1. /\ state = "REFILL_REQUEST" /\ state' = "REFILL_WAIT"
        /\ pc' = pc /\ ilines' = ilines /\ line_base' = line_base
        /\ refill_word' = refill_word /\ refill_buffer' = refill_buffer /\ fetched' = fetched
    BY <1>3 DEF Request
  <2>2. FetchTypeOK' /\ RefillMatchesRom'
    BY <2>1 DEF FetchTypeOK, State, RefillMatchesRom
  <2> QED
    BY <2>1, <2>2, SameLines DEF Stream!vars
<1>4. CASE ReceiveWord
  <2>1. /\ state = "REFILL_WAIT" /\ refill_buffer' = Received
        /\ refill_word' = (refill_word + 1) % RefillWords
        /\ state' = IF LastWord THEN "INSTALL" ELSE "REFILL_REQUEST"
        /\ pc' = pc /\ ilines' = ilines /\ line_base' = line_base /\ fetched' = fetched
    BY <1>4 DEF ReceiveWord
  <2>2. /\ refill_word' \in 0 .. WordsPerLine
        /\ LastWord => \A w \in Offset : w < refill_word + 1
        /\ ~LastWord => refill_word' = refill_word + 1 /\ refill_word' < WordsPerLine
    BY <2>1, CounterStep
  <2>3. FetchTypeOK'
    BY <2>1, <2>2, ReceivedOK DEF FetchTypeOK, State
  <2>4. RefillMatchesRom'
    <3>1. CASE LastWord
      BY <2>1, <2>2, <3>1, ReceivedOK DEF RefillMatchesRom
    <3>2. CASE ~LastWord
      BY <2>1, <2>2, <3>2, ReceivedOK DEF RefillMatchesRom
    <3> QED
      BY <3>1, <3>2
  <2> QED
    BY <2>1, <2>3, <2>4, SameLines DEF Stream!vars
<1>5. CASE Install
  <2>1. /\ state = "INSTALL" /\ ilines' = RefilledLines /\ state' = "COMPLETE"
        /\ pc' = pc /\ line_base' = line_base
        /\ refill_word' = refill_word /\ refill_buffer' = refill_buffer /\ fetched' = fetched
    BY <1>5 DEF Install
  <2>2. ilines' \in [Line -> InstructionLine] /\ LinesMatchRom'
    BY <2>1, RefilledOK
  <2>3. FetchTypeOK' /\ RefillMatchesRom'
    BY <2>1, <2>2 DEF FetchTypeOK, State, RefillMatchesRom
  <2> QED
    BY <2>1, <2>2, <2>3 DEF Stream!vars
<1>6. CASE CompleteRefill
  <2>1. /\ state' = "IDLE"
        /\ pc' = pc /\ ilines' = ilines /\ line_base' = line_base
        /\ refill_word' = refill_word /\ refill_buffer' = refill_buffer /\ fetched' = fetched
    BY <1>6 DEF CompleteRefill
  <2>2. FetchTypeOK' /\ RefillMatchesRom'
    BY <2>1 DEF FetchTypeOK, State, RefillMatchesRom
  <2> QED
    BY <2>1, <2>2, SameLines DEF Stream!vars
<1>7. CASE ResetCycle
  <2>1. /\ pc' = 0 /\ state' = "IDLE" /\ line_base' = 0 /\ refill_word' = 0
        /\ refill_buffer' = refill_buffer \/ (state = "REFILL_WAIT" /\ refill_buffer' = Received)
        /\ ilines' = IF state = "INSTALL" THEN RefilledLines ELSE ilines
        /\ fetched' = fetched
    BY <1>7 DEF ResetCycle
  <2>2. refill_buffer' \in [Offset -> Instruction]
    BY <2>1, ReceivedOK DEF FetchTypeOK
  <2>3. ilines' \in [Line -> InstructionLine] /\ LinesMatchRom'
    <3>1. CASE state = "INSTALL"
      BY <2>1, <3>1, RefilledOK
    <3>2. CASE state # "INSTALL"
      BY <2>1, <3>2, SameLines DEF FetchTypeOK
    <3> QED
      BY <3>1, <3>2
  <2>4. OffsetOf(0) = 0 /\ 0 \in FetchAddress /\ 0 \in 0 .. WordsPerLine
    BY GeometryAssumption, FetchAssumption DEF OffsetOf, FetchAddress
  <2>5. FetchTypeOK'
    BY <2>1, <2>2, <2>3, <2>4 DEF FetchTypeOK, State
  <2>6. RefillMatchesRom'
    BY <2>1 DEF RefillMatchesRom
  <2>7. Stream!Restart
    BY <2>1 DEF Stream!Restart
  <2> QED
    BY <2>3, <2>5, <2>6, <2>7
<1>8. CASE Invalidate
  <2>1. /\ ilines' = [i \in Line |-> [ilines[i] EXCEPT !.valid = FALSE]]
        /\ pc' = pc /\ state' = state /\ line_base' = line_base /\ fetched' = fetched
        /\ refill_word' = refill_word /\ refill_buffer' = refill_buffer
    BY <1>8 DEF Invalidate, controller
  <2>2. \A i \in Line : ilines'[i] \in InstructionLine /\ ~ilines'[i].valid
    BY <2>1 DEF FetchTypeOK, InstructionLine
  <2>3. FetchTypeOK'
    BY <2>1, <2>2 DEF FetchTypeOK
  <2>4. RefillMatchesRom'
    BY <2>1 DEF RefillMatchesRom
  <2>5. LinesMatchRom'
    <3>1. \A a \in FetchAddress : LineOf(a) \in Line
      BY AddressKept, Placement
    <3> QED
      BY <2>2, <3>1 DEF LinesMatchRom, FetchHit
  <2> QED
    BY <2>1, <2>3, <2>4, <2>5 DEF Stream!vars
<1>9. CASE UNCHANGED fetchVars
  <2>1. /\ pc' = pc /\ ilines' = ilines /\ state' = state /\ line_base' = line_base
        /\ refill_word' = refill_word /\ refill_buffer' = refill_buffer /\ fetched' = fetched
    BY <1>9 DEF fetchVars
  <2>2. FetchTypeOK' /\ RefillMatchesRom'
    BY <2>1 DEF FetchTypeOK, RefillMatchesRom
  <2> QED
    BY <2>1, <2>2, SameLines DEF Stream!vars
<1> QED
  BY <1>1, <1>2, <1>3, <1>4, <1>5, <1>6, <1>7, <1>8, <1>9 DEF FetchNext, Cycle

-----------------------------------------------------------------------------
(* The inductive invariant. *)
THEOREM FetchInvariant == FetchSpec => []FetchInv
<1>1. FetchInit => FetchInv
  BY FetchInitOK
<1>2. FetchInv /\ [FetchNext]_fetchVars => FetchInv'
  BY FetchStepOK
<1> QED
  BY <1>1, <1>2, PTL DEF FetchSpec

(* The controller never asks past the end of a line. *)
THEOREM FetchTypes == FetchSpec => []FetchTypeOK
<1>1. FetchInv => FetchTypeOK
  BY DEF FetchInv
<1> QED
  BY <1>1, FetchInvariant, PTL

(* The buffer never mixes two lines, resets in the middle of a refill       *)
(* included.                                                                *)
THEOREM BufferMatches == FetchSpec => []RefillMatchesRom
<1>1. FetchInv => RefillMatchesRom
  BY DEF FetchInv
<1> QED
  BY <1>1, FetchInvariant, PTL

(* No address ever hits on another one's instruction. *)
THEOREM CachedIsRom == FetchSpec => []LinesMatchRom
<1>1. FetchInv => LinesMatchRom
  BY DEF FetchInv
<1> QED
  BY <1>1, FetchInvariant, PTL

(* The fetch implements the instruction stream it promises. *)
THEOREM FetchImplementsStream == FetchSpec => DeliversProgram
<1>1. FetchInit => Stream!Init
  BY FetchInitOK
<1>2. FetchInv /\ [FetchNext]_fetchVars => [Stream!Fetch \/ Stream!Restart]_(Stream!vars)
  BY FetchStepOK
<1> QED
  BY <1>1, <1>2, FetchInvariant, PTL DEF FetchSpec, DeliversProgram, Stream!Spec

-----------------------------------------------------------------------------
(* The reorder buffer.  One lemma per call: the inductive invariant          *)
(* survives it. *)
USE CapacityAssumption

LEMMA InitIInv == RobInit => RobIInv
<1> SUFFICES ASSUME RobInit PROVE RobIInv
  OBVIOUS
<1>1. RobTypeOK
  BY DEF RobInit, ResetRob, RobTypeOK, Ring, Entry, EmptyEntry, Index
<1>2. \A i \in Index : ~InWindow(rob, i)
  <2> TAKE i \in Index
  <2>1. rob.head \in Index /\ rob.count = 0
    BY DEF RobInit, ResetRob, Index
  <2> QED
    BY <2>1, PositionValue DEF InWindow, Index
<1>3. RobWindow
  <2>1. rob.tail = 0 /\ rob.head = 0 /\ rob.count = 0
    BY DEF RobInit, ResetRob
  <2>2. (0 + 0) % Capacity = 0
    BY TailValue DEF Index
  <2>3. \A i \in Index : ~rob.slot[i].valid
    BY DEF RobInit, ResetRob, EmptyEntry
  <2> QED
    BY <1>2, <2>1, <2>2, <2>3 DEF RobWindow
<1>4. FreeSlotsAreClean
  BY <1>2 DEF RobInit, ResetRob, FreeSlotsAreClean
<1> QED
  BY <1>1, <1>3, <1>4 DEF RobIInv

LEMMA IInvInOrder == RobIInv => InOrder(rob)
BY DEF RobIInv, RobTypeOK, Ring, RobWindow, InOrder

LEMMA AllocateIInv ==
    ASSUME RobIInv, NEW d \in Payload, AllocateEntry(d)
    PROVE  RobIInv'
<1> USE DEF RobIInv
<1> DEFINE s == Allocate(rob, d)
<1>1. InOrder(rob) /\ ~Full(rob) /\ rob' = s
  BY IInvInOrder DEF AllocateEntry
<1>2. /\ ~InWindow(rob, rob.tail)
      /\ InOrder(s)
      /\ \A i \in Index : /\ InWindow(s, i) <=> InWindow(rob, i) \/ i = rob.tail
                          /\ i # rob.tail => s.slot[i] = rob.slot[i]
      /\ s.slot[rob.tail] = [valid |-> TRUE, completed |-> FALSE, data |-> d]
  BY <1>1, AllocateAges
<1>3. RobTypeOK'
  <2>1. rob.count \in 0 .. Capacity - 1 /\ NextIndex(rob.tail) \in Index
    BY <1>1, NextIndexValue DEF Full, RobTypeOK, Ring
  <2> QED
    BY <1>1, <2>1 DEF Allocate, RobTypeOK, Ring, Entry
<1>4. RobWindow'
  <2> HIDE DEF s
  <2> QED
    BY <1>1, <1>2 DEF RobWindow, InOrder
<1>5. FreeSlotsAreClean'
  <2> HIDE DEF s
  <2> QED
    BY <1>1, <1>2 DEF FreeSlotsAreClean
<1> QED
  BY <1>3, <1>4, <1>5

LEMMA CompleteIInv ==
    ASSUME RobIInv, NEW i \in Index, CompleteEntry(i)
    PROVE  RobIInv'
<1> USE DEF RobIInv
<1>1. rob'.head = rob.head /\ rob'.tail = rob.tail /\ rob'.count = rob.count /\ rob' \in Ring
  BY DEF CompleteEntry, Complete, RobTypeOK, Ring, Entry
<1>2. \A j \in Index : /\ rob'.slot[j].valid <=> rob.slot[j].valid
                       /\ ~rob.slot[j].valid => rob'.slot[j] = rob.slot[j]
  BY DEF CompleteEntry, Complete, RobTypeOK, Ring, Entry
<1>3. \A j \in Index : InWindow(rob, j)' <=> InWindow(rob, j)
  BY <1>1 DEF InWindow, Position
<1>4. RobWindow'
  BY <1>1, <1>2, <1>3 DEF RobWindow
<1>5. FreeSlotsAreClean'
  BY <1>2, <1>3 DEF FreeSlotsAreClean, RobWindow
<1> QED
  BY <1>1, <1>4, <1>5 DEF RobTypeOK

LEMMA CommitIInv ==
    ASSUME RobIInv, CommitHead
    PROVE  RobIInv'
<1> USE DEF RobIInv
<1> DEFINE s == Commit(rob)
<1>1. InOrder(rob) /\ ~Empty(rob) /\ rob' = s
  BY IInvInOrder DEF CommitHead, CanCommit
<1>2. /\ InOrder(s)
      /\ \A i \in Index : /\ InWindow(s, i) <=> InWindow(rob, i) /\ i # rob.head
                          /\ i # rob.head => s.slot[i] = rob.slot[i]
      /\ s.slot[rob.head] = EmptyEntry
  BY <1>1, CommitAges
<1>3. RobTypeOK'
  <2>1. rob.count \in 1 .. Capacity /\ NextIndex(rob.head) \in Index
    BY <1>1, NextIndexValue DEF Empty, RobTypeOK, Ring
  <2> QED
    BY <1>1, <2>1 DEF Commit, RobTypeOK, Ring, Entry, EmptyEntry
<1>4. RobWindow'
  <2> HIDE DEF s
  <2> QED
    BY <1>1, <1>2 DEF RobWindow, InOrder, EmptyEntry
<1>5. FreeSlotsAreClean'
  <2> HIDE DEF s
  <2> QED
    BY <1>1, <1>2 DEF FreeSlotsAreClean
<1> QED
  BY <1>3, <1>4, <1>5

LEMMA SquashIInv ==
    ASSUME RobIInv, NEW b \in Index, SquashAfter(b)
    PROVE  RobIInv'
<1> USE DEF RobIInv
<1>1. CASE ~InWindow(rob, b)
  BY <1>1 DEF SquashAfter, SquashYoungerThan, RobTypeOK, RobWindow, FreeSlotsAreClean,
              InWindow, Position
<1>2. CASE InWindow(rob, b)
  <2> DEFINE s == SquashYoungerThan(rob, b)
  <2>1. InOrder(rob) /\ rob' = s
    BY IInvInOrder DEF SquashAfter
  <2>2. /\ InOrder(s) /\ s.head = rob.head
        /\ \A i \in Index :
              /\ InWindow(s, i) <=> InWindow(rob, i) /\ Position(rob, i) <= Position(rob, b)
              /\ s.slot[i] = IF i \in Younger(rob, b) THEN EmptyEntry ELSE rob.slot[i]
    BY <1>2, <2>1, SquashAges
  <2>3. \A i \in Index : InWindow(s, i) <=> InWindow(rob, i) /\ i \notin Younger(rob, b)
    <3> TAKE i \in Index
    <3>1. Position(rob, i) \in Int /\ Position(rob, b) \in Int
      BY PositionValue DEF Index, RobTypeOK, Ring
    <3> HIDE DEF s
    <3> QED
      BY <2>2, <3>1 DEF Younger
  <2>4. RobTypeOK'
    <3>1. s.slot \in [Index -> Entry]
      BY <1>2 DEF SquashYoungerThan, RobTypeOK, Ring, Entry, EmptyEntry
    <3>2. s = [slot |-> s.slot, head |-> s.head, tail |-> s.tail, count |-> s.count]
      BY <1>2 DEF SquashYoungerThan
    <3> HIDE DEF s
    <3> QED
      BY <2>1, <2>2, <3>1, <3>2 DEF RobTypeOK, Ring, InOrder
  <2>5. RobWindow'
    <3> HIDE DEF s
    <3> QED
      BY <2>1, <2>2, <2>3 DEF RobWindow, InOrder, EmptyEntry
  <2>6. FreeSlotsAreClean'
    <3> HIDE DEF s
    <3> QED
      BY <2>1, <2>2, <2>3 DEF FreeSlotsAreClean
  <2> QED
    BY <2>4, <2>5, <2>6
<1> QED
  BY <1>1, <1>2

-----------------------------------------------------------------------------
(* For every capacity and every sequence of allocations, completions,       *)
(* retirements, squashes and resets of ReOrderBuffer.hpp: indices stay in   *)
(* range, valid flags, count and tail agree, and free slots are clean.      *)
THEOREM InvariantHolds == RobSpec => []RobIInv
<1>1. RobInit => RobIInv
  BY InitIInv
<1>2. RobIInv /\ [RobNext]_rob => RobIInv'
  <2> SUFFICES ASSUME RobIInv, [RobNext]_rob PROVE RobIInv'
    OBVIOUS
  <2>1. ASSUME NEW d \in Payload, AllocateEntry(d) PROVE RobIInv'
    BY <2>1, AllocateIInv
  <2>2. ASSUME NEW i \in Index, CompleteEntry(i) PROVE RobIInv'
    BY <2>2, CompleteIInv
  <2>3. ASSUME NEW b \in Index, SquashAfter(b) PROVE RobIInv'
    BY <2>3, SquashIInv
  <2>4. CASE CommitHead
    BY <2>4, CommitIInv
  <2>5. CASE RobReset
    <3>1. RobInit'
      BY <2>5 DEF RobReset, RobInit
    <3> QED
      BY <3>1, InitIInv, PTL
  <2>6. CASE UNCHANGED rob
    BY <2>6 DEF RobIInv, RobTypeOK, RobWindow, FreeSlotsAreClean, InWindow, Position
  <2> QED
    BY <2>1, <2>2, <2>3, <2>4, <2>5, <2>6 DEF RobNext
<1> QED
  BY <1>1, <1>2, PTL DEF RobSpec

(* Whatever is called in whatever order, head, tail and count stay inside   *)
(* the ring and every slot holds an entry (ReOrderBuffer.hpp indexes its    *)
(* array with them unchecked).                                              *)
THEOREM IndicesInRange == RobSpec => []RobTypeOK
<1>1. RobIInv => RobTypeOK
  BY DEF RobIInv
<1> QED
  BY <1>1, InvariantHolds, PTL

(* After any history of wrap-arounds and squashes the valid flags, the      *)
(* count and the tail describe the same window.                             *)
THEOREM WindowConsistent == RobSpec => []RobWindow
<1>1. RobIInv => RobWindow
  BY DEF RobIInv
<1> QED
  BY <1>1, InvariantHolds, PTL

(* A slot outside the window is an empty entry: a late result never makes   *)
(* the slot's next instruction complete.                                    *)
THEOREM NoStaleCompletion == RobSpec => []FreeSlotsAreClean
<1>1. RobIInv => FreeSlotsAreClean
  BY DEF RobIInv
<1> QED
  BY <1>1, InvariantHolds, PTL

-----------------------------------------------------------------------------
(* The ring implements the queue: one lemma per call. *)
Item == [data : Payload \cup {NoData}, done : BOOLEAN]

LEMMA FlightIsQueue ==
    ASSUME NEW r \in Ring
    PROVE  /\ FlightOf(r) \in Seq(Item) /\ Len(FlightOf(r)) = r.count
           /\ \A k \in 1 .. r.count :
                 /\ SlotAt(r, k) \in Index /\ Position(r, SlotAt(r, k)) = k - 1
                 /\ InWindow(r, SlotAt(r, k))
                 /\ FlightOf(r)[k] = [data |-> r.slot[SlotAt(r, k)].data,
                                     done |-> r.slot[SlotAt(r, k)].completed]
<1>1. r.count \in 0 .. Capacity /\ r.head \in Index /\ r.slot \in [Index -> Entry]
  BY DEF Ring
<1>2. ASSUME NEW k \in 1 .. r.count
      PROVE  /\ SlotAt(r, k) \in Index /\ Position(r, SlotAt(r, k)) = k - 1
             /\ InWindow(r, SlotAt(r, k))
  BY <1>1, SlotAtValue DEF InWindow
<1>3. \A k \in 1 .. r.count : [data |-> r.slot[SlotAt(r, k)].data,
                               done |-> r.slot[SlotAt(r, k)].completed] \in Item
  BY <1>1, <1>2 DEF Entry, Item
<1>4. FlightOf(r) \in [1 .. r.count -> Item]
  BY <1>3 DEF FlightOf
<1>5. FlightOf(r) \in Seq(Item) /\ Len(FlightOf(r)) = r.count
  BY <1>1, <1>4
<1> QED
  BY <1>2, <1>5 DEF FlightOf

LEMMA EnterStep ==
    ASSUME RobIInv, RobTypeOK', NEW d \in Payload, AllocateEntry(d)
    PROVE  Queue!Enter(d)
<1> DEFINE s == Allocate(rob, d)
           e == [data |-> d, done |-> FALSE]
<1>1. InOrder(rob) /\ ~Full(rob) /\ rob' = s /\ rob \in Ring /\ s \in Ring
  BY IInvInOrder DEF AllocateEntry, RobIInv, RobTypeOK
<1>2. /\ ~InWindow(rob, rob.tail) /\ Position(rob, rob.tail) = rob.count
      /\ s.count = rob.count + 1 /\ s.head = rob.head
      /\ \A i \in Index : i # rob.tail => s.slot[i] = rob.slot[i]
      /\ s.slot[rob.tail] = [valid |-> TRUE, completed |-> FALSE, data |-> d]
  BY <1>1, AllocateAges
<1> HIDE DEF s
<1>a. rob \in Ring /\ s \in Ring
  BY <1>1
<1>3. \A k \in 1 .. rob.count : FlightOf(s)[k] = FlightOf(rob)[k]
  <2> TAKE k \in 1 .. rob.count
  <2>1. SlotAt(s, k) = SlotAt(rob, k)
    BY <1>2 DEF SlotAt
  <2>2. k \in 1 .. s.count
    BY <1>1, <1>2 DEF Ring
  <2>3. SlotAt(rob, k) \in Index /\ SlotAt(rob, k) # rob.tail
    BY <1>a, <1>2, FlightIsQueue
  <2>4. s.slot[SlotAt(s, k)] = rob.slot[SlotAt(rob, k)]
    BY <1>2, <2>1, <2>3
  <2>5. /\ FlightOf(rob)[k] = [data |-> rob.slot[SlotAt(rob, k)].data,
                               done |-> rob.slot[SlotAt(rob, k)].completed]
        /\ FlightOf(s)[k] = [data |-> s.slot[SlotAt(s, k)].data,
                             done |-> s.slot[SlotAt(s, k)].completed]
    BY <1>a, <2>2, FlightIsQueue
  <2> QED
    BY <2>4, <2>5
<1>4. FlightOf(s)[rob.count + 1] = e
  <2>1. rob.count + 1 \in 1 .. s.count /\ rob.tail \in Index
    BY <1>1, <1>2 DEF Ring
  <2>2. SlotAt(rob, rob.count + 1) = rob.tail
    BY <1>1, <1>2, <2>1, SlotAtPosition DEF Ring
  <2>3. SlotAt(s, rob.count + 1) = rob.tail
    BY <1>2, <2>2 DEF SlotAt
  <2> DEFINE k == rob.count + 1
  <2>4. FlightOf(s)[k] = [data |-> s.slot[SlotAt(s, k)].data,
                         done |-> s.slot[SlotAt(s, k)].completed]
    BY <1>a, <2>1, FlightIsQueue
  <2>5. s.slot[SlotAt(s, k)].data = d /\ s.slot[SlotAt(s, k)].completed = FALSE
    BY <1>2, <2>3
  <2> QED
    BY <2>4, <2>5
<1>5. e \in Item
  BY DEF Item
<1>6. FlightOf(s) = Append(FlightOf(rob), e)
  <2>1. /\ FlightOf(rob) \in Seq(Item) /\ Len(FlightOf(rob)) = rob.count /\ rob.count \in Nat
        /\ FlightOf(s) \in Seq(Item) /\ Len(FlightOf(s)) = rob.count + 1
    BY <1>1, <1>2, FlightIsQueue DEF Ring
  <2>2. /\ Append(FlightOf(rob), e) \in Seq(Item)
        /\ Len(Append(FlightOf(rob), e)) = rob.count + 1
        /\ \A k \in 1 .. rob.count : Append(FlightOf(rob), e)[k] = FlightOf(rob)[k]
        /\ Append(FlightOf(rob), e)[rob.count + 1] = e
    BY <1>5, <2>1, AppendProperties
  <2>3. \A k \in 1 .. rob.count + 1 : FlightOf(s)[k] = Append(FlightOf(rob), e)[k]
    <3> TAKE k \in 1 .. rob.count + 1
    <3>1. k \in 1 .. rob.count \/ k = rob.count + 1
      BY <2>1
    <3> QED
      BY <1>3, <1>4, <2>2, <3>1
  <2> HIDE DEF e
  <2> QED
    BY <2>1, <2>2, <2>3, SeqEqual
<1>7. Len(Flight) < Capacity
  BY <1>1, FlightIsQueue DEF Flight, Ring, Full
<1> QED
  BY <1>1, <1>6, <1>7 DEF Queue!Enter, Flight

LEMMA FinishStep ==
    ASSUME RobIInv, RobTypeOK', NEW i \in Index, CompleteEntry(i)
    PROVE  (\E k \in 1 .. Len(Flight) : Queue!Finish(k)) \/ UNCHANGED Flight
<1>1. /\ rob \in Ring /\ rob' \in Ring /\ rob' = Complete(rob, i)
      /\ rob'.head = rob.head /\ rob'.count = rob.count
  BY DEF RobIInv, RobTypeOK, CompleteEntry, Complete
<1>2. /\ \A k \in 1 .. rob.count : SlotAt(rob', k) = SlotAt(rob, k)
      /\ rob.count \in Nat
  BY <1>1 DEF SlotAt, Ring
<1>3. CASE ~rob.slot[i].valid
  <2>1. rob'.slot = rob.slot
    BY <1>1, <1>3 DEF Complete, Ring
  <2> QED
    BY <1>1, <1>2, <2>1 DEF Flight, FlightOf
<1>4. CASE rob.slot[i].valid
  <2> DEFINE k == Position(rob, i) + 1
             f == [Flight EXCEPT ![k].done = TRUE]
  <2>1. k \in 1 .. rob.count /\ SlotAt(rob, k) = i
    <3>1. InWindow(rob, i)
      BY <1>4 DEF RobIInv, RobWindow
    <3>a. rob.head \in Index
      BY <1>1 DEF Ring
    <3>b. Position(rob, i) \in Nat
      BY <3>a, PositionValue DEF Index
    <3>2. k \in 1 .. Capacity /\ SlotAt(rob, k) = i /\ k - 1 = Position(rob, i)
      BY <3>a, <3>b, SlotAtPosition
    <3> HIDE DEF k
    <3> QED
      BY <1>2, <3>1, <3>2 DEF InWindow
  <2> HIDE DEF k
  <2>2. /\ Flight \in Seq(Item) /\ Len(Flight) = rob.count
        /\ FlightOf(rob') \in Seq(Item) /\ Len(FlightOf(rob')) = rob.count
    BY <1>1, FlightIsQueue DEF Flight
  <2>3. /\ f \in Seq(Item) /\ Len(f) = rob.count
        /\ \A j \in 1 .. rob.count : f[j] = IF j = k THEN [Flight[k] EXCEPT !.done = TRUE]
                                        ELSE Flight[j]
    <3>a. Flight[k] \in Item
      BY <2>1, <2>2, ElementOfSeq
    <3>1. [Flight[k] EXCEPT !.done = TRUE] \in Item
      BY <3>a DEF Item
    <3> QED
      BY <2>1, <2>2, <3>1, ExceptSeq
  <2>4. \A j \in 1 .. rob.count : FlightOf(rob')[j] = f[j]
    <3> TAKE j \in 1 .. rob.count
    <3>1. /\ Flight[j] = [data |-> rob.slot[SlotAt(rob, j)].data,
                          done |-> rob.slot[SlotAt(rob, j)].completed]
          /\ FlightOf(rob')[j] = [data |-> rob'.slot[SlotAt(rob, j)].data,
                                  done |-> rob'.slot[SlotAt(rob, j)].completed]
          /\ SlotAt(rob, j) \in Index
      BY <1>1, <1>2, FlightIsQueue DEF Flight
    <3>2. CASE j = k
      <4>1. rob'.slot[i].data = rob.slot[i].data /\ rob'.slot[i].completed = TRUE
        BY <1>1, <1>4 DEF Complete
      <4>2. f[j] = [Flight[k] EXCEPT !.done = TRUE] /\ Flight[k] \in Item
        <5>1. Flight[k] \in Item
          BY <2>1, <2>2, ElementOfSeq
        <5> HIDE DEF f
        <5> QED
          BY <2>1, <2>3, <3>2, <5>1
      <4>3. FlightOf(rob')[j] = [data |-> rob.slot[i].data, done |-> TRUE]
        BY <2>1, <3>1, <3>2, <4>1
      <4>4. Flight[k].data = rob.slot[i].data
        BY <2>1, <3>1, <3>2
      <4> HIDE DEF f
      <4> QED
        BY <4>2, <4>3, <4>4 DEF Item
    <3>3. CASE j # k
      <4>1. SlotAt(rob, j) # i
        <5>1. Position(rob, SlotAt(rob, j)) = j - 1 /\ Position(rob, SlotAt(rob, k)) = k - 1
          BY <1>1, <2>1, FlightIsQueue
        <5> QED
          BY <1>2, <2>1, <3>3, <5>1
      <4>2. rob'.slot[SlotAt(rob, j)] = rob.slot[SlotAt(rob, j)]
        BY <1>1, <3>1, <4>1 DEF Complete
      <4> QED
        BY <2>3, <3>1, <3>3, <4>2
    <3> QED
      BY <3>2, <3>3
  <2>5. FlightOf(rob') = f
    <3> HIDE DEF f
    <3> QED
      BY <2>2, <2>3, <2>4, SeqEqual
  <2> QED
    BY <2>1, <2>2, <2>5 DEF Queue!Finish, Flight
<1> QED
  BY <1>3, <1>4

LEMMA RetireStep ==
    ASSUME RobIInv, RobTypeOK', CommitHead
    PROVE  Queue!Retire
<1> DEFINE s == Commit(rob)
<1>1. /\ InOrder(rob) /\ ~Empty(rob) /\ rob' = s /\ rob \in Ring /\ s \in Ring
      /\ rob.slot[rob.head].completed
  BY IInvInOrder DEF CommitHead, CanCommit, RobIInv, RobTypeOK
<1>2. /\ Position(rob, rob.head) = 0 /\ s.count = rob.count - 1
      /\ \A i \in Index : i # rob.head => /\ Position(s, i) = Position(rob, i) - 1
                                          /\ s.slot[i] = rob.slot[i]
  BY <1>1, CommitAges
<1>3. rob.count \in Nat \ {0} /\ rob.count \in 1 .. Capacity /\ rob.head \in Index
      /\ s.head \in Index
  BY <1>1 DEF Ring, Empty
<1> HIDE DEF s
<1>4. SlotAt(rob, 1) = rob.head
  BY <1>1, <1>2, <1>3, SlotAtPosition
<1>5. /\ Flight \in Seq(Item) /\ Len(Flight) = rob.count
      /\ FlightOf(s) \in Seq(Item) /\ Len(FlightOf(s)) = rob.count - 1
  BY <1>1, <1>2, FlightIsQueue DEF Flight
<1>a. rob \in Ring
  BY <1>1
<1>6. Flight # << >> /\ Head(Flight).done
  <2>1. Flight[1].done
    <3>1. 1 \in 1 .. rob.count
      BY <1>3
    <3>a. \A k \in 1 .. rob.count :
             FlightOf(rob)[k] = [data |-> rob.slot[SlotAt(rob, k)].data,
                                 done |-> rob.slot[SlotAt(rob, k)].completed]
      BY <1>a, FlightIsQueue
    <3>2. FlightOf(rob)[1] = [data |-> rob.slot[SlotAt(rob, 1)].data,
                              done |-> rob.slot[SlotAt(rob, 1)].completed]
      BY <3>1, <3>a, Zenon
    <3>3. FlightOf(rob)[1].done = rob.slot[SlotAt(rob, 1)].completed
      BY <3>2
    <3> QED
      BY <1>1, <1>4, <3>3 DEF Flight
  <2> QED
    BY <1>3, <1>5, <2>1
<1>7. \A k \in 1 .. rob.count - 1 : FlightOf(s)[k] = Flight[k + 1]
  <2> TAKE k \in 1 .. rob.count - 1
  <2>1. /\ k + 1 \in 1 .. rob.count /\ k \in 1 .. s.count /\ k \in 1 .. Capacity
    BY <1>2, <1>3
  <2>2. /\ SlotAt(rob, k + 1) \in Index /\ Position(rob, SlotAt(rob, k + 1)) = k
        /\ Flight[k + 1] = [data |-> rob.slot[SlotAt(rob, k + 1)].data,
                            done |-> rob.slot[SlotAt(rob, k + 1)].completed]
    <3> DEFINE j == k + 1
    <3>1. /\ SlotAt(rob, j) \in Index /\ Position(rob, SlotAt(rob, j)) = j - 1
          /\ Flight[j] = [data |-> rob.slot[SlotAt(rob, j)].data,
                          done |-> rob.slot[SlotAt(rob, j)].completed]
      BY <1>1, <2>1, FlightIsQueue DEF Flight
    <3> QED
      BY <3>1
  <2>3. SlotAt(rob, k + 1) # rob.head
    BY <1>2, <2>2
  <2>4. Position(s, SlotAt(rob, k + 1)) + 1 = k
    BY <1>2, <2>2, <2>3
  <2>5. SlotAt(s, k) = SlotAt(rob, k + 1)
    BY <1>3, <2>2, <2>4, SlotAtPosition
  <2> QED
    BY <1>1, <1>2, <2>1, <2>2, <2>3, <2>5, FlightIsQueue
<1>8. FlightOf(s) = Tail(Flight)
  <2>1. /\ Tail(Flight) \in Seq(Item) /\ Len(Tail(Flight)) = rob.count - 1
        /\ \A k \in 1 .. rob.count - 1 : Tail(Flight)[k] = Flight[k + 1]
    BY <1>5, <1>6, HeadTailProperties
  <2>2. \A k \in 1 .. rob.count - 1 : FlightOf(s)[k] = Tail(Flight)[k]
    BY <1>7, <2>1
  <2> QED
    BY <1>5, <2>1, <2>2, SeqEqual
<1> QED
  BY <1>1, <1>6, <1>8 DEF Queue!Retire, Flight

LEMMA FlushStep ==
    ASSUME RobIInv, RobTypeOK', NEW b \in Index, SquashAfter(b)
    PROVE  (\E k \in 1 .. Len(Flight) : Queue!FlushAfter(k)) \/ UNCHANGED Flight
<1>1. CASE ~InWindow(rob, b)
  BY <1>1 DEF SquashAfter, SquashYoungerThan, Flight
<1>2. CASE InWindow(rob, b)
  <2> DEFINE s == SquashYoungerThan(rob, b)
             n == Position(rob, b) + 1
  <2>1. InOrder(rob) /\ rob' = s /\ rob \in Ring /\ s \in Ring
    BY IInvInOrder DEF SquashAfter, RobIInv, RobTypeOK
  <2>2. /\ s.count = n /\ s.head = rob.head
        /\ \A i \in Index : s.slot[i] = IF i \in Younger(rob, b) THEN EmptyEntry ELSE rob.slot[i]
    BY <1>2, <2>1, SquashAges
  <2>3. n \in 1 .. rob.count /\ rob.count \in Nat /\ Position(rob, b) = n - 1
    <3>a. rob.head \in Index /\ rob.count \in Nat
      BY <2>1 DEF Ring
    <3>1. Position(rob, b) \in Nat /\ rob.count \in Nat
      BY <3>a, PositionValue DEF Index
    <3> QED
      BY <1>2, <3>1 DEF InWindow
  <2> HIDE DEF s, n
  <2>4. /\ Flight \in Seq(Item) /\ Len(Flight) = rob.count
        /\ FlightOf(s) \in Seq(Item) /\ Len(FlightOf(s)) = n
    BY <2>1, <2>2, FlightIsQueue DEF Flight
  <2>5. \A k \in 1 .. n : FlightOf(s)[k] = Flight[k]
    <3> TAKE k \in 1 .. n
    <3>1. k \in 1 .. rob.count /\ k \in 1 .. s.count
      BY <2>2, <2>3
    <3>2. SlotAt(s, k) = SlotAt(rob, k)
      BY <2>2 DEF SlotAt
    <3>3. /\ SlotAt(rob, k) \in Index /\ Position(rob, SlotAt(rob, k)) = k - 1
      BY <2>1, <3>1, FlightIsQueue
    <3>4. SlotAt(rob, k) \notin Younger(rob, b)
      BY <2>3, <3>3 DEF Younger
    <3>5. s.slot[SlotAt(rob, k)] = rob.slot[SlotAt(rob, k)]
      BY <2>2, <3>3, <3>4
    <3>6. /\ Flight[k] = [data |-> rob.slot[SlotAt(rob, k)].data,
                          done |-> rob.slot[SlotAt(rob, k)].completed]
          /\ FlightOf(s)[k] = [data |-> s.slot[SlotAt(s, k)].data,
                               done |-> s.slot[SlotAt(s, k)].completed]
      BY <2>1, <3>1, FlightIsQueue DEF Flight
    <3> QED
      BY <3>2, <3>5, <3>6
  <2>6. FlightOf(s) = SubSeq(Flight, 1, n)
    <3>1. /\ SubSeq(Flight, 1, n) \in Seq(Item) /\ Len(SubSeq(Flight, 1, n)) = n
          /\ \A k \in 1 .. n : SubSeq(Flight, 1, n)[k] = Flight[k]
      BY <2>3, <2>4
    <3> QED
      BY <2>4, <2>5, <3>1, SeqEqual
  <2> QED
    BY <2>1, <2>3, <2>4, <2>6 DEF Queue!FlushAfter, Flight
<1> QED
  BY <1>1, <1>2

(* For every capacity the ring buffer is an in-order queue: program order   *)
(* survives every wrap-around, only a completed oldest instruction leaves,  *)
(* and a squash removes exactly what is younger than the branch.            *)
THEOREM RingImplementsQueue == RobSpec => ImplementsQueue
<1>1. RobInit => Queue!Init
  <2> SUFFICES ASSUME RobInit PROVE Flight = << >>
    BY DEF Queue!Init
  <2>1. rob \in Ring /\ rob.count = 0
    BY InitIInv DEF RobInit, ResetRob, RobIInv, RobTypeOK
  <2>2. Flight \in Seq(Item) /\ Len(Flight) = 0
    BY <2>1, FlightIsQueue DEF Flight
  <2> QED
    BY <2>2, EmptySeq
<1>2. RobIInv /\ RobIInv' /\ [RobNext]_rob => [Queue!Next]_Flight
  <2> SUFFICES ASSUME RobIInv, RobIInv', [RobNext]_rob PROVE [Queue!Next]_Flight
    OBVIOUS
  <2>1. RobTypeOK'
    BY DEF RobIInv
  <2>2. ASSUME NEW d \in Payload, AllocateEntry(d) PROVE [Queue!Next]_Flight
    BY <2>1, <2>2, EnterStep DEF Queue!Next
  <2>3. ASSUME NEW i \in Index, CompleteEntry(i) PROVE [Queue!Next]_Flight
    BY <2>1, <2>3, FinishStep DEF Queue!Next
  <2>4. ASSUME NEW b \in Index, SquashAfter(b) PROVE [Queue!Next]_Flight
    BY <2>1, <2>4, FlushStep DEF Queue!Next
  <2>5. CASE CommitHead
    BY <2>1, <2>5, RetireStep DEF Queue!Next
  <2>6. CASE RobReset
    <3>1. rob' \in Ring /\ rob'.count = 0
      BY <2>1, <2>6 DEF RobReset, ResetRob, RobTypeOK
    <3>2. FlightOf(rob') \in Seq(Item) /\ Len(FlightOf(rob')) = 0
      BY <3>1, FlightIsQueue
    <3>3. Flight' = << >>
      BY <3>2, EmptySeq DEF Flight
    <3> QED
      BY <3>3 DEF Queue!Next
  <2>7. CASE UNCHANGED rob
    BY <2>7 DEF Flight
  <2> QED
    BY <2>2, <2>3, <2>4, <2>5, <2>6, <2>7 DEF RobNext
<1> QED
  BY <1>1, <1>2, InvariantHolds, PTL DEF RobSpec, ImplementsQueue, Queue!Spec
=============================================================================
