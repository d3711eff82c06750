---------------------------- MODULE Arithmetic_proofs ----------------------------
(***************************************************************************)
(* The arithmetic the other proofs rest on: words that wrap, which slot of *)
(* a ring is how old and what a call does to the ages, and which line and  *)
(* offset of a cache an address names.  Nothing proved elsewhere unfolds   *)
(* the remainder operator on variables of its own.                         *)
(***************************************************************************)
EXTENDS RobOps, DirectMapped, TLAPS

-----------------------------------------------------------------------------
(* Quotients and remainders. *)

LEMMA Remainder ==
    ASSUME NEW x \in Int, NEW m \in Nat \ {0}
    PROVE  /\ x % m \in 0 .. m - 1
           /\ x \div m \in Int
           /\ x = (x \div m) * m + (x % m)
  OBVIOUS

(* Those of a natural number. *)
LEMMA DivMod ==
    ASSUME NEW a \in Nat, NEW d \in Nat \ {0}
    PROVE  /\ a \div d \in Nat
           /\ a % d \in 0 .. d - 1
           /\ a = (a \div d) * d + (a % d)
  OBVIOUS

(* Quotient and remainder are determined by the number. *)
LEMMA DivModUnique ==
    ASSUME NEW d \in Nat \ {0}, NEW q1 \in Int, NEW q2 \in Int,
           NEW r1 \in 0 .. d - 1, NEW r2 \in 0 .. d - 1,
           q1 * d + r1 = q2 * d + r2
    PROVE  q1 = q2 /\ r1 = r2
<1>1. ASSUME NEW p \in Int, NEW q \in Int, p < q
      PROVE  p * d + d <= q * d
  <2>1. PICK k \in Nat : q = p + 1 + k
    <3>1. q - p - 1 \in Nat /\ q = p + 1 + (q - p - 1)
      BY <1>1
    <3> QED
      BY <3>1
  <2>2. q * d = p * d + d + k * d
    BY <2>1
  <2>3. k * d \in Nat /\ p * d \in Int
    OBVIOUS
  <2> QED
    BY <2>2, <2>3
<1>2. q1 * d \in Int /\ q2 * d \in Int
  OBVIOUS
<1>3. ~(q1 < q2)
  <2>1. SUFFICES ASSUME q1 < q2 PROVE FALSE
    OBVIOUS
  <2>2. q1 * d + d <= q2 * d
    BY <1>1, <2>1
  <2> QED
    BY <2>2, <1>2
<1>4. ~(q2 < q1)
  <2>1. SUFFICES ASSUME q2 < q1 PROVE FALSE
    OBVIOUS
  <2>2. q2 * d + d <= q1 * d
    BY <1>1, <2>1
  <2> QED
    BY <2>2, <1>2
<1>5. q1 = q2
  BY <1>3, <1>4
<1> QED
  BY <1>5, <1>2

(* Adding an immediate before or after it is cut to a word is the same. *)
LEMMA RemainderOfSum ==
    ASSUME NEW a \in Int, NEW b \in Int, NEW m \in Nat \ {0}
    PROVE  (a + (b % m)) % m = (a + b) % m
<1> DEFINE k == b \div m
           q == (a + (b % m)) \div m
           p == (a + b) \div m
<1>1. b % m \in Int /\ k \in Int /\ b = k * m + (b % m)
  BY Remainder
<1>2. /\ (a + (b % m)) % m \in 0 .. m - 1 /\ q \in Int
      /\ a + (b % m) = q * m + ((a + (b % m)) % m)
  <2>1. a + (b % m) \in Int
    BY <1>1
  <2> QED
    BY <2>1, Remainder
<1>3. /\ (a + b) % m \in 0 .. m - 1 /\ p \in Int
      /\ a + b = p * m + ((a + b) % m)
  <2>1. a + b \in Int
    OBVIOUS
  <2> QED
    BY <2>1, Remainder
<1> DEFINE r == (a + (b % m)) % m
           s == (a + b) % m
           c == b % m
<1>4. /\ r \in 0 .. m - 1 /\ s \in 0 .. m - 1 /\ c \in Int
      /\ b = k * m + c /\ a + c = q * m + r /\ a + b = p * m + s
  BY <1>1, <1>2, <1>3
<1> HIDE DEF k, q, p, r, s, c
<1>5. (k + q) * m + r = p * m + s
  <2>1. (k + q) * m = k * m + q * m
    BY <1>1, <1>2
  <2>2. k * m \in Int /\ q * m \in Int /\ p * m \in Int
    BY <1>1, <1>2, <1>3
  <2> QED
    BY <1>4, <2>1, <2>2
<1>6. r = s
  <2>1. k + q \in Int /\ p \in Int
    BY <1>1, <1>2, <1>3
  <2>2. ASSUME NEW q1 \in Int, NEW q2 \in Int, q1 * m + r = q2 * m + s
        PROVE  r = s
    BY <1>4, <2>2, DivModUnique
  <2> QED
    BY <1>5, <2>1, <2>2
<1> QED
  BY <1>6 DEF r, s

(* Two words are equal when their difference is 0. *)
LEMMA DifferenceIsZero ==
    ASSUME NEW m \in Nat \ {0}, NEW a \in 0 .. m - 1, NEW b \in 0 .. m - 1
    PROVE  (a - b) % m = 0 <=> a = b
<1>1. (a - b) % m = IF a >= b THEN a - b ELSE a - b + m
  OBVIOUS
<1> QED
  BY <1>1

-----------------------------------------------------------------------------
(* The ring, for every capacity: its operations as case distinctions. *)

USE CapacityAssumption

LEMMA NextIndexValue ==
    ASSUME NEW i \in Index
    PROVE  /\ NextIndex(i) \in Index
           /\ NextIndex(i) = IF i + 1 = Capacity THEN 0 ELSE i + 1
BY DEF NextIndex, Index

LEMMA PositionValue ==
    ASSUME NEW r, r.head \in Index, NEW i \in Index
    PROVE  /\ Position(r, i) \in Index
           /\ Position(r, i) = IF i >= r.head THEN i - r.head ELSE i - r.head + Capacity
BY DEF Position, Index

LEMMA TailValue ==
    ASSUME NEW h \in Index, NEW c \in 0 .. Capacity
    PROVE  (h + c) % Capacity = IF h + c < Capacity THEN h + c ELSE h + c - Capacity
BY DEF Index

-----------------------------------------------------------------------------
(* Slots and positions are two names of the same instruction. *)

LEMMA SlotAtValue ==
    ASSUME NEW r, r.head \in Index, NEW k \in 1 .. Capacity
    PROVE  /\ SlotAt(r, k) \in Index
           /\ Position(r, SlotAt(r, k)) = k - 1
<1> DEFINE h == r.head
           c == k - 1
<1>1. SlotAt(r, k) = (h + c) % Capacity
  BY DEF SlotAt, Index
<1>2. SlotAt(r, k) = IF h + c < Capacity THEN h + c ELSE h + c - Capacity
  BY <1>1, TailValue
<1>3. SlotAt(r, k) \in Index
  BY <1>2 DEF Index
<1>4. Position(r, SlotAt(r, k)) = IF SlotAt(r, k) >= h THEN SlotAt(r, k) - h
                                  ELSE SlotAt(r, k) - h + Capacity
  BY <1>3, PositionValue
<1> QED
  BY <1>2, <1>3, <1>4 DEF Index

LEMMA PositionInjective ==
    ASSUME NEW r, r.head \in Index, NEW i \in Index, NEW j \in Index,
           Position(r, i) = Position(r, j)
    PROVE  i = j
BY PositionValue DEF Index

LEMMA SlotAtPosition ==
    ASSUME NEW r, r.head \in Index, NEW i \in Index
    PROVE  /\ Position(r, i) + 1 \in 1 .. Capacity
           /\ SlotAt(r, Position(r, i) + 1) = i
<1>1. Position(r, i) + 1 \in 1 .. Capacity /\ Position(r, i) \in Index
  BY PositionValue DEF Index
<1>2. Position(r, SlotAt(r, Position(r, i) + 1)) = Position(r, i)
  BY <1>1, SlotAtValue DEF Index
<1> QED
  BY <1>1, <1>2, SlotAtValue, PositionInjective

-----------------------------------------------------------------------------
(* What the calls do to the ages.  A ring is in order when its tail is      *)
(* where the window ends.                                                   *)
InOrder(r) == /\ DOMAIN r.slot = Index
              /\ r.head \in Index /\ r.tail \in Index /\ r.count \in 0 .. Capacity
              /\ r.tail = (r.head + r.count) % Capacity

LEMMA AllocateAges ==
    ASSUME NEW r, InOrder(r), ~Full(r), NEW d
    PROVE  LET s == Allocate(r, d)
           IN  /\ ~InWindow(r, r.tail) /\ Position(r, r.tail) = r.count
               /\ InOrder(s) /\ s.count = r.count + 1 /\ s.head = r.head
               /\ \A i \in Index : /\ Position(s, i) = Position(r, i)
                                   /\ InWindow(s, i) <=> InWindow(r, i) \/ i = r.tail
                                   /\ i # r.tail => s.slot[i] = r.slot[i]
               /\ s.slot[r.tail] = [valid |-> TRUE, completed |-> FALSE, data |-> d]
<1> DEFINE s == Allocate(r, d)
           h == r.head
           t == r.tail
           c == r.count
<1>1. h \in Index /\ t \in Index /\ c \in 0 .. Capacity - 1 /\ DOMAIN r.slot = Index
  BY DEF InOrder, Full
<1>2. s.head = h /\ s.tail = NextIndex(t) /\ s.count = c + 1
  BY DEF Allocate
<1>3. t = IF h + c < Capacity THEN h + c ELSE h + c - Capacity
  BY <1>1, TailValue DEF InOrder
<1>4. Position(r, t) = c
  <2>1. Position(r, t) = IF t >= h THEN t - h ELSE t - h + Capacity
    BY <1>1, PositionValue
  <2> QED
    BY <1>1, <1>3, <2>1 DEF Index
<1>5. \A i \in Index : Position(s, i) = Position(r, i)
  BY <1>2 DEF Position
<1>6. \A i \in Index : Position(r, i) = c => i = t
  BY <1>1, <1>4, PositionInjective
<1>7. \A i \in Index : InWindow(s, i) <=> InWindow(r, i) \/ i = t
  <2> TAKE i \in Index
  <2>1. Position(r, i) \in Int
    BY <1>1, PositionValue DEF Index
  <2>2. InWindow(s, i) <=> Position(r, i) < c + 1
    BY <1>2, <1>5 DEF InWindow
  <2>3. InWindow(r, i) <=> Position(r, i) < c
    BY DEF InWindow
  <2> HIDE DEF s, t, c
  <2> QED
    BY <1>1, <1>4, <1>6, <2>1, <2>2, <2>3 DEF Index
<1>8. NextIndex(t) = (h + (c + 1)) % Capacity
  <2>1. c + 1 \in 0 .. Capacity
    BY <1>1
  <2>2. (h + (c + 1)) % Capacity = IF h + (c + 1) < Capacity THEN h + (c + 1)
                                   ELSE h + (c + 1) - Capacity
    BY <1>1, <2>1, TailValue
  <2>3. NextIndex(t) = IF t + 1 = Capacity THEN 0 ELSE t + 1
    BY <1>1, NextIndexValue
  <2> DEFINE u == (h + (c + 1)) % Capacity
             v == NextIndex(t)
  <2>4. u = IF h + (c + 1) < Capacity THEN h + (c + 1) ELSE h + (c + 1) - Capacity
    BY <2>2
  <2>5. v = IF t + 1 = Capacity THEN 0 ELSE t + 1
    BY <2>3
  <2>6. t = IF h + c < Capacity THEN h + c ELSE h + c - Capacity
    BY <1>3
  <2>7. /\ h \in Int /\ t \in Int /\ c \in Int /\ Capacity \in Int /\ t < Capacity
        /\ h < Capacity /\ c < Capacity
    BY <1>1 DEF Index
  <2>8. v = u
    <3> HIDE DEF s, t, h, c, u, v
    <3>1. CASE h + c < Capacity
      BY <2>4, <2>5, <2>6, <2>7, <3>1
    <3>2. CASE ~(h + c < Capacity)
      BY <2>4, <2>5, <2>6, <2>7, <3>2
    <3> QED
      BY <3>1, <3>2
  <2> QED
    BY <2>8
<1>9. /\ DOMAIN s.slot = Index
      /\ s.slot[t] = [valid |-> TRUE, completed |-> FALSE, data |-> d]
      /\ \A i \in Index : i # t => s.slot[i] = r.slot[i]
  BY <1>1 DEF Allocate
<1>10. InOrder(s)
  <2>1. NextIndex(t) \in Index /\ c + 1 \in 0 .. Capacity
    BY <1>1, NextIndexValue
  <2> QED
    BY <1>1, <1>2, <1>8, <1>9, <2>1 DEF InOrder
<1> QED
  BY <1>1, <1>2, <1>4, <1>5, <1>7, <1>9, <1>10 DEF InWindow

LEMMA CommitAges ==
    ASSUME NEW r, InOrder(r), ~Empty(r)
    PROVE  LET s == Commit(r)
           IN  /\ InWindow(r, r.head) /\ Position(r, r.head) = 0
               /\ InOrder(s) /\ s.count = r.count - 1
               /\ \A i \in Index : /\ InWindow(s, i) <=> InWindow(r, i) /\ i # r.head
                                   /\ i # r.head => /\ Position(s, i) = Position(r, i) - 1
                                                    /\ s.slot[i] = r.slot[i]
               /\ s.slot[r.head] = EmptyEntry
<1> DEFINE s == Commit(r)
           h == r.head
           t == r.tail
           c == r.count
<1>1. h \in Index /\ t \in Index /\ c \in 1 .. Capacity /\ DOMAIN r.slot = Index
  BY DEF InOrder, Empty
<1>2. s.head = NextIndex(h) /\ s.tail = t /\ s.count = c - 1
  BY DEF Commit
<1>3. NextIndex(h) \in Index /\ NextIndex(h) = IF h + 1 = Capacity THEN 0 ELSE h + 1
  BY <1>1, NextIndexValue
<1>4. \A i \in Index : Position(r, i) = IF i >= h THEN i - h ELSE i - h + Capacity
  BY <1>1, PositionValue
<1>5. \A i \in Index : Position(s, i) = IF i >= NextIndex(h) THEN i - NextIndex(h)
                                        ELSE i - NextIndex(h) + Capacity
  BY <1>2, <1>3, PositionValue
<1>6. /\ Position(r, h) = 0
      /\ \A i \in Index : i # h => Position(s, i) = Position(r, i) - 1
      /\ Position(s, h) = Capacity - 1
  <2>1. Position(r, h) = 0 /\ Position(s, h) = Capacity - 1
    <3>1. /\ Position(r, h) = IF h >= h THEN h - h ELSE h - h + Capacity
          /\ Position(s, h) = IF h >= NextIndex(h) THEN h - NextIndex(h)
                              ELSE h - NextIndex(h) + Capacity
      BY <1>1, <1>4, <1>5
    <3> HIDE DEF s, t, h, c
    <3> QED
      BY <1>1, <1>3, <3>1 DEF Index
  <2>2. ASSUME NEW i \in Index, i # h
        PROVE  Position(s, i) = Position(r, i) - 1
    <3>1. /\ Position(r, i) = IF i >= h THEN i - h ELSE i - h + Capacity
          /\ Position(s, i) = IF i >= NextIndex(h) THEN i - NextIndex(h)
                              ELSE i - NextIndex(h) + Capacity
      BY <1>4, <1>5
    <3> HIDE DEF s, t, h, c
    <3> QED
      BY <1>1, <1>3, <2>2, <3>1 DEF Index
  <2> QED
    BY <2>1, <2>2
<1>7. \A i \in Index : InWindow(s, i) <=> InWindow(r, i) /\ i # h
  <2> TAKE i \in Index
  <2>1. Position(r, i) \in Int
    BY <1>1, PositionValue DEF Index
  <2>2. InWindow(s, i) <=> Position(s, i) < c - 1
    BY <1>2 DEF InWindow
  <2>3. InWindow(r, i) <=> Position(r, i) < c
    BY DEF InWindow
  <2> HIDE DEF s, t, h, c
  <2> QED
    BY <1>1, <1>6, <2>1, <2>2, <2>3 DEF Index
<1>8. t = (NextIndex(h) + (c - 1)) % Capacity
  <2>1. c - 1 \in 0 .. Capacity
    BY <1>1
  <2>2. (NextIndex(h) + (c - 1)) % Capacity =
           IF NextIndex(h) + (c - 1) < Capacity THEN NextIndex(h) + (c - 1)
           ELSE NextIndex(h) + (c - 1) - Capacity
    BY <1>3, <2>1, TailValue
  <2>3. t = IF h + c < Capacity THEN h + c ELSE h + c - Capacity
    BY <1>1, TailValue DEF InOrder
  <2> DEFINE u == (NextIndex(h) + (c - 1)) % Capacity
             v == NextIndex(h)
  <2>4. u = IF v + (c - 1) < Capacity THEN v + (c - 1) ELSE v + (c - 1) - Capacity
    BY <2>2
  <2>5. v = IF h + 1 = Capacity THEN 0 ELSE h + 1
    BY <1>3
  <2>6. h \in Int /\ c \in Int /\ Capacity \in Int /\ h < Capacity /\ 1 <= c /\ c <= Capacity
    BY <1>1 DEF Index
  <2>7. t = u
    <3> HIDE DEF s, t, h, c, u, v
    <3>1. CASE h + 1 = Capacity
      BY <2>3, <2>4, <2>5, <2>6, <3>1
    <3>2. CASE h + 1 # Capacity
      BY <2>3, <2>4, <2>5, <2>6, <3>2
    <3> QED
      BY <3>1, <3>2
  <2> QED
    BY <2>7
<1>9. /\ DOMAIN s.slot = Index
      /\ s.slot[h] = EmptyEntry
      /\ \A i \in Index : i # h => s.slot[i] = r.slot[i]
  BY <1>1 DEF Commit
<1>10. InOrder(s)
  BY <1>1, <1>2, <1>3, <1>8, <1>9 DEF InOrder
<1> QED
  BY <1>1, <1>2, <1>6, <1>7, <1>9, <1>10 DEF InWindow

LEMMA SquashAges ==
    ASSUME NEW r, InOrder(r), NEW b \in Index, InWindow(r, b)
    PROVE  LET s == SquashYoungerThan(r, b)
           IN  /\ InOrder(s) /\ s.count = Position(r, b) + 1 /\ s.head = r.head
               /\ \A i \in Index :
                     /\ Position(s, i) = Position(r, i)
                     /\ InWindow(s, i) <=> InWindow(r, i) /\ Position(r, i) <= Position(r, b)
                     /\ s.slot[i] = IF i \in Younger(r, b) THEN EmptyEntry ELSE r.slot[i]
<1> DEFINE s == SquashYoungerThan(r, b)
           h == r.head
           p == Position(r, b)
<1>1. h \in Index /\ r.count \in 0 .. Capacity /\ p \in Index
  BY PositionValue DEF InOrder
<1>2. YoungerCount(r, b) = r.count - p - 1
  BY DEF YoungerCount
<1>3. s.head = h /\ s.tail = NextIndex(b) /\ s.count = p + 1
  <2>1. s.count = r.count - YoungerCount(r, b)
    BY DEF SquashYoungerThan
  <2>2. s.count = p + 1
    <3> HIDE DEF p, s
    <3> QED
      BY <1>1, <1>2, <2>1 DEF Index
  <2> QED
    BY <2>2 DEF SquashYoungerThan
<1>4. /\ DOMAIN s.slot = Index
      /\ \A i \in Index : s.slot[i] = IF i \in Younger(r, b) THEN EmptyEntry ELSE r.slot[i]
  BY DEF SquashYoungerThan
<1>5. \A i \in Index : Position(s, i) = Position(r, i)
  BY <1>3 DEF Position
<1>6. \A i \in Index : InWindow(s, i) <=> InWindow(r, i) /\ Position(r, i) <= p
  <2> TAKE i \in Index
  <2>1. Position(r, i) \in Index /\ Position(s, i) = Position(r, i)
    BY <1>1, <1>5, PositionValue
  <2>2. p < r.count
    BY DEF InWindow
  <2> HIDE DEF p, s
  <2> QED
    BY <1>1, <1>3, <2>1, <2>2 DEF InWindow, Index
<1>7. NextIndex(b) = (h + (p + 1)) % Capacity
  <2>1. p = IF b >= h THEN b - h ELSE b - h + Capacity
    BY <1>1, PositionValue
  <2>2. NextIndex(b) = IF b + 1 = Capacity THEN 0 ELSE b + 1
    BY NextIndexValue
  <2>3. p + 1 \in 0 .. Capacity
    BY <1>1 DEF Index
  <2>4. (h + (p + 1)) % Capacity = IF h + (p + 1) < Capacity THEN h + (p + 1)
                                   ELSE h + (p + 1) - Capacity
    BY <1>1, <2>3, TailValue
  <2> QED
    BY <1>1, <2>1, <2>2, <2>4 DEF Index
<1>8. InOrder(s)
  <2>1. NextIndex(b) \in Index /\ p + 1 \in 0 .. Capacity
    BY <1>1, NextIndexValue DEF Index
  <2> HIDE DEF p, s
  <2> QED
    BY <1>1, <1>3, <1>4, <1>7, <2>1 DEF InOrder
<1> QED
  BY <1>3, <1>4, <1>5, <1>6, <1>8

-----------------------------------------------------------------------------
(* The address split, for every geometry. *)

(* The three parts of an address are in range and make up the address. *)
LEMMA Placement ==
    ASSUME NEW a \in Nat
    PROVE  /\ LineOf(a) \in Line /\ OffsetOf(a) \in Offset /\ TagOf(a) \in Nat
           /\ BlockOf(a) \in Nat
           /\ BlockOf(a) = TagOf(a) * NumLines + LineOf(a)
           /\ a = BlockOf(a) * WordsPerLine + OffsetOf(a)
<1>1. a \in Nat /\ NumLines \in Nat \ {0} /\ WordsPerLine \in Nat \ {0}
  BY GeometryAssumption
<1>2. /\ BlockOf(a) \in Nat /\ OffsetOf(a) \in Offset
      /\ a = BlockOf(a) * WordsPerLine + OffsetOf(a)
  BY <1>1, DivMod DEF BlockOf, OffsetOf, Offset
<1>3. /\ TagOf(a) \in Nat /\ LineOf(a) \in Line
      /\ BlockOf(a) = TagOf(a) * NumLines + LineOf(a)
  BY <1>1, <1>2, DivMod DEF TagOf, LineOf, Line
<1> QED
  BY <1>2, <1>3

(* A line with tag t holds exactly the words that belong to it, each at its *)
(* offset.                                                                  *)
LEMMA LineHoldsItsWords ==
    ASSUME NEW a \in Nat, NEW i \in Line, NEW t \in Nat
    PROVE  /\ BaseFor(t, i) \in Nat
           /\ a - BaseFor(t, i) \in Offset <=> i = LineOf(a) /\ t = TagOf(a)
           /\ i = LineOf(a) /\ t = TagOf(a) => a - BaseFor(t, i) = OffsetOf(a)
<1> DEFINE block == t * NumLines + i
           base  == BaseFor(t, i)
<1>1. a \in Nat /\ NumLines \in Nat \ {0} /\ WordsPerLine \in Nat \ {0} /\ i \in Nat
  BY GeometryAssumption DEF Line
<1>2. block \in Nat
  <2>1. t * NumLines \in Nat
    BY <1>1
  <2> QED
    BY <1>1, <2>1
<1>3. base \in Nat /\ base = block * WordsPerLine
  <2>1. base = block * WordsPerLine
    BY DEF BaseFor
  <2>2. block * WordsPerLine \in Nat
    <3> HIDE DEF block
    <3> QED
      BY <1>1, <1>2
  <2> QED
    BY <2>1, <2>2
<1>4. ASSUME i = LineOf(a), t = TagOf(a)
      PROVE  a - base = OffsetOf(a)
  <2>1. block = BlockOf(a)
    BY <1>4, Placement
  <2>2. a = base + OffsetOf(a)
    BY <1>3, <2>1, Placement
  <2>3. OffsetOf(a) \in Int
    BY Placement DEF Offset
  <2> HIDE DEF base
  <2> QED
    BY <1>3, <2>2, <2>3
<1>5. ASSUME a - base \in Offset
      PROVE  i = LineOf(a) /\ t = TagOf(a)
  <2>1. PICK r \in Offset : r = a - base
    BY <1>5
  <2>2. a = base + r
    <3> HIDE DEF base
    <3> QED
      BY <1>1, <1>3, <2>1, GeometryAssumption DEF Offset
  <2>3. BlockOf(a) * WordsPerLine + OffsetOf(a) = block * WordsPerLine + r
    BY <1>3, <2>2, Placement
  <2>4. BlockOf(a) = block
    <3>1. /\ BlockOf(a) \in Nat /\ OffsetOf(a) \in 0 .. WordsPerLine - 1
          /\ r \in 0 .. WordsPerLine - 1
      BY Placement DEF Offset
    <3> HIDE DEF block
    <3> QED
      BY <1>1, <1>2, <2>3, <3>1, DivModUnique
  <2>5. TagOf(a) * NumLines + LineOf(a) = t * NumLines + i
    BY <2>4, Placement
  <2>6. TagOf(a) \in Int /\ t \in Int /\ LineOf(a) \in 0 .. NumLines - 1 /\ i \in 0 .. NumLines - 1
    BY Placement DEF Line
  <2> QED
    BY <1>1, <2>5, <2>6, DivModUnique
<1> HIDE DEF block
<1>6. OffsetOf(a) \in Offset
  BY Placement
<1> QED
  BY <1>3, <1>4, <1>5, <1>6
=============================================================================
