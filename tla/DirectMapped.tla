------------------------------ MODULE DirectMapped ------------------------------
(***************************************************************************)
(* Where a word belongs in a direct-mapped cache.  Both caches of the      *)
(* superscalar sources split addresses this way; the data cache divides,   *)
(* the instruction cache shifts and masks, and sizes are powers of two     *)
(* there.  Addresses count words.                                          *)
(***************************************************************************)
EXTENDS Integers

CONSTANTS NumLines, WordsPerLine

ASSUME GeometryAssumption == NumLines \in Nat \ {0} /\ WordsPerLine \in Nat \ {0}

Line   == 0 .. NumLines - 1
Offset == 0 .. WordsPerLine - 1

BlockOf(a)  == a \div WordsPerLine
OffsetOf(a) == a % WordsPerLine
LineOf(a)   == BlockOf(a) % NumLines

(* Faulty: the tag keeps the bits of the line number. *)
TagWithLine(a) == BlockOf(a)

TagOf(a) == BlockOf(a) \div NumLines

(* The first word of the block with tag t in line i. *)
BaseFor(t, i) == (t * NumLines + i) * WordsPerLine
=============================================================================
