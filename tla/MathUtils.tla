----------------------------- MODULE MathUtils -----------------------------
(* utils/MathUtils.h.  log2_floor works on the bits of a size_t: a word is  *)
(* the set of the positions of its ones, so that the widths, 64 bits of the *)
(* word against 32 of the trick it is put through, are those of the code.   *)
EXTENDS Integers, FiniteSets, FiniteSetsExt

Bits(n) == {b \in 0 .. 30 : (n \div 2^b) % 2 = 1}

ShiftRight(v, k) == {b - k : b \in {c \in v : c >= k}}

MultiplyDeBruijnBitPosition ==
    <<0, 9, 1, 10, 13, 21, 2, 29, 11, 14, 16, 18, 22, 25, 3, 30,
      8, 12, 20, 28, 15, 17, 24, 7, 19, 27, 23, 6, 26, 5, 4, 31>>

\* The bits of 0x07C4ACDD.
Factor == {0, 2, 3, 4, 6, 7, 10, 11, 13, 15, 18, 22, 23, 24, 25, 26}

\* (uint32_t)(v * 0x07C4ACDD) >> 27, by columns with their carries.
TopFive(v) ==
    LET column[k \in 0 .. 31] == Cardinality({b \in v : k - b \in Factor})
                                   + IF k = 0 THEN 0 ELSE column[k - 1] \div 2
    IN MapThenSumSet(LAMBDA k : (column[k] % 2) * 2^(k - 27), 27 .. 31)

\* Every bit below the highest is set; five shifts reach 31 places.
Folded(v) ==
    LET or(w, k) == w \union ShiftRight(w, k)
    IN or(or(or(or(or(v, 1), 2), 4), 8), 16)

log2_floor(v) == MultiplyDeBruijnBitPosition[TopFive(Folded(v)) + 1]

\* The table undoes the multiplication for every word of 32 bits that the shifts
\* can leave: a finite fact, which TLC evaluates in full.
ASSUME DeBruijnTable == \A h \in 0 .. 31 : log2_floor(0 .. h) = h

\* 2 * v - 1, for v # 0.
TwiceLessOne(v) ==
    LET twice == {b + 1 : b \in v \ {63}} low == Min(twice)
    IN (twice \ {low}) \union 0 .. low - 1

Log2Ceil(v) == log2_floor(TwiceLessOne(v))

DivAndRoundUp(value, divider) == (value + divider - 1) \div divider

RoundToNextMultiple(value, multiple) == DivAndRoundUp(value, multiple) * multiple
=============================================================================
