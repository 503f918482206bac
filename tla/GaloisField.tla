---------------------------- MODULE GaloisField ----------------------------
(***************************************************************************)
(* The arithmetic of shamir, as its shift-and-mask loops, for a field of   *)
(* any width.  The code's has Width 8 and Reducer 0x1b.                    *)
(***************************************************************************)
EXTENDS Integers, Sequences, SequencesExt, Bitwise

CONSTANTS
  Width,        \* bits of a field element
  Reducer       \* what a carry out of the top bit folds back to

Size == 2^Width
Elements == 0..(Size - 1)

BitXor(a, b) == a ^^ b

\* mul's loop over width bits, a carry folding back to reducer.
MulRound(width, reducer, s) ==
  [p |-> IF s.b % 2 = 1 THEN s.p ^^ s.a ELSE s.p,
   a |-> LET doubled == (2 * s.a) % 2^width
         IN  IF s.a >= 2^(width - 1) THEN doubled ^^ reducer ELSE doubled,
   b |-> s.b \div 2]
MulLoop(width, reducer, a, b) ==
  FoldLeft(LAMBDA s, i : MulRound(width, reducer, s), [p |-> 0, a |-> a, b |-> b],
           [i \in 1..width |-> i]).p

MulTable == [a, b \in Elements |-> MulLoop(Width, Reducer, a, b)]
Mul(a, b) == MulTable[a, b]

\* a^(2^width - 2), by squaring over the bits of the exponent.
InverseRound(width, table, s, i) ==
  [result |-> IF ((2^width - 2) \div 2^(i - 1)) % 2 = 1 THEN table[s.result, s.power]
                                                        ELSE s.result,
   power |-> table[s.power, s.power]]
InverseLoop(width, table, a) ==
  FoldLeft(LAMBDA s, i : InverseRound(width, table, s, i), [result |-> 1, power |-> a],
           [i \in 1..width |-> i]).result

InverseTable == [a \in Elements |-> InverseLoop(Width, MulTable, a)]
FieldInverse(a) == InverseTable[a]
=============================================================================
