----------------------------- MODULE PaxosHash -----------------------------
(***************************************************************************)
(* PaxosHash: the sparse columns of a row from the hash of its item, as    *)
(* buildRow computes them for one item and buildRow32 for a batch.         *)
(*                                                                         *)
(* A hash is the sequence of 64-bit words that are read from it: for       *)
(* weight three its words at bytes 0, 4 and 8, for any other weight the    *)
(* low words of its repeated squares.  S is mSparseSize.                   *)
(***************************************************************************)
EXTENDS Integers, SequencesExt

Columns(S) == 0..S - 1

\* The j-th word modulo mModVals[j - 1] = S - (j - 1).
\* Mutant: always modulo S.
ModWordFull(h, j, S) == h[j] % S
ModWord(h, j, S) == h[j] % (S - (j - 1))

(***************************************************************************)
(* buildRow.                                                               *)
(***************************************************************************)
Least(a, b) == IF b < a THEN b ELSE a
SkipFrom(c, bound) == IF c >= bound THEN c + 1 ELSE c

\* Weight three: the second column steps over the first, the third over both.
BuildRow3(h, S) ==
  LET r0 == ModWord(h, 1, S)  r1 == ModWord(h, 2, S)
      low == Least(r0, r1)  high == r0 + r1 - low
      step == IF high = r1 THEN 1 ELSE 0 IN
    <<r0, r1 + step, SkipFrom(SkipFrom(ModWord(h, 3, S), low), high + step)>>

\* Any other weight: insertion into the sorted columns so far, where the new
\* one steps over each that is not above it.
InsertColumn(row, c) ==
  LET over == CHOOSE k \in 0..Len(row) : /\ \A l \in 1..k : row[l] <= c + l - 1
                                         /\ k < Len(row) => row[k + 1] > c + k IN
    InsertAt(row, over + 1, c + over)
BuildRowSorted(h, weight, S) ==
  LET row[j \in 0..weight] == IF j = 0 THEN <<>> ELSE InsertColumn(row[j - 1], ModWord(h, j, S)) IN row[weight]

BuildRow(h, weight, S) == IF weight = 3 THEN BuildRow3(h, S) ELSE BuildRowSorted(h, weight, S)

(***************************************************************************)
(* buildRow32: one lane of the batch, without branches.  A comparison is a *)
(* mask, -1 where it holds, and subtracting a mask adds one.               *)
(***************************************************************************)
GtMask(a, b) == IF a > b THEN -1 ELSE 0
EqMask(a, b) == IF a = b THEN -1 ELSE 0
NotMask(m) == -1 - m
\* ((a ^ b) & mask) ^ b
Blend(mask, a, b) == IF mask = -1 THEN a ELSE b

\* Mutant: the third column steps only over columns below it.
SkipMaskAbove(c, bound) == GtMask(c, bound)
SkipMask(c, bound) == NotMask(GtMask(bound, c))
BuildLane3(h, S) ==
  LET r0 == ModWord(h, 1, S)  r1 == ModWord(h, 2, S)  r2 == ModWord(h, 3, S)
      mask == GtMask(r0, r1)
      max == Blend(mask, r0, r1)  min == Blend(mask, r1, r0)
      step == EqMask(max, r1)
      c == r2 - SkipMask(r2, min) IN
    <<r0, r1 - step, c - SkipMask(c, max - step)>>

BuildRow32(hs, weight, S) ==
  [k \in DOMAIN hs |-> IF weight = 3 THEN BuildLane3(hs[k], S) ELSE BuildRow(hs[k], weight, S)]
=============================================================================
