------------------------------ MODULE MCCpso ------------------------------
(***************************************************************************)
(* Cpso with two or three rows a side in five bins, every spread of the    *)
(* sender's rows over the bins, four permutations, and a handful of random *)
(* numbers; with the smaller cap the triples take several batches.         *)
(***************************************************************************)
EXTENDS Cpso

MCDataOf(n) == {[i \in 1..n |-> (5 * i + 6) % Words]}
MCRandoms(k) == {[b \in 0..k - 1 |-> (3 * b + 7) % Words], [b \in 0..k - 1 |-> 0]}
\* Aperiodic, so that a shift by a batch or a half shows.
MCTranscripts(j, n) ==
  LET k(i) == i + 17 * j IN
  {[i \in 1..n |-> [m |-> [c \in 0..1 |-> ((k(i) * k(i) + 5 * c * k(i)) % 83) % 2], c |-> ((k(i) * k(i)) % 89) % 2]]}
MCRotPairs(k) == {[i \in 0..k - 1 |-> [c \in 0..1 |-> (5 * i + 7 * c + 3) % Words]]}
MCFlagShares == {[b \in Bins |-> b % 2], [b \in Bins |-> IF b < 2 THEN 1 ELSE 0]}
\* The turns of the bins, forwards and backwards.
MCPerms == {[b \in Bins |-> (b + t) % NumBins] : t \in {0, 1, 3}} \cup {[b \in Bins |-> (NumBins + 1 - b) % NumBins]}
\* a >= b for two's complement numbers of CardBits bits.
Signed(a) == IF a < Shifted(CardBits - 1) THEN a ELSE a - Shifted(CardBits)
MCIntGteq(a, b) == IF Signed(a) >= Signed(b) THEN 1 ELSE 0
MCSendSets == {<<1, 2>>, <<4, 1, 3>>}
MCRecvSets == {<<2, 3>>, <<5, 6>>, <<3, 4, 1>>, <<3, 5, 2>>}
=============================================================================
