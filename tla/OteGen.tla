------------------------------- MODULE OteGen -------------------------------
(***************************************************************************)
(* How many OTs and triples SilentOteGen is asked for (the setups of       *)
(* Cpso.h), in which batches and from which base OTs it makes them         *)
(* (SilentOteGen::init, setBaseOts), and how OTs become triples and the    *)
(* triples the deal of Gmw.  Each side works this out alone; the batches   *)
(* are joint runs of the silent OT.                                        *)
(***************************************************************************)
EXTENDS Integers, Sequences, Functions

CONSTANTS RowBits,  \* bits of a block: triples come in rows of 128
          Ssp       \* mSsp

ASSUME OteGenAssumption == RowBits \in Nat \ {0} /\ Ssp \in Nat \ {0}

DivCeil(a, b) == (a + b - 1) \div b
\* 1 << k, and the least k for which it is n or more.
Shifted(k) == LET p[n \in 0..k] == IF n = 0 THEN 1 ELSE 2 * p[n - 1] IN p[k]
Log2Ceil(n) == CHOOSE k \in 0..n : Shifted(k) >= n /\ \A j \in 0..k - 1 : Shifted(j) < n
RoundUp(a) == RowBits * DivCeil(a, RowBits)

\* What circuit PSI on numBins bins takes: two OTs per AND gate and bin.
KeyBits(numBins) == Ssp + Log2Ceil(numBins)
TripleRows(numBins) == (KeyBits(numBins) - 1) * DivCeil(numBins, RowBits)
\* Mutant: one OT per AND gate.
TriplesForOne(numBins) == RowBits * TripleRows(numBins)
TriplesFor(numBins) == 2 * RowBits * TripleRows(numBins)
\* And permute and share: a switch each.
NumOts(numBins) == (2 * Log2Ceil(numBins) - 1) * (numBins \div 2)

\* The doubling loop of the setups: it stops after as many shifts as this.
Stops(k, need, cap) == Shifted(k) >= need \/ (k > 0 /\ Shifted(k) = cap)
BatchSize(need, cap) ==
  Shifted(CHOOSE k \in 0..need : Stops(k, need, cap) /\ \A j \in 0..k - 1 : ~Stops(j, need, cap))

\* SilentOteGen::init.
Batches(num, batchSize) == DivCeil(num, batchSize)
\* Mutant: every batch is a full one.
PerFull(num, batchSize) == RoundUp(batchSize)
Per(num, batchSize) == IF num = 0 THEN 0 ELSE RoundUp(DivCeil(num, Batches(num, batchSize)))
Plan(numOts, numTriples, batchSize) ==
  [otBatches |-> Batches(numOts, batchSize), otsPer |-> Per(numOts, batchSize),
   tripleBatches |-> Batches(numTriples, batchSize), triplesPer |-> Per(numTriples, batchSize)]

\* The runs of the silent OT, in the order of mSenderOT and mRecverOT, and the base OTs
\* run k is given: each run takes its own from the front of what is left.
Sizes(plan) == [k \in 1..plan.otBatches + plan.tripleBatches |->
                  IF k <= plan.otBatches THEN plan.otsPer ELSE plan.triplesPer]
BaseCount(per) == Log2Ceil(per) + 1
BaseBefore(plan, k) == FoldFunction(+, 0, [j \in 1..k - 1 |-> BaseCount(Sizes(plan)[j])])
BaseTotal(plan) == BaseBefore(plan, Len(Sizes(plan)) + 1)
\* Run k works when both sides run it on the same base OTs and for the same number of OTs.
RunsFit(plan, peer, k) ==
  /\ k <= Len(Sizes(plan)) /\ k <= Len(Sizes(peer))
  /\ Sizes(plan)[k] = Sizes(peer)[k] /\ BaseBefore(plan, k) = BaseBefore(peer, k)

\* expandTriple: what each side keeps of an OT is the low bit of its messages.
SentBits(ots) == [mult |-> [i \in DOMAIN ots |-> (ots[i].m[0] + ots[i].m[1]) % 2],
                  add |-> [i \in DOMAIN ots |-> ots[i].m[0]]]
ReceivedBits(ots) == [mult |-> [i \in DOMAIN ots |-> ots[i].c],
                      add |-> [i \in DOMAIN ots |-> ots[i].m[ots[i].c]]]

\* setTriple cuts both vectors at half of the rows: one side has A and B in the first half,
\* its peer in the second.
Middle(t) == RowBits * (Len(t.mult) \div (2 * RowBits))
Below(v, t) == SubSeq(v, 1, Middle(t))
Above(v, t) == SubSeq(v, Middle(t) + 1, Len(v))
Straight(t) == [A |-> Below(t.mult, t), B |-> Below(t.add, t), C |-> Above(t.mult, t), D |-> Above(t.add, t)]
\* Mutant: both sides cut the same way.
CrossedNot(t) == [A |-> Below(t.mult, t), B |-> Below(t.add, t), C |-> Above(t.mult, t), D |-> Above(t.add, t)]
Crossed(t) == [A |-> Above(t.mult, t), B |-> Above(t.add, t), C |-> Below(t.mult, t), D |-> Below(t.add, t)]
=============================================================================
