----------------------------- MODULE CpsoProofs -----------------------------
(***************************************************************************)
(* Private set operations: the supplies of the setups, and the results.    *)
(*                                                                         *)
(* The setups round four times (bins to rows, triples to batches, batches  *)
(* to blocks, half of the rows for each direction), and each side picks    *)
(* its own largest batch; the lemmas on divisions show that what is made   *)
(* is never less than what is taken.  For the union, whatever the spread,  *)
(* the shares and the permutation are, the places at which the sender's    *)
(* flag and the share differ are those of the rows that are not common.    *)
(*                                                                         *)
(* The other results go by stages: where a message is under way, what its  *)
(* reader will make of it already is the plain result less the share its   *)
(* sender keeps (Same: the two differ by a multiple of the modulus).       *)
(***************************************************************************)
EXTENDS Cpso, FiniteSetTheorems, FunctionTheorems, SequenceTheorems, WellFoundedInduction, TLAPS

(***************************************************************************)
(* Numbers and functions by recursion.                                     *)
(***************************************************************************)
\* A set of numbers has a least one.
LEMMA Least == ASSUME NEW T \in SUBSET Nat, T # {} PROVE \E x \in T : \A y \in T : x <= y
<1>1. IsWellFoundedOn(OpToRel(<, Nat), Nat)
  BY NatLessThanWellFounded
<1>2. PICK x \in T : \A y \in T : ~(<<y, x>> \in OpToRel(<, Nat))
  BY <1>1, WFMin
<1>3. \A y \in T : ~(y < x)
  BY <1>2 DEF OpToRel
<1> QED BY <1>3

LEMMA Induction ==
  ASSUME NEW S, 0 \in S, \A n \in Nat : n \in S => n + 1 \in S
  PROVE  Nat \subseteq S
<1> SUFFICES ASSUME Nat \ S # {} PROVE FALSE
  OBVIOUS
<1>1. PICK x \in Nat \ S : \A y \in Nat \ S : x <= y
  BY Least
<1>2. x # 0 /\ x - 1 \in Nat
  BY <1>1
<1>3. x - 1 \in S
  BY <1>1, <1>2
<1> QED BY <1>1, <1>2, <1>3

\* A function defined by recursion along 0..n.
Follows(f, n, V, base, step) ==
  f \in [0..n -> V] /\ f[0] = base /\ \A k \in 1..n : f[k] = step[k][f[k - 1]]
LEMMA Recursion ==
  ASSUME NEW n \in Nat, NEW V, NEW base \in V, NEW step \in [1..n -> [V -> V]]
  PROVE  \E f : Follows(f, n, V, base, step)
<1> DEFINE Good(m) == \E f \in [0..m -> V] : f[0] = base /\ \A k \in 1..m : f[k] = step[k][f[k - 1]]
           S == {m \in Nat : m <= n => Good(m)}
<1>1. 0 \in S
  <2> DEFINE f == [k \in 0..0 |-> base]
  <2>1. f \in [0..0 -> V] /\ f[0] = base /\ \A k \in 1..0 : f[k] = step[k][f[k - 1]]
    OBVIOUS
  <2> HIDE DEF f
  <2>2. Good(0)
    BY <2>1
  <2> QED BY <2>2
<1>2. ASSUME NEW m \in Nat, m \in S PROVE m + 1 \in S
  <2> SUFFICES ASSUME m + 1 <= n PROVE Good(m + 1)
    OBVIOUS
  <2>1. PICK f \in [0..m -> V] : f[0] = base /\ \A k \in 1..m : f[k] = step[k][f[k - 1]]
    BY <1>2
  <2> DEFINE g == [k \in 0..m + 1 |-> IF k = m + 1 THEN step[m + 1][f[m]] ELSE f[k]]
  <2>2. f[m] \in V /\ m + 1 \in 1..n
    BY <2>1
  <2>3. step[m + 1][f[m]] \in V
    BY <2>2
  <2>4. g \in [0..m + 1 -> V] /\ g[0] = base
    BY <2>1, <2>3
  <2>5. \A k \in 1..m + 1 : g[k] = step[k][g[k - 1]]
    <3> TAKE k \in 1..m + 1
    <3>1. CASE k = m + 1
      <4>1. k - 1 = m /\ m \in 0..m + 1 /\ m # m + 1 /\ m + 1 \in 0..m + 1
        BY <3>1
      <4>2. g[m] = f[m] /\ g[m + 1] = step[m + 1][f[m]]
        BY <4>1
      <4> HIDE DEF g
      <4> QED BY <3>1, <4>1, <4>2
    <3>2. CASE k # m + 1
      <4>1. k \in 1..m /\ k - 1 \in 0..m /\ g[k] = f[k] /\ g[k - 1] = f[k - 1]
        BY <3>2
      <4> HIDE DEF g
      <4> QED BY <2>1, <4>1
    <3> QED BY <3>1, <3>2
  <2> HIDE DEF g
  <2> QED BY <2>4, <2>5
<1> HIDE DEF S
<1>3. Nat \subseteq S
  BY <1>1, <1>2, Induction
<1>4. n \in S
  BY <1>3
<1> QED BY <1>4 DEF S, Follows

LEMMA Times ==
  ASSUME NEW k \in Nat, NEW a \in Nat, NEW b \in Nat, a < b
  PROVE  k * a \in Nat /\ k * b \in Nat /\ k * a + k <= k * b
<1>1. PICK d \in Nat : b = (a + 1) + d
  <2>1. b - (a + 1) \in Nat /\ b = (a + 1) + (b - (a + 1))
    OBVIOUS
  <2> QED BY <2>1
<1>2. k * b = k * a + k + k * d
  BY <1>1
<1>3. k * d \in Nat /\ k * a \in Nat
  BY <1>1
<1> QED BY <1>2, <1>3

LEMMA TimesUpTo ==
  ASSUME NEW k \in Nat, NEW a \in Nat, NEW b \in Nat, a <= b
  PROVE  k * a <= k * b
<1>1. CASE a = b
  <2>1. k * a \in Nat
    OBVIOUS
  <2> QED BY <1>1, <2>1
<1>2. CASE a < b
  <2>1. k * a \in Nat /\ k * b \in Nat /\ k * a + k <= k * b
    BY <1>2, Times
  <2> QED BY <2>1
<1> QED BY <1>1, <1>2

LEMMA Div ==
  ASSUME NEW a \in Nat, NEW n \in Nat \ {0}
  PROVE  a \div n \in Nat /\ n * (a \div n) <= a /\ a < n * (a \div n) + n
<1> DEFINE q == a \div n
           r == a % n
<1>1. q \in Int /\ r \in 0..n - 1 /\ a = n * q + r
  OBVIOUS
<1> HIDE DEF q, r
<1>2. ASSUME q < 0 PROVE FALSE
  <2>1. PICK d \in Nat : q = 0 - 1 - d
    <3>1. 0 - 1 - q \in Nat /\ q = 0 - 1 - (0 - 1 - q)
      BY <1>1, <1>2
    <3> QED BY <3>1
  <2>2. n * q = 0 - n - n * d /\ n * d \in Nat
    BY <2>1
  <2> QED BY <1>1, <2>2
<1>3. q \in Nat /\ n * q \in Nat
  BY <1>1, <1>2
<1>4. q \in Nat /\ n * q <= a /\ a < n * q + n
  BY <1>1, <1>3
<1> QED BY <1>4 DEF q

LEMMA DivUp ==
  ASSUME NEW a \in Nat, NEW b \in Nat, NEW n \in Nat \ {0}, a <= b
  PROVE  a \div n <= b \div n
<1> DEFINE p == a \div n
           q == b \div n
<1>1. p \in Nat /\ n * p <= a /\ a < n * p + n /\ q \in Nat /\ n * q <= b /\ b < n * q + n
  BY Div
<1> HIDE DEF p, q
<1>2. ASSUME q < p PROVE FALSE
  <2>1. n * q + n <= n * p /\ n * q \in Nat /\ n * p \in Nat
    BY <1>1, <1>2, Times
  <2> QED BY <1>1, <2>1
<1>3. p <= q
  BY <1>1, <1>2
<1> QED BY <1>3 DEF p, q

LEMMA DivOf ==
  ASSUME NEW a \in Nat, NEW n \in Nat \ {0}
  PROVE  (a * n) \div n = a
<1> DEFINE q == (a * n) \div n
<1>1. a * n \in Nat /\ a * n = n * a
  OBVIOUS
<1>2. q \in Nat /\ n * q <= n * a /\ n * a < n * q + n
  BY <1>1, Div
<1> HIDE DEF q
<1>3. ~(q < a)
  <2> SUFFICES ASSUME q < a PROVE FALSE
    OBVIOUS
  <2>1. n * q + n <= n * a /\ n * q \in Nat /\ n * a \in Nat
    BY <1>2, Times
  <2> QED BY <1>2, <2>1
<1>4. ~(a < q)
  <2> SUFFICES ASSUME a < q PROVE FALSE
    OBVIOUS
  <2>1. n * a + n <= n * q /\ n * q \in Nat /\ n * a \in Nat
    BY <1>2, Times
  <2> QED BY <1>2, <2>1
<1>5. q = a
  BY <1>2, <1>3, <1>4
<1> QED BY <1>5 DEF q


(***************************************************************************)
(* The sizes of the batches.                                               *)
(***************************************************************************)
LEMMA ShiftedIs ==
  ASSUME NEW n \in Nat
  PROVE  Shifted(n) \in Nat /\ Shifted(n) > n /\ Shifted(0) = 1
<1>1. ASSUME NEW m \in Nat PROVE Shifted(m) \in Nat /\ Shifted(m) > m /\ (m = 0 => Shifted(m) = 1)
  <2> DEFINE Is(p) == p = [k \in 0..m |-> IF k = 0 THEN 1 ELSE 2 * p[k - 1]]
             step == [k \in 1..m |-> [s \in Nat |-> 2 * s]]
  <2>1. step \in [1..m -> [Nat -> Nat]]
    OBVIOUS
  <2>2. PICK g : Follows(g, m, Nat, 1, step)
    <3> HIDE DEF step
    <3> QED BY <2>1, Recursion
  <2>3. g \in [0..m -> Nat] /\ g[0] = 1
    BY <2>2 DEF Follows
  <2>4. \A k \in 1..m : g[k] = 2 * g[k - 1]
    <3>1. \A k \in 1..m : g[k] = step[k][g[k - 1]] /\ g[k - 1] \in Nat
      <4> HIDE DEF step
      <4> QED BY <2>2 DEF Follows
    <3> QED BY <3>1
  <2>5. Is(g)
    <3>1. \A k \in 0..m : g[k] = IF k = 0 THEN 1 ELSE 2 * g[k - 1]
      BY <2>3, <2>4
    <3> QED BY <2>3, <3>1
  <2> DEFINE h == CHOOSE p : Is(p)
  <2>6. Shifted(m) = h[m]
    BY DEF Shifted
  <2>7. Is(h)
    <3> HIDE DEF Is
    <3> QED BY <2>5
  <2>8. \A k \in 0..m : h[k] = IF k = 0 THEN 1 ELSE 2 * h[k - 1]
    BY <2>7
  <2> HIDE DEF h
  <2> DEFINE S == {k \in Nat : k \in 0..m => h[k] \in Nat /\ h[k] > k}
  <2>9. 0 \in S
    BY <2>8
  <2>10. ASSUME NEW k \in Nat, k \in S PROVE k + 1 \in S
    <3> SUFFICES ASSUME k + 1 \in 0..m PROVE h[k + 1] \in Nat /\ h[k + 1] > k + 1
      OBVIOUS
    <3>1. k \in 0..m /\ (k + 1) - 1 = k /\ k + 1 # 0
      OBVIOUS
    <3>2. h[k] \in Nat /\ h[k] > k
      BY <2>10, <3>1
    <3>3. h[k + 1] = 2 * h[k]
      BY <2>8, <3>1
    <3> QED BY <3>2, <3>3
  <2>11. Nat \subseteq S
    <3> HIDE DEF S
    <3> QED BY <2>9, <2>10, Induction
  <2>12. h[m] \in Nat /\ h[m] > m /\ h[0] = 1
    BY <2>8, <2>11
  <2> QED BY <2>6, <2>12
<1> QED BY <1>1

LEMMA LogIs ==
  ASSUME NEW n \in Nat
  PROVE  Log2Ceil(n) \in Nat /\ Shifted(Log2Ceil(n)) >= n /\ (n >= 2 => Log2Ceil(n) >= 1)
<1> DEFINE T == {k \in Nat : Shifted(k) >= n}
<1>1. \A k \in Nat : Shifted(k) \in Nat /\ Shifted(k) > k
  BY ShiftedIs
<1>2. n \in T /\ T \in SUBSET Nat
  BY <1>1
<1>3. PICK m \in T : \A k \in T : m <= k
  <2> HIDE DEF T
  <2> QED BY <1>2, Least
<1>4. m \in 0..n /\ Shifted(m) >= n /\ \A j \in 0..m - 1 : Shifted(j) < n
  BY <1>1, <1>2, <1>3
<1>5. /\ Log2Ceil(n) \in 0..n /\ Shifted(Log2Ceil(n)) >= n
  BY <1>4 DEF Log2Ceil
<1>6. ASSUME n >= 2 PROVE Log2Ceil(n) # 0
  <2>1. Shifted(0) = 1
    BY ShiftedIs
  <2> QED BY <1>5, <1>6, <2>1
<1> QED BY <1>5, <1>6

LEMMA BatchIs ==
  ASSUME NEW need \in Nat, NEW most
  PROVE  BatchSize(need, most) \in Nat \ {0}
<1> DEFINE T == {k \in Nat : Stops(k, need, most)}
<1>1. \A k \in Nat : Shifted(k) \in Nat /\ Shifted(k) > k
  BY ShiftedIs
<1>2. need \in T /\ T \in SUBSET Nat
  BY <1>1 DEF Stops
<1>3. PICK m \in T : \A k \in T : m <= k
  <2> HIDE DEF T
  <2> QED BY <1>2, Least
<1>4. m \in 0..need /\ Stops(m, need, most) /\ \A j \in 0..m - 1 : ~Stops(j, need, most)
  BY <1>2, <1>3
<1> DEFINE c == CHOOSE k \in 0..need : Stops(k, need, most) /\ \A j \in 0..k - 1 : ~Stops(j, need, most)
<1>5. c \in 0..need
  BY <1>4
<1>6. BatchSize(need, most) = Shifted(c)
  BY DEF BatchSize
<1> HIDE DEF c
<1> QED BY <1>1, <1>5, <1>6

LEMMA CeilIs ==
  ASSUME NEW a \in Nat, NEW n \in Nat \ {0}
  PROVE  DivCeil(a, n) \in Nat /\ n * DivCeil(a, n) >= a /\ (a > 0 => DivCeil(a, n) > 0)
<1>1. a + n - 1 \in Nat
  OBVIOUS
<1> DEFINE q == (a + n - 1) \div n
<1>2. q \in Nat /\ a + n - 1 < n * q + n
  BY <1>1, Div
<1>3. n * q \in Nat
  BY <1>2
<1>4. n * q >= a
  <2> HIDE DEF q
  <2> QED BY <1>2, <1>3
<1>5. a > 0 => q # 0
  <2> HIDE DEF q
  <2>1. q = 0 => n * q = 0
    OBVIOUS
  <2> QED BY <1>4, <2>1
<1> HIDE DEF q
<1> QED BY <1>2, <1>4, <1>5 DEF DivCeil, q

LEMMA PlanFits ==
  ASSUME NEW num \in Nat, NEW size \in Nat \ {0}
  PROVE  Batches(num, size) \in Nat /\ Per(num, size) \in Nat /\ Batches(num, size) * Per(num, size) >= num
<1>1. Batches(num, size) \in Nat /\ (num > 0 => Batches(num, size) > 0)
  BY CeilIs DEF Batches
<1>2. CASE num = 0
  <2>1. Per(num, size) = 0
    BY <1>2 DEF Per
  <2> QED BY <1>1, <1>2, <2>1
<1>3. CASE num > 0
  <2> DEFINE b == Batches(num, size)
             d == DivCeil(num, b)
  <2>1. b \in Nat \ {0}
    BY <1>1, <1>3
  <2> HIDE DEF b
  <2>2. d \in Nat /\ b * d >= num
    BY <2>1, CeilIs
  <2> HIDE DEF d
  <2>3. RowBits \in Nat \ {0}
    BY OteGenAssumption
  <2>4. DivCeil(d, RowBits) \in Nat /\ RowBits * DivCeil(d, RowBits) >= d
    BY <2>2, <2>3, CeilIs
  <2>5. Per(num, size) = RowBits * DivCeil(d, RowBits)
    BY <1>3 DEF Per, RoundUp, b, d
  <2> DEFINE p == RowBits * DivCeil(d, RowBits)
  <2>6. p \in Nat /\ d <= p
    BY <2>3, <2>4
  <2> HIDE DEF p
  <2>7. b * d <= b * p /\ b * d \in Nat /\ b * p \in Nat
    BY <2>1, <2>2, <2>6, TimesUpTo
  <2> QED BY <2>1, <2>2, <2>5, <2>6, <2>7 DEF p, b
<1> QED BY <1>2, <1>3

\* What the setups ask for.
LEMMA NeedIs ==
  /\ TripleRows(NumBins) \in Nat /\ TriplesFor(NumBins) = (2 * RowBits) * TripleRows(NumBins)
  /\ TriplesFor(NumBins) \in Nat /\ OtsFor \in Nat
<1>1. NumBins \in Nat /\ RowBits \in Nat \ {0} /\ Ssp \in Nat \ {0}
  BY OteGenAssumption, CpsoAssumption
<1>2. Log2Ceil(NumBins) \in Nat /\ (NumBins >= 2 => Log2Ceil(NumBins) >= 1)
  BY <1>1, LogIs
<1>3. DivCeil(NumBins, RowBits) \in Nat
  BY <1>1, CeilIs
<1>4. KeyBits(NumBins) - 1 \in Nat
  BY <1>1, <1>2 DEF KeyBits
<1>5. TripleRows(NumBins) \in Nat
  BY <1>3, <1>4 DEF TripleRows
<1>6. TriplesFor(NumBins) = (2 * RowBits) * TripleRows(NumBins)
  BY DEF TriplesFor
<1>7. TriplesFor(NumBins) \in Nat
  BY <1>1, <1>5, <1>6
<1>8. NumOts(NumBins) \in Nat
  <2> DEFINE l == 2 * Log2Ceil(NumBins) - 1
             d == NumBins \div 2
  <2>1. l \in Int /\ d \in Nat /\ (NumBins < 2 => d = 0) /\ (NumBins >= 2 => l \in Nat)
    BY <1>1, <1>2
  <2>2. NumOts(NumBins) = l * d
    BY DEF NumOts
  <2> HIDE DEF l, d
  <2>3. CASE NumBins < 2
    BY <2>1, <2>2, <2>3
  <2>4. CASE NumBins >= 2
    BY <2>1, <2>2, <2>4
  <2> QED BY <1>1, <2>3, <2>4
<1> QED BY <1>5, <1>6, <1>7, <1>8 DEF OtsFor

\* The plans of the two sides.
SenderPlan == Plan(OtsFor, TriplesFor(NumBins), BatchSize(TriplesFor(NumBins), cap))
ReceiverPlan == Plan(OtsFor, TriplesFor(NumBins), BatchSize(TriplesFor(NumBins) + OtsFor, cap))

LEMMA PlansFit ==
  ASSUME NEW plan \in {SenderPlan, ReceiverPlan}
  PROVE  /\ plan.otBatches * plan.otsPer >= OtsFor
         /\ plan.tripleBatches \in Nat /\ plan.triplesPer \in Nat
         /\ plan.tripleBatches * plan.triplesPer >= TriplesFor(NumBins)
<1>1. PICK size \in Nat \ {0} : plan = Plan(OtsFor, TriplesFor(NumBins), size)
  <2>1. TriplesFor(NumBins) + OtsFor \in Nat /\ TriplesFor(NumBins) \in Nat
    BY NeedIs
  <2>2. BatchSize(TriplesFor(NumBins), cap) \in Nat \ {0} /\ BatchSize(TriplesFor(NumBins) + OtsFor, cap) \in Nat \ {0}
    BY <2>1, BatchIs
  <2> QED BY <2>2 DEF SenderPlan, ReceiverPlan
<1>2. /\ plan.otBatches = Batches(OtsFor, size) /\ plan.otsPer = Per(OtsFor, size)
      /\ plan.tripleBatches = Batches(TriplesFor(NumBins), size) /\ plan.triplesPer = Per(TriplesFor(NumBins), size)
  BY <1>1 DEF Plan
<1> QED BY <1>2, NeedIs, PlanFits

(***************************************************************************)
(* The supplies.  What a side has of the triples after some batches is as  *)
(* long as the batches were, and the bits of the two sides belong together *)
(* position by position.                                                   *)
(***************************************************************************)
\* What the silent OT gives, for every number of OTs.
BitTranscripts == \A j \in Nat, n \in Nat : Transcripts(j, n) \subseteq [1..n -> [m : [0..1 -> 0..1], c : 0..1]]

Early == {"setup", "base", "ots", "triples"}
Supplied(t) ==
  /\ t.mult \in Seq(0..1) /\ Len(t.mult) = got.triples * SenderPlan.triplesPer
  /\ t.add \in Seq(0..1) /\ Len(t.add) = got.triples * SenderPlan.triplesPer
Belong(s, r) == \A k \in 1..Len(s.mult) : s.mult[k] * r.mult[k] = (s.add[k] + r.add[k]) % 2
PlanInv ==
  /\ got \in [ots : Nat, triples : Nat]
  /\ spc \in Early => mSetup
  /\ mSetup /\ spc # "setup" => sPlan = SenderPlan
  /\ mSetup /\ rpc # "setup" => rPlan = ReceiverPlan
  /\ mSetup /\ spc \notin Early => got.triples = sPlan.tripleBatches
TripleInv == Supplied(sTriples) /\ Supplied(rTriples) /\ Belong(sTriples, rTriples)
SupplyInv == PlanInv /\ TripleInv

LEMMA SupplyInit == Init => SupplyInv
<1> SUFFICES ASSUME Init PROVE SupplyInv
  OBVIOUS
<1>1. /\ got = [ots |-> 0, triples |-> 0] /\ rpc = spc
      /\ spc = IF mSetup THEN "setup" ELSE First
      /\ mSetup \in BOOLEAN /\ sTriples = NoBits /\ rTriples = NoBits
  BY DEF Init
<1>2. First \in {"oprf", "join"}
  BY DEF First
<1>3. PlanInv
  BY <1>1, <1>2 DEF PlanInv, Early
<1>4. SenderPlan.triplesPer \in Nat
  BY PlansFit
<1>5. got.triples * SenderPlan.triplesPer = 0
  BY <1>1, <1>4
<1>6. sTriples.mult = <<>> /\ sTriples.add = <<>> /\ rTriples.mult = <<>> /\ rTriples.add = <<>>
  BY <1>1 DEF NoBits
<1>7. <<>> \in Seq(0..1) /\ Len(<<>>) = 0
  BY EmptySeq
<1>8. TripleInv
  BY <1>5, <1>6, <1>7 DEF TripleInv, Supplied, Belong
<1> QED BY <1>3, <1>8 DEF SupplyInv

\* One OT is one triple, shared.
LEMMA OneTriple ==
  ASSUME NEW n \in Nat, NEW ots \in [1..n -> [m : [0..1 -> 0..1], c : 0..1]]
  PROVE  /\ SentBits(ots).mult \in [1..n -> 0..1] /\ SentBits(ots).add \in [1..n -> 0..1]
         /\ ReceivedBits(ots).mult \in [1..n -> 0..1] /\ ReceivedBits(ots).add \in [1..n -> 0..1]
         /\ \A k \in 1..n : ReceivedBits(ots).mult[k] * SentBits(ots).mult[k]
                            = (ReceivedBits(ots).add[k] + SentBits(ots).add[k]) % 2
<1>1. \A k \in 1..n : ots[k].m[0] \in 0..1 /\ ots[k].m[1] \in 0..1 /\ ots[k].c \in 0..1 /\ ots[k].m[ots[k].c] \in 0..1
  OBVIOUS
<1>2. DOMAIN ots = 1..n
  OBVIOUS
<1>3. /\ SentBits(ots).mult = [i \in 1..n |-> (ots[i].m[0] + ots[i].m[1]) % 2]
      /\ SentBits(ots).add = [i \in 1..n |-> ots[i].m[0]]
      /\ ReceivedBits(ots).mult = [i \in 1..n |-> ots[i].c]
      /\ ReceivedBits(ots).add = [i \in 1..n |-> ots[i].m[ots[i].c]]
  BY <1>2 DEF SentBits, ReceivedBits
<1>4. \A a \in 0..1, b \in 0..1 : (a + b) % 2 \in 0..1
  OBVIOUS
<1>5. ASSUME NEW k \in 1..n
      PROVE  ReceivedBits(ots).mult[k] * SentBits(ots).mult[k] = (ReceivedBits(ots).add[k] + SentBits(ots).add[k]) % 2
  <2> DEFINE a == ots[k].m[0]
             b == ots[k].m[1]
             c == ots[k].c
  <2>1. a \in 0..1 /\ b \in 0..1 /\ c \in 0..1 /\ (c = 0 => ots[k].m[c] = a) /\ (c = 1 => ots[k].m[c] = b)
    BY <1>1
  <2>2. /\ ReceivedBits(ots).mult[k] = c /\ SentBits(ots).mult[k] = (a + b) % 2
        /\ ReceivedBits(ots).add[k] = ots[k].m[c] /\ SentBits(ots).add[k] = a
    BY <1>3
  <2> HIDE DEF a, b, c
  <2>3. CASE c = 0
    <3>1. (a + a) % 2 = 0 /\ (a + b) % 2 \in 0..1
      BY <2>1
    <3> QED BY <2>1, <2>2, <2>3, <3>1
  <2>4. CASE c = 1
    <3>1. (b + a) % 2 = (a + b) % 2 /\ (a + b) % 2 \in 0..1
      BY <2>1
    <3> QED BY <2>1, <2>2, <2>4, <3>1
  <2> QED BY <2>1, <2>3, <2>4
<1>6. SentBits(ots).mult \in [1..n -> 0..1] /\ SentBits(ots).add \in [1..n -> 0..1]
  BY <1>1, <1>3, <1>4
<1>7. ReceivedBits(ots).mult \in [1..n -> 0..1] /\ ReceivedBits(ots).add \in [1..n -> 0..1]
  BY <1>1, <1>3
<1> QED BY <1>5, <1>6, <1>7

LEMMA BothAppended ==
  ASSUME NEW s \in Seq(0..1), NEW n \in Nat, NEW more \in [1..n -> 0..1]
  PROVE  /\ s \o more \in Seq(0..1) /\ Len(s \o more) = Len(s) + n
         /\ \A k \in 1..Len(s) : (s \o more)[k] = s[k]
         /\ \A k \in Len(s) + 1..Len(s) + n : (s \o more)[k] = more[k - Len(s)] /\ k - Len(s) \in 1..n
<1>1. more \in Seq(0..1) /\ Len(more) = n
  OBVIOUS
<1>2. Len(s) \in Nat
  OBVIOUS
<1>3. /\ s \o more \in Seq(0..1) /\ Len(s \o more) = Len(s) + Len(more)
      /\ \A i \in 1..Len(s) + Len(more) : (s \o more)[i] = IF i <= Len(s) THEN s[i] ELSE more[i - Len(s)]
  BY <1>1, ConcatProperties
<1>4. \A k \in 1..Len(s) : (s \o more)[k] = s[k]
  BY <1>1, <1>2, <1>3
<1>5. \A k \in Len(s) + 1..Len(s) + n : (s \o more)[k] = more[k - Len(s)] /\ k - Len(s) \in 1..n
  BY <1>1, <1>2, <1>3
<1> QED BY <1>1, <1>3, <1>4, <1>5

LEMMA ExpandKeeps ==
  ASSUME BitTranscripts, SupplyInv, ExpandTriple
  PROVE  SupplyInv'
<1>1. PICK ots \in Transcripts(got.triples, sPlan.triplesPer) :
        /\ sTriples' = Kept(sTriples, ReceivedBits(ots))
        /\ rTriples' = Kept(rTriples, SentBits(ots))
  BY DEF ExpandTriple
<1>2. /\ spc = "triples" /\ got' = [got EXCEPT !.triples = @ + 1]
      /\ UNCHANGED <<op, cap, mSetup, spc, rpc, sPlan, rPlan>>
  BY DEF ExpandTriple, inputs
<1>3. /\ got \in [ots : Nat, triples : Nat] /\ sPlan = SenderPlan
  BY <1>2 DEF SupplyInv, PlanInv, Early
<1>4. got' \in [ots : Nat, triples : Nat] /\ got'.triples = got.triples + 1
  BY <1>2, <1>3
<1>5. SenderPlan' = SenderPlan /\ ReceiverPlan' = ReceiverPlan
  BY <1>2 DEF SenderPlan, ReceiverPlan, OtsFor
<1>6. PlanInv'
  BY <1>2, <1>4, <1>5 DEF SupplyInv, PlanInv, Early
<1>7. PICK n : n = SenderPlan.triplesPer
  OBVIOUS
<1>8. n \in Nat /\ n = sPlan.triplesPer
  BY <1>3, <1>7, PlansFit
<1>9. ots \in [1..n -> [m : [0..1 -> 0..1], c : 0..1]]
  BY <1>1, <1>3, <1>8 DEF BitTranscripts
<1>10. PICK g \in Nat : g = got.triples
  BY <1>3
<1>11. (g + 1) * n = g * n + n /\ g * n \in Nat
  BY <1>8
<1>12. PICK l \in Nat : l = g * n
  BY <1>11
<1>13. /\ sTriples.mult \in Seq(0..1) /\ Len(sTriples.mult) = l
       /\ sTriples.add \in Seq(0..1) /\ Len(sTriples.add) = l
       /\ rTriples.mult \in Seq(0..1) /\ Len(rTriples.mult) = l
       /\ rTriples.add \in Seq(0..1) /\ Len(rTriples.add) = l
       /\ Belong(sTriples, rTriples)
  BY <1>7, <1>10, <1>12 DEF SupplyInv, TripleInv, Supplied
<1>14. PICK rec : rec = ReceivedBits(ots)
  OBVIOUS
<1>15. PICK sent : sent = SentBits(ots)
  OBVIOUS
<1>16. /\ rec.mult \in [1..n -> 0..1] /\ rec.add \in [1..n -> 0..1]
       /\ sent.mult \in [1..n -> 0..1] /\ sent.add \in [1..n -> 0..1]
       /\ \A k \in 1..n : rec.mult[k] * sent.mult[k] = (rec.add[k] + sent.add[k]) % 2
  BY <1>8, <1>9, <1>14, <1>15, OneTriple
<1>17. /\ sTriples'.mult = sTriples.mult \o rec.mult /\ sTriples'.add = sTriples.add \o rec.add
       /\ rTriples'.mult = rTriples.mult \o sent.mult /\ rTriples'.add = rTriples.add \o sent.add
  BY <1>1, <1>14, <1>15 DEF Kept
<1>18. got'.triples * SenderPlan'.triplesPer = l + n
  BY <1>4, <1>5, <1>7, <1>10, <1>11, <1>12
<1> DEFINE Whole(v, w, more) ==
             /\ w \in Seq(0..1) /\ Len(w) = l + n
             /\ \A k \in 1..l : w[k] = v[k]
             /\ \A k \in l + 1..l + n : w[k] = more[k - l] /\ k - l \in 1..n
<1>19. /\ Whole(sTriples.mult, sTriples'.mult, rec.mult) /\ Whole(sTriples.add, sTriples'.add, rec.add)
       /\ Whole(rTriples.mult, rTriples'.mult, sent.mult) /\ Whole(rTriples.add, rTriples'.add, sent.add)
  <2>1. ASSUME NEW v \in Seq(0..1), Len(v) = l, NEW more \in [1..n -> 0..1] PROVE Whole(v, v \o more, more)
    BY <1>8, <2>1, BothAppended
  <2> HIDE DEF Whole
  <2> QED BY <1>13, <1>16, <1>17, <2>1
<1>20. Supplied(sTriples)' /\ Supplied(rTriples)'
  <2>1. /\ sTriples'.mult \in Seq(0..1) /\ Len(sTriples'.mult) = l + n
        /\ sTriples'.add \in Seq(0..1) /\ Len(sTriples'.add) = l + n
        /\ rTriples'.mult \in Seq(0..1) /\ Len(rTriples'.mult) = l + n
        /\ rTriples'.add \in Seq(0..1) /\ Len(rTriples'.add) = l + n
    BY <1>19
  <2> QED BY <1>18, <2>1 DEF Supplied
<1>21. ASSUME NEW k \in 1..l + n
       PROVE  sTriples'.mult[k] * rTriples'.mult[k] = (sTriples'.add[k] + rTriples'.add[k]) % 2
  <2>1. CASE k \in 1..l
    <3>1. /\ sTriples'.mult[k] = sTriples.mult[k] /\ sTriples'.add[k] = sTriples.add[k]
          /\ rTriples'.mult[k] = rTriples.mult[k] /\ rTriples'.add[k] = rTriples.add[k]
      BY <1>19, <2>1
    <3>2. sTriples.mult[k] * rTriples.mult[k] = (sTriples.add[k] + rTriples.add[k]) % 2
      BY <1>13, <2>1 DEF Belong
    <3> QED BY <3>1, <3>2
  <2>2. CASE k \in l + 1..l + n
    <3>1. /\ sTriples'.mult[k] = rec.mult[k - l] /\ sTriples'.add[k] = rec.add[k - l]
          /\ rTriples'.mult[k] = sent.mult[k - l] /\ rTriples'.add[k] = sent.add[k - l]
          /\ k - l \in 1..n
      BY <1>19, <2>2
    <3>2. rec.mult[k - l] * sent.mult[k - l] = (rec.add[k - l] + sent.add[k - l]) % 2
      BY <1>16, <3>1
    <3> QED BY <3>1, <3>2
  <2> QED BY <1>8, <2>1, <2>2
<1>22. Belong(sTriples, rTriples)'
  <2>1. Len(sTriples'.mult) = l + n
    BY <1>19
  <2> QED BY <1>21, <2>1 DEF Belong
<1> QED BY <1>6, <1>20, <1>22 DEF SupplyInv, TripleInv

\* The steps that make no supplies leave the early places alone.
LEMMA LaterSteps ==
  ASSUME Oprf \/ Join \/ PermShare \/ FinalOt \/ Rot \/ SCard \/ RCard \/ AddShares \/ Compare \/ SBit \/ RBit
         \/ SumBlock \/ SSum32 \/ RSum32 \/ SClear \/ RClear \/ RClearBack \/ SClearBack
         \/ RMult \/ SMult \/ RProduct
  PROVE  /\ UNCHANGED <<inputs, offline>>
         /\ spc' = spc \/ (spc \notin Early /\ spc' \notin Early)
         /\ rpc' = rpc \/ (rpc \notin Early /\ rpc' \notin Early)
<1>1. CASE Oprf
  BY <1>1 DEF Oprf, Early
<1>2. CASE Join
  BY <1>2 DEF Join, AfterJoin, Early
<1>3. CASE PermShare
  BY <1>3 DEF PermShare, Early
<1>4. CASE FinalOt
  BY <1>4 DEF FinalOt, Early
<1>5. CASE Rot
  BY <1>5 DEF Rot, Early
<1>6. CASE SCard
  BY <1>6 DEF SCard, Early
<1>7. CASE RCard
  BY <1>7 DEF RCard, Early
<1>8. CASE AddShares \/ Compare \/ SBit \/ RBit
  BY <1>8 DEF AddShares, Compare, SBit, RBit, Early, shares
<1>9. CASE SumBlock \/ SSum32 \/ RSum32
  BY <1>9 DEF SumBlock, SSum32, RSum32, Early
<1>10. CASE SClear \/ RClear \/ RClearBack \/ SClearBack
  BY <1>10 DEF SClear, RClear, RClearBack, SClearBack, Early
<1>11. CASE RMult
  BY <1>11 DEF RMult, Early
<1>12. CASE SMult
  BY <1>12 DEF SMult, Early
<1>13. CASE RProduct
  BY <1>13 DEF RProduct, Early
<1> QED BY <1>1, <1>2, <1>3, <1>4, <1>5, <1>6, <1>7, <1>8, <1>9, <1>10, <1>11, <1>12, <1>13

LEMMA SamePlans ==
  ASSUME UNCHANGED <<op, cap>>
  PROVE  SenderPlan' = SenderPlan /\ ReceiverPlan' = ReceiverPlan
BY DEF SenderPlan, ReceiverPlan, OtsFor

LEMMA SameTriples ==
  ASSUME TripleInv, UNCHANGED <<op, cap, sTriples, rTriples>>, got'.triples = got.triples
  PROVE  TripleInv'
<1>1. SenderPlan' = SenderPlan
  BY SamePlans
<1> QED BY <1>1 DEF TripleInv, Supplied, Belong

LEMMA SupplyStep == ASSUME BitTranscripts, SupplyInv, [Next]_vars PROVE SupplyInv'
<1>1. First \in {"oprf", "join"}
  BY DEF First
<1>2. CASE UNCHANGED vars
  <2>1. UNCHANGED <<inputs, offline, spc, rpc>>
    BY <1>2 DEF vars, inputs, offline
  <2>2. UNCHANGED <<op, cap, mSetup, spc, rpc, sPlan, rPlan, got, sTriples, rTriples>>
    BY <2>1 DEF inputs, offline
  <2>3. TripleInv'
    BY <2>2, SameTriples DEF SupplyInv
  <2> QED BY <2>2, <2>3, SamePlans DEF SupplyInv, PlanInv
<1>3. CASE SSetup \/ RSetup \/ BaseOts
  <2>1. /\ UNCHANGED <<op, cap, mSetup, got, sTriples, rTriples>>
        /\ \/ spc = "setup" /\ spc' = "base" /\ sPlan' = SenderPlan /\ UNCHANGED <<rpc, rPlan>>
           \/ rpc = "setup" /\ rpc' = "base" /\ rPlan' = ReceiverPlan /\ UNCHANGED <<spc, sPlan>>
           \/ spc = "base" /\ rpc = "base" /\ spc' = "ots" /\ rpc' = "ots" /\ UNCHANGED <<sPlan, rPlan>>
    BY <1>3 DEF SSetup, RSetup, BaseOts, inputs, offline, SenderPlan, ReceiverPlan
  <2>2. TripleInv'
    BY <2>1, SameTriples DEF SupplyInv
  <2>3. PlanInv'
    BY <2>1, SamePlans DEF SupplyInv, PlanInv, Early
  <2> QED BY <2>2, <2>3 DEF SupplyInv
<1>4. CASE ExpandOt
  <2>1. /\ UNCHANGED <<op, cap, mSetup, spc, rpc, sPlan, rPlan, sTriples, rTriples>>
        /\ got' = [got EXCEPT !.ots = @ + 1] /\ got \in [ots : Nat, triples : Nat]
    BY <1>4 DEF ExpandOt, inputs, SupplyInv, PlanInv
  <2>2. got' \in [ots : Nat, triples : Nat] /\ got'.triples = got.triples
    BY <2>1
  <2>3. TripleInv'
    BY <2>1, <2>2, SameTriples DEF SupplyInv
  <2>4. PlanInv'
    BY <2>1, <2>2, SamePlans DEF SupplyInv, PlanInv, Early
  <2> QED BY <2>3, <2>4 DEF SupplyInv
<1>5. CASE ExpandTriple
  BY <1>5, ExpandKeeps
<1>6. CASE SExpanded \/ RExpanded
  <2>1. /\ UNCHANGED <<op, cap, mSetup, got, sTriples, rTriples, sPlan, rPlan>>
        /\ \/ spc = "ots" /\ spc' = "triples" /\ UNCHANGED rpc
           \/ spc = "triples" /\ got.triples = sPlan.tripleBatches /\ spc' = First /\ UNCHANGED rpc
           \/ rpc = "ots" /\ rpc' = "triples" /\ UNCHANGED spc
           \/ rpc = "triples" /\ rpc' = First /\ UNCHANGED spc
    BY <1>6 DEF SExpanded, RExpanded, inputs, offline
  <2>2. TripleInv'
    BY <2>1, SameTriples DEF SupplyInv
  <2>3. PlanInv'
    BY <2>1, <1>1, SamePlans DEF SupplyInv, PlanInv, Early
  <2> QED BY <2>2, <2>3 DEF SupplyInv
<1>7. CASE Oprf \/ Join \/ PermShare \/ FinalOt \/ Rot \/ SCard \/ RCard \/ AddShares \/ Compare \/ SBit \/ RBit
           \/ SumBlock \/ SSum32 \/ RSum32 \/ SClear \/ RClear \/ RClearBack \/ SClearBack
           \/ RMult \/ SMult \/ RProduct
  <2>1. /\ UNCHANGED <<op, cap, mSetup, got, sTriples, rTriples, sPlan, rPlan>>
        /\ spc' = spc \/ (spc \notin Early /\ spc' \notin Early)
        /\ rpc' = rpc \/ (rpc \notin Early /\ rpc' \notin Early)
    BY <1>7, LaterSteps DEF inputs, offline
  <2>2. TripleInv'
    BY <2>1, SameTriples DEF SupplyInv
  <2>3. PlanInv'
    BY <2>1, SamePlans DEF SupplyInv, PlanInv, Early
  <2> QED BY <2>2, <2>3 DEF SupplyInv
<1> QED BY <1>2, <1>3, <1>4, <1>5, <1>6, <1>7 DEF Next, Done

LEMMA SupplyAlways == ASSUME BitTranscripts PROVE Spec => []SupplyInv
<1>1. SupplyInv /\ [Next]_vars => SupplyInv'
  BY SupplyStep
<1> QED BY SupplyInit, <1>1, PTL DEF Spec

LEMMA MiddleIs ==
  ASSUME NEW t, Len(t.mult) \in Nat
  PROVE  Middle(t) \in 0..Len(t.mult)
<1> DEFINE l == Len(t.mult)
           q == l \div (2 * RowBits)
<1>1. RowBits \in Nat \ {0} /\ 2 * RowBits \in Nat \ {0}
  BY OteGenAssumption
<1>2. PICK w \in Nat \ {0} : w = 2 * RowBits
  BY <1>1
<1>3. q \in Nat /\ w * q <= l
  BY <1>1, <1>2, Div
<1>4. Middle(t) = RowBits * q
  BY DEF Middle
<1> HIDE DEF q
<1>5. RowBits * q \in Nat /\ w * q = RowBits * q + RowBits * q
  BY <1>1, <1>2, <1>3
<1> QED BY <1>3, <1>4, <1>5

\* Setup makes a row of triples for every AND gate of circuit PSI in each half,
\* and an OT for every switch, whatever the sizes and the largest batch are.
THEOREM SuppliesSufficeHolds == ASSUME BitTranscripts PROVE Spec => []SuppliesSuffice
<1>1. SupplyInv => SuppliesSuffice
  <2> SUFFICES ASSUME SupplyInv PROVE SuppliesSuffice
    OBVIOUS
  <2>1. ASSUME Joining, NEW t \in {sTriples, rTriples}
        PROVE  Middle(t) >= RowBits * TripleRows(NumBins)
    <3>1. got.triples = sPlan.tripleBatches /\ sPlan = SenderPlan
      BY <2>1 DEF Joining, SupplyInv, PlanInv, Early
    <3>2. Len(t.mult) = sPlan.tripleBatches * sPlan.triplesPer
      BY <2>1, <3>1 DEF SupplyInv, TripleInv, Supplied
    <3>3. Len(t.mult) >= TriplesFor(NumBins) /\ Len(t.mult) \in Nat
      <4>1. /\ SenderPlan.tripleBatches \in Nat /\ SenderPlan.triplesPer \in Nat
            /\ SenderPlan.tripleBatches * SenderPlan.triplesPer >= TriplesFor(NumBins)
        BY PlansFit
      <4> QED BY <3>1, <3>2, <4>1
    <3>4. PICK rows \in Nat : rows = TripleRows(NumBins)
      BY NeedIs
    <3>5. PICK w \in Nat \ {0} : w = 2 * RowBits
      BY OteGenAssumption
    <3>6. TriplesFor(NumBins) = rows * w /\ rows * w \in Nat
      BY <3>4, <3>5, NeedIs
    <3>7. (rows * w) \div w = rows /\ (rows * w) \div w <= Len(t.mult) \div w
      BY <3>3, <3>6, DivOf, DivUp
    <3>8. Len(t.mult) \div w \in Nat
      BY <3>3, Div
    <3>9. PICK q \in Nat : q = Len(t.mult) \div w
      BY <3>8
    <3>10. RowBits * rows <= RowBits * q /\ RowBits * rows \in Nat /\ RowBits * q \in Nat
      <4>1. rows <= q /\ RowBits \in Nat
        BY <3>7, <3>9, OteGenAssumption
      <4>2. RowBits * rows <= RowBits * q
        BY <4>1, TimesUpTo
      <4> QED BY <4>1, <4>2
    <3>11. Middle(t) = RowBits * q
      BY <3>5, <3>9 DEF Middle
    <3> QED BY <3>4, <3>10, <3>11
  <2>2. ASSUME mSetup, spc = "ps", rpc = "ps", NEW p \in {sPlan, rPlan}
        PROVE  p.otBatches * p.otsPer >= OtsFor
    <3>1. sPlan = SenderPlan /\ rPlan = ReceiverPlan
      BY <2>2 DEF SupplyInv, PlanInv
    <3> QED BY <2>2, <3>1, PlansFit
  <2> QED BY <2>1, <2>2 DEF SuppliesSuffice
<1> QED BY <1>1, SupplyAlways, PTL

\* Cut at the same place the two sides' triples are a deal of Gmw: A and B of one side
\* belong to C and D of the other.
THEOREM TriplesMultiplyHolds == ASSUME BitTranscripts PROVE Spec => []TriplesMultiply
<1>1. SupplyInv => TriplesMultiply
  <2> SUFFICES ASSUME SupplyInv PROVE TriplesMultiply
    OBVIOUS
  <2>1. PICK l : l = Len(sTriples.mult)
    OBVIOUS
  <2>2. /\ sTriples.mult \in Seq(0..1) /\ sTriples.add \in Seq(0..1)
        /\ rTriples.mult \in Seq(0..1) /\ rTriples.add \in Seq(0..1)
        /\ Len(sTriples.add) = l /\ Len(rTriples.mult) = l /\ Len(rTriples.add) = l /\ l \in Nat
    BY <2>1 DEF SupplyInv, TripleInv, Supplied
  <2>3. \A k \in 1..l : sTriples.mult[k] * rTriples.mult[k] = (sTriples.add[k] + rTriples.add[k]) % 2
    BY <2>1 DEF SupplyInv, TripleInv, Belong
  <2>4. PICK m \in 0..l : m = Middle(sTriples)
    BY <2>1, <2>2, MiddleIs
  <2>5. Middle(rTriples) = m
    BY <2>1, <2>2, <2>4 DEF Middle
  <2> DEFINE Low(v) == SubSeq(v, 1, m)
             High(v) == SubSeq(v, m + 1, l)
             Halves(v) == /\ DOMAIN Low(v) = 1..m /\ \A k \in 1..m : Low(v)[k] = v[k]
                          /\ DOMAIN High(v) = 1..l - m /\ \A k \in 1..l - m : High(v)[k] = v[m + k]
                          /\ \A k \in 1..l : v[k] \in 0..1
  <2>6. ASSUME NEW v \in Seq(0..1), Len(v) = l PROVE Halves(v)
    <3>1. \A i \in 1..l : v[i] \in 0..1
      BY <2>6, ElementOfSeq
    <3>2. /\ Low(v) \in Seq(0..1) /\ Len(Low(v)) = IF 1 <= m THEN m - 1 + 1 ELSE 0
          /\ \A i \in 1..m - 1 + 1 : Low(v)[i] = v[1 + i - 1]
      BY <2>2, <3>1, SubSeqProperties
    <3>3. \A i \in m + 1..l : v[i] \in 0..1
      BY <3>1
    <3>4. /\ High(v) \in Seq(0..1) /\ Len(High(v)) = IF m + 1 <= l THEN l - (m + 1) + 1 ELSE 0
          /\ \A i \in 1..l - (m + 1) + 1 : High(v)[i] = v[m + 1 + i - 1]
      BY <2>2, <3>3, SubSeqProperties
    <3> HIDE DEF Low, High
    <3>5. Len(Low(v)) = m /\ Len(High(v)) = l - m
      BY <2>2, <3>2, <3>4
    <3>6. DOMAIN Low(v) = 1..m /\ DOMAIN High(v) = 1..l - m
      BY <3>2, <3>4, <3>5, LenProperties
    <3>7. \A k \in 1..m : Low(v)[k] = v[k]
      BY <3>2
    <3>8. \A k \in 1..l - m : High(v)[k] = v[m + k]
      <4> TAKE k \in 1..l - m
      <4>1. k \in 1..l - (m + 1) + 1 /\ m + 1 + k - 1 = m + k
        BY <2>2
      <4> QED BY <3>4, <4>1
    <3> QED BY <3>1, <3>6, <3>7, <3>8
  <2>7. Halves(sTriples.mult) /\ Halves(sTriples.add) /\ Halves(rTriples.mult) /\ Halves(rTriples.add)
    BY <2>1, <2>2, <2>6
  <2>8. PICK r : r = Straight(rTriples)
    OBVIOUS
  <2>9. PICK s : s = Crossed(sTriples)
    OBVIOUS
  <2>10. /\ r.A = Low(rTriples.mult) /\ r.B = Low(rTriples.add) /\ r.C = High(rTriples.mult) /\ r.D = High(rTriples.add)
         /\ s.C = Low(sTriples.mult) /\ s.D = Low(sTriples.add) /\ s.A = High(sTriples.mult) /\ s.B = High(sTriples.add)
    BY <2>1, <2>2, <2>4, <2>5, <2>8, <2>9 DEF Straight, Crossed, Below, Above
  <2>11. \A k \in 1..l : rTriples.mult[k] * sTriples.mult[k] = (rTriples.add[k] + sTriples.add[k]) % 2
    <3> TAKE k \in 1..l
    <3>1. sTriples.mult[k] \in 0..1 /\ sTriples.add[k] \in 0..1 /\ rTriples.mult[k] \in 0..1 /\ rTriples.add[k] \in 0..1
      BY <2>7
    <3>2. sTriples.mult[k] * rTriples.mult[k] = (sTriples.add[k] + rTriples.add[k]) % 2
      BY <2>3
    <3>3. \A x \in 0..1, y \in 0..1, z \in 0..1, w \in 0..1 : x * y = y * x /\ z + w = w + z
      OBVIOUS
    <3> QED BY <3>1, <3>2, <3>3
  <2> HIDE DEF Low, High
  <2>12. ASSUME NEW k \in DOMAIN r.A \cap DOMAIN s.C
         PROVE  r.A[k] * s.C[k] = (r.B[k] + s.D[k]) % 2
    <3>1. k \in 1..m /\ k \in 1..l
      BY <2>2, <2>7, <2>10
    <3>2. /\ r.A[k] = rTriples.mult[k] /\ r.B[k] = rTriples.add[k]
          /\ s.C[k] = sTriples.mult[k] /\ s.D[k] = sTriples.add[k]
      BY <2>7, <2>10, <3>1
    <3> QED BY <2>11, <3>1, <3>2
  <2>13. ASSUME NEW k \in DOMAIN s.A \cap DOMAIN r.C
         PROVE  s.A[k] * r.C[k] = (s.B[k] + r.D[k]) % 2
    <3>1. k \in 1..l - m /\ m + k \in 1..l
      BY <2>2, <2>7, <2>10
    <3>2. /\ r.C[k] = rTriples.mult[m + k] /\ r.D[k] = rTriples.add[m + k]
          /\ s.A[k] = sTriples.mult[m + k] /\ s.B[k] = sTriples.add[m + k]
      BY <2>7, <2>10, <3>1
    <3> QED BY <2>3, <3>1, <3>2
  <2> QED BY <2>8, <2>9, <2>12, <2>13 DEF TriplesMultiply
<1> QED BY <1>1, SupplyAlways, PTL

(***************************************************************************)
(* The union.                                                              *)
(***************************************************************************)
Appended(s, e) == IF e = Nothing THEN s ELSE Append(s, e)

\* A sequence with one element more, apart from those before.
LEMMA AppendIs ==
  ASSUME NEW S, NEW s \in Seq(S), NEW e \in S
  PROVE  /\ Append(s, e) \in Seq(S) /\ Range(Append(s, e)) = Range(s) \cup {e}
         /\ IsInjective(s) /\ e \notin Range(s) => IsInjective(Append(s, e))
<1>1. /\ Len(s) \in Nat /\ DOMAIN s = 1..Len(s) /\ Append(s, e) \in Seq(S) /\ Len(Append(s, e)) = Len(s) + 1
      /\ DOMAIN Append(s, e) = 1..Len(s) + 1
      /\ \A i \in 1..Len(s) : Append(s, e)[i] = s[i]
      /\ Append(s, e)[Len(s) + 1] = e
  OBVIOUS
<1> DEFINE a == Append(s, e)
           n == Len(s)
<1>2. n \in Nat /\ DOMAIN s = 1..n /\ DOMAIN a = 1..n + 1 /\ (\A i \in 1..n : a[i] = s[i]) /\ a[n + 1] = e
  BY <1>1
<1> HIDE DEF a, n
<1>3. Range(a) = Range(s) \cup {e}
  <2>1. \A i \in 1..n + 1 : i \in 1..n \/ i = n + 1
    BY <1>2
  <2>2. \A i \in 1..n : i \in 1..n + 1
    BY <1>2
  <2>3. n + 1 \in 1..n + 1
    BY <1>2
  <2> QED BY <1>2, <2>1, <2>2, <2>3 DEF Range
<1>4. ASSUME IsInjective(s), e \notin Range(s) PROVE IsInjective(a)
  <2> SUFFICES ASSUME NEW i \in 1..n + 1, NEW k \in 1..n + 1, a[i] = a[k] PROVE i = k
    BY <1>2 DEF IsInjective
  <2>1. \A j \in 1..n : s[j] \in Range(s)
    BY <1>2 DEF Range
  <2>2. (i \in 1..n \/ i = n + 1) /\ (k \in 1..n \/ k = n + 1)
    BY <1>2
  <2>3. \A j \in 1..n, l \in 1..n : s[j] = s[l] => j = l
    BY <1>2, <1>4 DEF IsInjective
  <2> QED BY <1>2, <1>4, <2>1, <2>2, <2>3
<1> QED BY <1>1, <1>3, <1>4 DEF a

LEMMA TakenIs ==
  ASSUME NEW S, Nothing \notin S, NEW v \in [Bins -> S \cup {Nothing}],
         \A i \in Bins : Offer(i, rShare[i]) = v[i],
         \A i \in Bins, k \in Bins : v[i] = v[k] /\ v[i] # Nothing => i = k
  PROVE  Taken \in Seq(S) /\ Range(Taken) = Range(v) \ {Nothing} /\ IsInjective(Taken)
<1>1. NumBins \in Nat /\ Bins = 0..NumBins - 1
  BY CpsoAssumption DEF Bins
<1>2. PICK N \in Nat : N = NumBins
  BY <1>1
<1>3. \A n \in 1..N : n - 1 \in Bins
  BY <1>1, <1>2
<1> DEFINE Is(p) == p = [n \in 0..N |-> IF n = 0 THEN <<>>
                           ELSE IF v[n - 1] = Nothing THEN p[n - 1] ELSE Append(p[n - 1], v[n - 1])]
           step == [n \in 1..N |-> [s \in Seq(S) |-> Appended(s, v[n - 1])]]
<1>4. step \in [1..N -> [Seq(S) -> Seq(S)]]
  <2>1. ASSUME NEW n \in 1..N, NEW s \in Seq(S) PROVE Appended(s, v[n - 1]) \in Seq(S)
    <3>1. v[n - 1] \in S \cup {Nothing}
      BY <1>3
    <3> QED BY <3>1, AppendIs DEF Appended
  <2> QED BY <2>1
<1>5. <<>> \in Seq(S)
  BY EmptySeq
<1>6. PICK g : Follows(g, N, Seq(S), <<>>, step)
  <2> HIDE DEF step
  <2> QED BY <1>4, <1>5, Recursion
<1>7. g \in [0..N -> Seq(S)] /\ g[0] = <<>>
  BY <1>6 DEF Follows
<1>8. \A n \in 1..N : g[n] = Appended(g[n - 1], v[n - 1])
  <2>1. \A n \in 1..N : g[n] = step[n][g[n - 1]] /\ g[n - 1] \in Seq(S)
    <3>1. \A n \in 1..N : n - 1 \in 0..N
      OBVIOUS
    <3> HIDE DEF step
    <3> QED BY <1>6, <1>7, <3>1 DEF Follows
  <2> QED BY <2>1
<1>9. Is(g)
  <2>1. \A n \in 0..N : g[n] = IF n = 0 THEN <<>>
                               ELSE IF v[n - 1] = Nothing THEN g[n - 1] ELSE Append(g[n - 1], v[n - 1])
    <3>1. \A n \in 0..N : n = 0 \/ n \in 1..N
      BY <1>2
    <3> QED BY <1>7, <1>8, <3>1 DEF Appended
  <2> QED BY <1>7, <2>1
<1> DEFINE h == CHOOSE p : Is(p)
<1>10. Is(h)
  <2> HIDE DEF Is
  <2> QED BY <1>9
<1>11. Taken = h[N]
  <2> DEFINE d == CHOOSE D : D = [n \in 0..N |-> IF n = 0 THEN <<>>
                      ELSE LET msg == Offer(n - 1, rShare[n - 1])
                           IN IF msg = Nothing THEN D[n - 1] ELSE Append(D[n - 1], msg)]
  <2>1. Taken = d[N]
    BY <1>2 DEF Taken
  <2>2. \A D : [n \in 0..N |-> IF n = 0 THEN <<>>
                      ELSE LET msg == Offer(n - 1, rShare[n - 1])
                           IN IF msg = Nothing THEN D[n - 1] ELSE Append(D[n - 1], msg)]
               = [n \in 0..N |-> IF n = 0 THEN <<>>
                           ELSE IF v[n - 1] = Nothing THEN D[n - 1] ELSE Append(D[n - 1], v[n - 1])]
    <3> TAKE D
    <3>1. ASSUME NEW n \in 0..N
          PROVE  (IF n = 0 THEN <<>> ELSE LET msg == Offer(n - 1, rShare[n - 1])
                                          IN IF msg = Nothing THEN D[n - 1] ELSE Append(D[n - 1], msg))
                 = (IF n = 0 THEN <<>> ELSE IF v[n - 1] = Nothing THEN D[n - 1] ELSE Append(D[n - 1], v[n - 1]))
      <4>1. n # 0 => Offer(n - 1, rShare[n - 1]) = v[n - 1]
        <5>1. n # 0 => n \in 1..N
          BY <1>2
        <5> QED BY <1>3, <5>1
      <4> QED BY <4>1
    <3> QED BY <3>1
  <2>3. \A D : Is(D) <=> D = [n \in 0..N |-> IF n = 0 THEN <<>>
                      ELSE LET msg == Offer(n - 1, rShare[n - 1])
                           IN IF msg = Nothing THEN D[n - 1] ELSE Append(D[n - 1], msg)]
    BY <2>2
  <2>4. d = h
    BY <2>3
  <2> QED BY <2>1, <2>4
<1>12. \A n \in 0..N : h[n] = IF n = 0 THEN <<>> ELSE Appended(h[n - 1], v[n - 1])
  BY <1>10 DEF Appended
<1> HIDE DEF h, Is
<1> DEFINE Before(n) == {v[i] : i \in {j \in Bins : j < n}} \ {Nothing}
           T == {n \in Nat : n <= N => h[n] \in Seq(S) /\ Range(h[n]) = Before(n) /\ IsInjective(h[n])}
<1>13. 0 \in T
  <2>1. h[0] = <<>>
    BY <1>2, <1>12
  <2>2. DOMAIN <<>> = {} /\ <<>> \in Seq(S)
    BY <1>5
  <2>3. Before(0) = {}
    <3>1. {j \in Bins : j < 0} = {}
      BY <1>1
    <3> QED BY <3>1
  <2>4. Range(<<>>) = {} /\ IsInjective(<<>>)
    BY <2>2 DEF Range, IsInjective
  <2> HIDE DEF Before
  <2> QED BY <2>1, <2>2, <2>3, <2>4
<1>14. ASSUME NEW n \in Nat, n \in T PROVE n + 1 \in T
  <2> SUFFICES ASSUME n + 1 <= N
               PROVE  h[n + 1] \in Seq(S) /\ Range(h[n + 1]) = Before(n + 1) /\ IsInjective(h[n + 1])
    OBVIOUS
  <2>1. n + 1 \in 0..N /\ n + 1 # 0 /\ (n + 1) - 1 = n /\ n \in Bins
    BY <1>1, <1>2
  <2>2. h[n] \in Seq(S) /\ Range(h[n]) = Before(n) /\ IsInjective(h[n])
    BY <1>14
  <2>3. h[n + 1] = Appended(h[n], v[n])
    BY <1>12, <2>1
  <2>4. {j \in Bins : j < n + 1} = {j \in Bins : j < n} \cup {n}
    BY <1>1, <2>1
  <2>5. Before(n + 1) = Before(n) \cup ({v[n]} \ {Nothing})
    BY <2>4
  <2>6. CASE v[n] = Nothing
    <3>1. h[n + 1] = h[n] /\ Before(n + 1) = Before(n)
      BY <2>3, <2>5, <2>6 DEF Appended
    <3> QED BY <2>2, <3>1
  <2>7. CASE v[n] # Nothing
    <3>1. v[n] \in S /\ h[n + 1] = Append(h[n], v[n]) /\ Before(n + 1) = Before(n) \cup {v[n]}
      BY <2>1, <2>3, <2>5, <2>7 DEF Appended
    <3>2. v[n] \notin Before(n)
      <4> SUFFICES ASSUME NEW j \in Bins, j < n, v[n] = v[j] PROVE FALSE
        OBVIOUS
      <4>1. j = n
        BY <2>1, <2>7
      <4> QED BY <4>1
    <3> HIDE DEF Before
    <3>3. PICK e \in S : e = v[n]
      BY <3>1
    <3>4. PICK s \in Seq(S) : s = h[n]
      BY <2>2
    <3>5. /\ Append(s, e) \in Seq(S) /\ Range(Append(s, e)) = Range(s) \cup {e}
          /\ IsInjective(s) /\ e \notin Range(s) => IsInjective(Append(s, e))
      BY AppendIs
    <3> QED BY <2>2, <3>1, <3>2, <3>3, <3>4, <3>5
  <2> QED BY <2>6, <2>7
<1>15. N \in T
  <2> HIDE DEF T
  <2> QED BY <1>13, <1>14, Induction
<1>16. Before(N) = Range(v) \ {Nothing}
  <2>1. {j \in Bins : j < N} = Bins /\ DOMAIN v = Bins
    BY <1>1, <1>2
  <2> QED BY <2>1 DEF Range
<1> HIDE DEF Before
<1> QED BY <1>11, <1>15, <1>16

\* What the union knows of a join: a bin with a row of the sender is common
\* when the receiver has that row, and only then the flags differ.
JoinedInv ==
  /\ sharing.mapping \in [DOMAIN Y -> Bins]
  /\ \A i, k \in DOMAIN Y : sharing.mapping[i] = sharing.mapping[k] => i = k
  /\ sharing.flagS \in [Bins -> 0..1]
  /\ \A b \in Bins :
       /\ sharing.flagR[b] \in 0..1
       /\ sharing.flagS[b] = sharing.flagR[b] <=> b \notin J!Common(sharing)
SharedInv ==
  /\ perm \in Perms /\ sShare \in [Bins -> 0..1]
  /\ rShare = [i \in Bins |-> (sShare[i] + RFlag(perm[i])) % 2]
Exact(res) == Range(res) = Range(Y) \ Range(X) /\ Len(res) = Cardinality(Range(res))
Together == {"ps", "final", "done"}
UnionInv ==
  op = "union" =>
    /\ Y \in SendSets /\ X \in RecvSets
    /\ spc \in Early \cup {"oprf", "join"} \cup Together
    /\ rpc \in Early \cup {"oprf", "join"} \cup Together
    /\ spc \in Together \/ rpc \in Together => rpc = spc
    /\ spc \in {"ps", "final"} => JoinedInv
    /\ spc = "final" => SharedInv
    /\ spc = "done" => Exact(result)

\* A permutation takes no bin twice.
LEMMA PermIs ==
  ASSUME NEW p \in Perms
  PROVE  /\ p \in [Bins -> Bins] /\ \A b \in Bins : \E i \in Bins : p[i] = b
         /\ \A i \in Bins, k \in Bins : p[i] = p[k] => i = k
<1>1. p \in [Bins -> Bins] /\ Range(p) = Bins
  BY CpsoAssumption
<1>2. \A b \in Bins : \E i \in Bins : p[i] = b
  BY <1>1 DEF Range
<1>3. IsFiniteSet(Bins)
  BY CpsoAssumption, FS_Interval DEF Bins
<1>4. p \in Surjection(Bins, Bins)
  BY <1>1, <1>2 DEF Surjection
<1>5. p \in Injection(Bins, Bins)
  BY <1>3, <1>4, FS_SurjSameCardinalityImpliesInj
<1>6. \A i \in Bins, k \in Bins : p[i] = p[k] => i = k
  BY <1>5 DEF Injection, IsInjective
<1> QED BY <1>1, <1>2, <1>6

LEMMA LengthIs ==
  ASSUME NEW S, NEW s \in Seq(S), IsInjective(s)
  PROVE  Len(s) = Cardinality(Range(s))
<1>1. Len(s) \in Nat /\ DOMAIN s = 1..Len(s) /\ s \in [1..Len(s) -> Range(s)]
  BY LenProperties DEF Range
<1>2. s \in Injection(1..Len(s), Range(s))
  BY <1>1 DEF Injection, IsInjective
<1>3. s \in Surjection(1..Len(s), Range(s))
  BY <1>1 DEF Surjection, Range
<1>4. ExistsBijection(1..Len(s), Range(s))
  BY <1>2, <1>3 DEF ExistsBijection, Bijection
<1>5. IsFiniteSet(1..Len(s)) /\ Cardinality(1..Len(s)) = Len(s)
  <2>1. IsFiniteSet(1..Len(s)) /\ Cardinality(1..Len(s)) = IF 1 > Len(s) THEN 0 ELSE Len(s) - 1 + 1
    BY <1>1, FS_Interval
  <2> QED BY <1>1, <2>1
<1> QED BY <1>4, <1>5, FS_Bijection

LEMMA JoinGives ==
  ASSUME NEW mapping \in [DOMAIN Y -> Bins], NEW flags \in FlagShares, NEW masks,
         J!Injective(mapping), sharing' = Cpsi(mapping, flags, masks), UNCHANGED <<Y, X>>
  PROVE  JoinedInv'
<1>1. flags \in [Bins -> 0..1]
  BY CpsoAssumption
<1>2. PICK common : common = J!Common([mapping |-> mapping])
  OBVIOUS
<1>3. /\ sharing'.mapping = mapping /\ sharing'.flagS = flags
      /\ sharing'.flagR = [b \in Bins |-> (flags[b] + (IF b \in common THEN 1 ELSE 0)) % 2]
  BY <1>2 DEF Cpsi
<1>4. J!Common(sharing)' = common
  <2>1. common = {mapping[i] : i \in {k \in DOMAIN Y : J!Has(X, Y[k])}}
    BY <1>2 DEF J!Common
  <2>2. J!Common(sharing)' = {sharing'.mapping[i] : i \in {k \in DOMAIN Y : J!Has(X, Y[k])}}
    BY DEF J!Common, J!Has
  <2> QED BY <1>3, <2>1, <2>2
<1>5. ASSUME NEW b \in Bins
      PROVE  /\ sharing'.flagR[b] \in 0..1
             /\ sharing'.flagS[b] = sharing'.flagR[b] <=> b \notin common
  <2>1. PICK f \in 0..1 : f = flags[b]
    BY <1>1
  <2>2. sharing'.flagR[b] = (f + (IF b \in common THEN 1 ELSE 0)) % 2 /\ sharing'.flagS[b] = f
    BY <1>3, <2>1
  <2>3. CASE b \in common
    <3>1. sharing'.flagR[b] = (f + 1) % 2
      BY <2>2, <2>3
    <3>2. (f + 1) % 2 \in 0..1 /\ (f + 1) % 2 # f
      BY <2>1
    <3> QED BY <2>2, <2>3, <3>1, <3>2
  <2>4. CASE b \notin common
    <3>1. sharing'.flagR[b] = (f + 0) % 2
      BY <2>2, <2>4
    <3>2. (f + 0) % 2 = f
      BY <2>1
    <3> QED BY <2>1, <2>2, <2>4, <3>1, <3>2
  <2> QED BY <2>3, <2>4
<1>6. \A i, k \in DOMAIN Y : mapping[i] = mapping[k] => i = k
  BY DEF J!Injective
<1>7. /\ (sharing.mapping \in [DOMAIN Y -> Bins])'
      /\ (\A i, k \in DOMAIN Y : sharing.mapping[i] = sharing.mapping[k] => i = k)'
      /\ (sharing.flagS \in [Bins -> 0..1])'
  BY <1>1, <1>3, <1>6
<1> QED BY <1>4, <1>5, <1>7 DEF JoinedInv

\* The bins of a join: the row in a bin, and whether it is common.
LEMMA BinsAre ==
  ASSUME JoinedInv
  PROVE  /\ \A j \in DOMAIN Y : Mapped(sharing.mapping[j]) /\ RowIn(sharing.mapping[j]) = j
         /\ \A b : Mapped(b) => RowIn(b) \in DOMAIN Y /\ sharing.mapping[RowIn(b)] = b
         /\ \A j \in DOMAIN Y : sharing.mapping[j] \in J!Common(sharing) <=> J!Has(X, Y[j])
         /\ \A b \in J!Common(sharing) : Mapped(b)
<1>1. \A j \in DOMAIN Y : Mapped(sharing.mapping[j]) /\ RowIn(sharing.mapping[j]) = j
  BY DEF JoinedInv, Mapped, RowIn
<1>2. \A b : Mapped(b) => RowIn(b) \in DOMAIN Y /\ sharing.mapping[RowIn(b)] = b
  BY DEF Mapped, RowIn
<1>3. J!Common(sharing) = {sharing.mapping[i] : i \in {k \in DOMAIN Y : J!Has(X, Y[k])}}
  BY DEF J!Common
<1> QED BY <1>1, <1>2, <1>3 DEF JoinedInv

LEMMA FinalExact ==
  ASSUME Y \in SendSets, X \in RecvSets, JoinedInv, SharedInv
  PROVE  Exact(Taken)
<1>1. Y \in Seq(Range(Y)) /\ IsInjective(Y) /\ Nothing \notin Range(Y)
  BY CpsoAssumption
<1>2. /\ perm \in [Bins -> Bins] /\ (\A b \in Bins : \E i \in Bins : perm[i] = b)
      /\ \A i \in Bins, k \in Bins : perm[i] = perm[k] => i = k
  BY PermIs DEF SharedInv
<1> DEFINE S == Range(Y) \ Range(X)
           Own(i) == Mapped(perm[i]) /\ perm[i] \notin J!Common(sharing)
           v == [i \in Bins |-> IF Own(i) THEN Y[RowIn(perm[i])] ELSE Nothing]
<1>3. \A j \in DOMAIN Y : Mapped(sharing.mapping[j]) /\ RowIn(sharing.mapping[j]) = j
  BY BinsAre
<1>4. \A b : Mapped(b) => RowIn(b) \in DOMAIN Y /\ sharing.mapping[RowIn(b)] = b
  BY BinsAre
<1>5. \A j \in DOMAIN Y : sharing.mapping[j] \in J!Common(sharing) <=> Y[j] \in Range(X)
  <2>1. \A j \in DOMAIN Y : J!Has(X, Y[j]) <=> Y[j] \in Range(X)
    BY DEF J!Has, Range
  <2> QED BY <2>1, BinsAre
<1>6. ASSUME NEW i \in Bins PROVE v[i] \in S \cup {Nothing} /\ (v[i] = Nothing <=> ~Own(i))
  <2>1. CASE Own(i)
    <3>1. PICK j \in DOMAIN Y : j = RowIn(perm[i]) /\ sharing.mapping[j] = perm[i]
      BY <2>1, <1>4
    <3>2. v[i] = Y[j] /\ Y[j] \notin Range(X)
      BY <1>5, <2>1, <3>1
    <3>3. Y[j] \in Range(Y)
      BY <3>1 DEF Range
    <3> QED BY <1>1, <2>1, <3>2, <3>3
  <2>2. CASE ~Own(i)
    BY <2>2
  <2> QED BY <2>1, <2>2
<1>7. v \in [Bins -> S \cup {Nothing}] /\ Nothing \notin S
  BY <1>1, <1>6
<1>8. ASSUME NEW i \in Bins, NEW k \in Bins, v[i] = v[k], v[i] # Nothing PROVE i = k
  <2>1. Own(i) /\ Own(k)
    BY <1>6, <1>8
  <2>2. Y[RowIn(perm[i])] = Y[RowIn(perm[k])]
    BY <1>8, <2>1
  <2>3. RowIn(perm[i]) = RowIn(perm[k])
    BY <1>1, <1>4, <2>1, <2>2 DEF IsInjective
  <2>4. perm[i] = perm[k]
    BY <1>4, <2>1, <2>3
  <2> QED BY <1>2, <2>4
<1>9. ASSUME NEW i \in Bins PROVE Offer(i, rShare[i]) = v[i]
  <2>1. PICK b \in Bins : b = perm[i]
    BY <1>2
  <2>2. PICK s \in 0..1 : s = sShare[i]
    BY DEF SharedInv
  <2>3. PICK f \in 0..1 : f = sharing.flagS[b]
    BY DEF JoinedInv
  <2>4. PICK e \in 0..1 : e = sharing.flagR[b]
    BY DEF JoinedInv
  <2>5. f = e <=> b \notin J!Common(sharing)
    BY <2>3, <2>4 DEF JoinedInv
  <2>6. rShare[i] = (s + f) % 2
    BY <2>1, <2>2, <2>3 DEF SharedInv, RFlag
  <2>7. (sShare[i] + SFlag(perm[i])) % 2 = (s + e) % 2
    BY <2>1, <2>2, <2>4 DEF SFlag
  <2>8. (s + f) % 2 = (s + e) % 2 <=> f = e
    <3>1. ASSUME f # e PROVE (s + f) % 2 # (s + e) % 2
      <4>1. s = 0 => (s + f) % 2 = f /\ (s + e) % 2 = e
        BY <2>3, <2>4
      <4>2. s = 1 => (s + f) % 2 = 1 - f /\ (s + e) % 2 = 1 - e
        BY <2>3, <2>4
      <4> QED BY <2>2, <2>3, <2>4, <3>1, <4>1, <4>2
    <3> QED BY <3>1
  <2>9. Offer(i, rShare[i]) = IF f = e /\ Mapped(b) THEN Y[RowIn(b)] ELSE Nothing
    BY <2>1, <2>6, <2>7, <2>8 DEF Offer
  <2> QED BY <2>1, <2>5, <2>9
<1>10. Range(v) \ {Nothing} = S
  <2>1. ASSUME NEW e \in S PROVE e \in Range(v) \ {Nothing}
    <3>1. PICK j \in DOMAIN Y : Y[j] = e
      BY DEF Range
    <3>2. sharing.mapping[j] \in Bins
      BY DEF JoinedInv
    <3>3. PICK i \in Bins : perm[i] = sharing.mapping[j]
      BY <1>2, <3>2
    <3>4. Mapped(perm[i]) /\ RowIn(perm[i]) = j /\ perm[i] \notin J!Common(sharing)
      BY <1>3, <1>5, <3>1, <3>3
    <3>5. v[i] = e
      BY <3>1, <3>4
    <3>6. i \in DOMAIN v
      OBVIOUS
    <3> HIDE DEF v
    <3>7. e \in Range(v)
      BY <3>5, <3>6 DEF Range
    <3> QED BY <1>7, <2>1, <3>7
  <2>2. DOMAIN v = Bins
    OBVIOUS
  <2>3. Range(v) \subseteq S \cup {Nothing}
    <3> HIDE DEF v, S
    <3> QED BY <1>7, <2>2 DEF Range
  <2> HIDE DEF v, S
  <2> QED BY <1>7, <2>1, <2>3
<1>11. Taken \in Seq(S) /\ Range(Taken) = Range(v) \ {Nothing} /\ IsInjective(Taken)
  <2> HIDE DEF v, S
  <2> QED BY <1>7, <1>8, <1>9, TakenIs
<1>12. Len(Taken) = Cardinality(Range(Taken))
  BY <1>11, LengthIs
<1> QED BY <1>10, <1>11, <1>12 DEF Exact

LEMMA UnionInit == Init => UnionInv
<1> SUFFICES ASSUME Init, op = "union" PROVE UnionInv
  BY DEF UnionInv
<1>1. First = "oprf"
  BY DEF First
<1>2. Y \in SendSets /\ X \in RecvSets /\ spc = (IF mSetup THEN "setup" ELSE First) /\ rpc = spc
  BY DEF Init
<1>3. spc \in {"setup", "oprf"}
  BY <1>1, <1>2
<1> QED BY <1>2, <1>3 DEF UnionInv, Early, Together

\* The steps before the join leave what the union needs alone.
LEMMA UnionQuiet ==
  ASSUME UnionInv, UNCHANGED <<op, Y, X, sharing, perm, sShare, rShare, result>>,
         op = "union" => \/ UNCHANGED <<spc, rpc>>
                         \/ /\ spc = rpc \/ spc \notin Together \/ rpc \notin Together
                            /\ {spc, rpc, spc', rpc'} \subseteq Early \cup {"oprf", "join"}
  PROVE  UnionInv'
<1> SUFFICES ASSUME op' = "union" PROVE UnionInv'
  BY DEF UnionInv
<1>1. op = "union"
  OBVIOUS
<1>2. J!Common(sharing)' = J!Common(sharing)
  BY DEF J!Common, J!Has
<1>3. JoinedInv => JoinedInv'
  BY <1>2 DEF JoinedInv
<1>4. SharedInv => SharedInv'
  BY DEF SharedInv, RFlag
<1>5. Exact(result) => Exact(result)'
  BY DEF Exact
<1>6. CASE UNCHANGED <<spc, rpc>>
  BY <1>1, <1>3, <1>4, <1>5, <1>6 DEF UnionInv
<1>7. CASE {spc, rpc, spc', rpc'} \subseteq Early \cup {"oprf", "join"}
  BY <1>1, <1>7 DEF UnionInv, Early, Together
<1> QED BY <1>1, <1>6, <1>7

LEMMA InputsStay == [Next]_vars => UNCHANGED inputs
<1>1. CASE UNCHANGED vars
  BY <1>1 DEF vars, inputs
<1>2. CASE SSetup \/ RSetup \/ BaseOts \/ ExpandOt
  BY <1>2 DEF SSetup, RSetup, BaseOts, ExpandOt
<1>3. CASE ExpandTriple \/ SExpanded \/ RExpanded
  BY <1>3 DEF ExpandTriple, SExpanded, RExpanded
<1> QED BY <1>1, <1>2, <1>3, LaterSteps DEF Next, Done

LEMMA UnionStep == ASSUME UnionInv, [Next]_vars PROVE UnionInv'
<1>1. CASE UNCHANGED vars
  <2>1. UNCHANGED <<op, Y, X, sharing, perm, sShare, rShare, result, spc, rpc>>
    BY <1>1 DEF vars
  <2> QED BY <2>1, UnionQuiet
<1>2. CASE op # "union"
  <2>1. op' = op
    BY InputsStay DEF inputs
  <2> QED BY <1>2, <2>1 DEF UnionInv
<1> SUFFICES ASSUME op = "union", Next PROVE UnionInv'
  BY <1>1, <1>2
<1>3. First = "oprf" /\ AfterJoin = "ps"
  BY DEF First, AfterJoin
<1>4. /\ spc \in Early \cup {"oprf", "join"} \cup Together
      /\ rpc \in Early \cup {"oprf", "join"} \cup Together
      /\ spc \in Together \/ rpc \in Together => rpc = spc
  BY DEF UnionInv
<1>5. CASE SSetup \/ RSetup \/ BaseOts \/ ExpandOt \/ ExpandTriple \/ SExpanded \/ RExpanded \/ Oprf
  <2>1. UNCHANGED <<op, Y, X, sharing, perm, sShare, rShare, result>>
    BY <1>5 DEF SSetup, RSetup, BaseOts, ExpandOt, ExpandTriple, SExpanded, RExpanded, Oprf, inputs, shares
  <2>2. /\ spc \in Early \cup {"oprf"} \/ rpc \in Early \cup {"oprf"}
        /\ spc' = spc \/ spc' \in Early \cup {"oprf", "join"}
        /\ rpc' = rpc \/ rpc' \in Early \cup {"oprf", "join"}
    BY <1>3, <1>5 DEF SSetup, RSetup, BaseOts, ExpandOt, ExpandTriple, SExpanded, RExpanded, Oprf, Early
  <2>3. {spc, rpc, spc', rpc'} \subseteq Early \cup {"oprf", "join"}
    BY <1>4, <2>2 DEF Early, Together
  <2> QED BY <1>4, <2>1, <2>3, UnionQuiet DEF Early, Together
<1>6. CASE Join
  <2>1. PICK mapping \in [DOMAIN Y -> Bins], flags \in FlagShares :
          /\ J!Injective(mapping)
          /\ \E masks \in Randoms(NumBins) : sharing' = Cpsi(mapping, flags, [b \in Bins |-> masks[b]])
    BY <1>6 DEF Join
  <2>2. PICK masks : sharing' = Cpsi(mapping, flags, masks)
    BY <2>1
  <2>3. spc' = "ps" /\ rpc' = "ps" /\ UNCHANGED <<op, Y, X>>
    BY <1>3, <1>6 DEF Join, inputs
  <2>4. JoinedInv'
    BY <2>1, <2>2, <2>3, JoinGives
  <2> QED BY <2>3, <2>4 DEF UnionInv, Together
<1>7. CASE PermShare
  <2>1. /\ spc = "ps" /\ rpc = "ps" /\ spc' = "final" /\ rpc' = "final"
        /\ UNCHANGED <<op, Y, X, sharing>>
        /\ perm' \in Perms /\ sShare' \in FlagShares
        /\ rShare' = [i \in Bins |-> (sShare'[i] + RFlag(perm'[i])) % 2]
    BY <1>7 DEF PermShare, inputs
  <2>2. J!Common(sharing)' = J!Common(sharing)
    BY <2>1 DEF J!Common, J!Has
  <2>3. JoinedInv'
    BY <2>1, <2>2 DEF UnionInv, JoinedInv
  <2>4. \A b : RFlag(b)' = RFlag(b)
    BY <2>1 DEF RFlag
  <2>5. sShare' \in [Bins -> 0..1]
    BY <2>1, CpsoAssumption
  <2>6. rShare' = [i \in Bins |-> (sShare'[i] + sharing'.flagS[perm'[i]]) % 2]
    BY <2>1 DEF RFlag
  <2>7. SharedInv'
    BY <2>1, <2>5, <2>6 DEF SharedInv, RFlag
  <2> QED BY <2>1, <2>3, <2>7 DEF UnionInv, Together
<1>8. CASE FinalOt
  <2>1. /\ spc = "final" /\ rpc = "final" /\ spc' = "done" /\ rpc' = "done"
        /\ UNCHANGED <<op, Y, X>> /\ result' = Taken
    BY <1>8 DEF FinalOt, inputs
  <2>2. Exact(Taken)
    BY <2>1, FinalExact DEF UnionInv
  <2>3. Exact(result)'
    BY <2>1, <2>2 DEF Exact
  <2> QED BY <2>1, <2>3 DEF UnionInv, Together
<1>9. CASE Rot \/ SCard \/ RCard \/ AddShares \/ Compare \/ SBit \/ RBit \/ SumBlock \/ SSum32 \/ RSum32
           \/ SClear \/ RClear \/ RClearBack \/ SClearBack \/ RMult \/ SMult \/ RProduct
  <2>1. spc \in {"rot", "rot2", "rot3", "send", "add", "gteq", "bit", "sum", "clear", "share"}
        \/ rpc \in {"recv", "add", "gteq", "bit", "sum", "clear", "mult", "product"}
    BY <1>9 DEF Rot, SCard, RCard, AddShares, Compare, SBit, RBit, SumBlock, SSum32, RSum32,
                SClear, RClear, RClearBack, SClearBack, RMult, SMult, RProduct
  <2> QED BY <1>4, <2>1 DEF Early, Together
<1>10. CASE Done
  BY <1>1, <1>10 DEF Done
<1> QED BY <1>5, <1>6, <1>7, <1>8, <1>9, <1>10 DEF Next

\* The receiver of the union gets each row of the sender that it does not have once,
\* and nothing else.
THEOREM UnionExactHolds == Spec => []UnionExact
<1>1. UnionInv /\ [Next]_vars => UnionInv'
  BY UnionStep
<1>2. UnionInv => UnionExact
  BY DEF UnionInv, UnionExact, Exact, Together
<1> QED BY UnionInit, <1>1, <1>2, PTL DEF Spec

(***************************************************************************)
(* Numbers that are the same modulo n, and sums.                           *)
(***************************************************************************)
Same(a, b, n) == a % n = b % n

LEMMA Remainder ==
  ASSUME NEW a \in Int, NEW n \in Nat \ {0}
  PROVE  a % n \in 0..n - 1 /\ a % n \in Int /\ \E k \in Int : a = (a % n) + k * n
<1> DEFINE q == a \div n
           r == a % n
<1>1. q \in Int /\ r \in 0..n - 1 /\ a = n * q + r
  OBVIOUS
<1> HIDE DEF q, r
<1>2. q * n = n * q
  BY <1>1
<1>3. a = r + q * n
  BY <1>1, <1>2
<1>4. \E k \in Int : a = r + k * n
  BY <1>1, <1>3
<1>5. r \in Int
  BY <1>1
<1> QED BY Zenon, <1>1, <1>4, <1>5 DEF r

LEMMA Far ==
  ASSUME NEW n \in Nat \ {0}, NEW k \in Int, NEW r \in 0..n - 1, NEW s \in 0..n - 1, r = s + k * n
  PROVE  r = s
<1>1. CASE k = 0
  BY <1>1
<1>2. CASE k > 0
  <2>1. PICK d \in Nat : k = 1 + d
    <3>1. k - 1 \in Nat /\ k = 1 + (k - 1)
      BY <1>2
    <3> QED BY <3>1
  <2>2. k * n = n + d * n /\ d * n \in Nat
    BY <2>1
  <2> QED BY <2>2
<1>3. CASE k < 0
  <2>1. PICK d \in Nat : k = -(1 + d)
    <3>1. -k - 1 \in Nat /\ k = -(1 + (-k - 1))
      BY <1>3
    <3> QED BY <3>1
  <2>2. k * n = -n - d * n /\ d * n \in Nat
    BY <2>1
  <2> QED BY <2>2
<1> QED BY <1>1, <1>2, <1>3

LEMMA SameIs ==
  ASSUME NEW n \in Nat \ {0}, NEW a \in Int, NEW b \in Int
  PROVE  Same(a, b, n) <=> \E k \in Int : a = b + k * n
<1>1. PICK r \in 0..n - 1, i \in Int : r = a % n /\ a = r + i * n
  BY Remainder
<1>2. PICK s \in 0..n - 1, j \in Int : s = b % n /\ b = s + j * n
  BY Remainder
<1>3. ASSUME r = s PROVE \E k \in Int : a = b + k * n
  <2>1. i - j \in Int /\ (i - j) * n = i * n - j * n
    OBVIOUS
  <2>2. a = b + (i - j) * n
    BY <1>1, <1>2, <1>3, <2>1
  <2> QED BY <2>1, <2>2
<1>4. ASSUME NEW k \in Int, a = b + k * n PROVE r = s
  <2>1. PICK l \in Int : l = j + k - i
    OBVIOUS
  <2>2. l * n = j * n + k * n - i * n
    BY <2>1
  <2>3. r = s + l * n
    <3> DEFINE x == i * n
               y == j * n
               z == k * n
               w == l * n
    <3>1. x \in Int /\ y \in Int /\ z \in Int /\ w \in Int
      OBVIOUS
    <3>2. w = y + z - x /\ a = r + x /\ b = s + y /\ a = b + z
      BY <1>1, <1>2, <1>4, <2>2
    <3> HIDE DEF x, y, z, w
    <3>3. r = s + w
      BY <3>1, <3>2
    <3> QED BY <3>3 DEF w
  <2> QED BY <2>3, Far
<1> QED BY <1>1, <1>2, <1>3, <1>4 DEF Same

LEMMA SameMod ==
  ASSUME NEW n \in Nat \ {0}, NEW a \in Int
  PROVE  Same(a % n, a, n) /\ Same(a, a % n, n)
<1>1. PICK r \in 0..n - 1 : r = a % n
  BY Remainder
<1>2. r % n = r
  BY <1>1
<1> QED BY <1>1, <1>2 DEF Same

LEMMA SamePlus ==
  ASSUME NEW n \in Nat \ {0}, NEW a \in Int, NEW b \in Int, NEW c \in Int, NEW d \in Int,
         Same(a, b, n), Same(c, d, n)
  PROVE  Same(a + c, b + d, n) /\ Same(a - c, b - d, n)
<1>1. PICK k \in Int : a = b + k * n
  BY SameIs
<1>2. PICK l \in Int : c = d + l * n
  BY SameIs
<1>3. k * n \in Int /\ l * n \in Int /\ (k + l) * n = k * n + l * n /\ (k - l) * n = k * n - l * n
  OBVIOUS
<1>4. a + c = (b + d) + (k + l) * n /\ a - c = (b - d) + (k - l) * n
  BY <1>1, <1>2, <1>3
<1>5. k + l \in Int /\ k - l \in Int /\ a + c \in Int /\ b + d \in Int /\ a - c \in Int /\ b - d \in Int
  OBVIOUS
<1>6. Same(a + c, b + d, n)
  BY <1>4, <1>5, SameIs
<1>7. Same(a - c, b - d, n)
  BY <1>4, <1>5, SameIs
<1> QED BY <1>6, <1>7

LEMMA SameTimes ==
  ASSUME NEW n \in Nat \ {0}, NEW a \in Int, NEW b \in Int, NEW c \in Int, Same(a, b, n)
  PROVE  Same(a * c, b * c, n) /\ Same(c * a, c * b, n)
<1>1. PICK k \in Int : a = b + k * n
  BY SameIs
<1>2. PICK w \in Int : w = k * n
  OBVIOUS
<1>3. a * c = b * c + w * c
  BY <1>1, <1>2
<1>4. w * c = (k * c) * n
  BY <1>2
<1>5. a * c = b * c + (k * c) * n /\ a * c \in Int /\ b * c \in Int /\ k * c \in Int
  BY <1>3, <1>4
<1>6. Same(a * c, b * c, n)
  BY <1>5, SameIs
<1>7. a * c = c * a /\ b * c = c * b
  OBVIOUS
<1> QED BY <1>6, <1>7

\* What is the same modulo a multiple of n is the same modulo n.
LEMMA SameLess ==
  ASSUME NEW n \in Nat \ {0}, NEW m \in Nat \ {0}, NEW q \in Int, m = q * n,
         NEW a \in Int, NEW b \in Int, Same(a, b, m)
  PROVE  Same(a, b, n)
<1>1. PICK k \in Int : a = b + k * m
  BY SameIs
<1>2. k * m = (k * q) * n /\ k * q \in Int
  OBVIOUS
<1>3. a = b + (k * q) * n
  BY <1>1, <1>2
<1> QED BY <1>2, <1>3, SameIs

\* A loop that adds up.
LEMMA TotalIs ==
  ASSUME NEW N \in Nat, NEW f \in [0..N - 1 -> Int]
  PROVE  /\ Total(0, f) = 0
         /\ \A n \in 0..N : Total(n, f) \in Int
         /\ \A n \in 0..N - 1 : Total(n + 1, f) = Total(n, f) + f[n]
<1> DEFINE step == [k \in 1..N |-> [s \in Int |-> s + f[k - 1]]]
<1>1. step \in [1..N -> [Int -> Int]]
  <2>1. ASSUME NEW k \in 1..N, NEW s \in Int PROVE s + f[k - 1] \in Int
    <3>1. k - 1 \in 0..N - 1
      OBVIOUS
    <3> QED BY <3>1
  <2> QED BY <2>1
<1>2. PICK g : Follows(g, N, Int, 0, step)
  <2>1. 0 \in Int
    OBVIOUS
  <2> HIDE DEF step
  <2> QED BY <1>1, <2>1, Recursion
<1>3. g \in [0..N -> Int] /\ g[0] = 0
  BY <1>2 DEF Follows
<1>4. \A k \in 1..N : g[k] = g[k - 1] + f[k - 1]
  <2>1. \A k \in 1..N : g[k] = step[k][g[k - 1]] /\ g[k - 1] \in Int
    <3>1. \A k \in 1..N : k - 1 \in 0..N
      OBVIOUS
    <3> HIDE DEF step
    <3> QED BY <1>2, <1>3, <3>1 DEF Follows
  <2> QED BY <2>1
<1>5. ASSUME NEW n \in 0..N PROVE Total(n, f) = g[n]
  <2> DEFINE Is(p) == p = [k \in 0..n |-> IF k = 0 THEN 0 ELSE p[k - 1] + f[k - 1]]
             t == [k \in 0..n |-> g[k]]
             h == CHOOSE p : Is(p)
  <2>1. Is(t)
    <3>1. ASSUME NEW k \in 0..n PROVE t[k] = IF k = 0 THEN 0 ELSE t[k - 1] + f[k - 1]
      <4>1. CASE k = 0
        BY <1>3, <4>1
      <4>2. CASE k # 0
        <5>1. k \in 1..N /\ k - 1 \in 0..n
          BY <4>2
        <5> QED BY <1>4, <4>2, <5>1
      <4> QED BY <4>1, <4>2
    <3>2. t = [k \in 0..n |-> t[k]]
      OBVIOUS
    <3> HIDE DEF t
    <3> QED BY <3>1, <3>2
  <2>2. Total(n, f) = h[n]
    BY DEF Total
  <2>3. Is(h)
    <3> HIDE DEF Is
    <3> QED BY <2>1
  <2>4. \A k \in 0..n : h[k] = IF k = 0 THEN 0 ELSE h[k - 1] + f[k - 1]
    BY <2>3
  <2> HIDE DEF h
  <2> DEFINE S == {k \in Nat : k \in 0..n => h[k] = g[k]}
  <2>5. 0 \in S
    BY <1>3, <2>4
  <2>6. ASSUME NEW k \in Nat, k \in S PROVE k + 1 \in S
    <3> SUFFICES ASSUME k + 1 \in 0..n PROVE h[k + 1] = g[k + 1]
      OBVIOUS
    <3>1. k \in 0..n /\ (k + 1) - 1 = k /\ k + 1 # 0 /\ k + 1 \in 1..N
      OBVIOUS
    <3>2. h[k + 1] = h[k] + f[k] /\ g[k + 1] = g[k] + f[k]
      BY <1>4, <2>4, <3>1
    <3> QED BY <2>6, <3>1, <3>2
  <2>7. n \in S
    <3>1. n \in Nat
      OBVIOUS
    <3> HIDE DEF S
    <3> QED BY <2>5, <2>6, <3>1, Induction
  <2> QED BY <2>2, <2>7
<1>6. ASSUME NEW n \in 0..N - 1 PROVE Total(n + 1, f) = Total(n, f) + f[n]
  <2>1. n \in 0..N /\ n + 1 \in 1..N /\ n + 1 \in 0..N /\ (n + 1) - 1 = n
    OBVIOUS
  <2> QED BY <1>4, <1>5, <2>1
<1>7. Total(0, f) = 0
  BY <1>3, <1>5
<1> QED BY <1>3, <1>5, <1>6, <1>7

LEMMA TotalType ==
  ASSUME NEW N \in Nat, NEW f \in [0..N - 1 -> Int]
  PROVE  Total(N, f) \in Int
BY TotalIs

\* Sums that are the same term by term.
LEMMA TotalSame ==
  ASSUME NEW N \in Nat, NEW m \in Nat \ {0}, NEW f \in [0..N - 1 -> Int], NEW g \in [0..N - 1 -> Int],
         \A i \in 0..N - 1 : Same(f[i], g[i], m)
  PROVE  Same(Total(N, f), Total(N, g), m)
<1> DEFINE S == {n \in Nat : n \in 0..N => Same(Total(n, f), Total(n, g), m)}
<1>1. 0 \in S
  BY TotalIs DEF Same
<1>2. ASSUME NEW n \in Nat, n \in S PROVE n + 1 \in S
  <2> SUFFICES ASSUME n + 1 \in 0..N PROVE Same(Total(n + 1, f), Total(n + 1, g), m)
    OBVIOUS
  <2>1. n \in 0..N /\ n \in 0..N - 1
    OBVIOUS
  <2>2. /\ Total(n, f) \in Int /\ Total(n, g) \in Int /\ f[n] \in Int /\ g[n] \in Int
        /\ Same(Total(n, f), Total(n, g), m) /\ Same(f[n], g[n], m)
    BY <1>2, <2>1, TotalIs
  <2>3. Same(Total(n, f) + f[n], Total(n, g) + g[n], m)
    BY <2>2, SamePlus
  <2>4. Total(n + 1, f) = Total(n, f) + f[n] /\ Total(n + 1, g) = Total(n, g) + g[n]
    BY <2>1, TotalIs
  <2> QED BY <2>3, <2>4
<1>3. N \in S
  <2> HIDE DEF S
  <2> QED BY <1>1, <1>2, Induction
<1> QED BY <1>3

LEMMA TotalPlus ==
  ASSUME NEW N \in Nat, NEW f \in [0..N - 1 -> Int], NEW g \in [0..N - 1 -> Int], NEW h \in [0..N - 1 -> Int],
         \A i \in 0..N - 1 : h[i] = f[i] + g[i]
  PROVE  Total(N, h) = Total(N, f) + Total(N, g)
<1> DEFINE S == {n \in Nat : n \in 0..N => Total(n, h) = Total(n, f) + Total(n, g)}
<1>1. 0 \in S
  BY TotalIs
<1>2. ASSUME NEW n \in Nat, n \in S PROVE n + 1 \in S
  <2> SUFFICES ASSUME n + 1 \in 0..N PROVE Total(n + 1, h) = Total(n + 1, f) + Total(n + 1, g)
    OBVIOUS
  <2>1. n \in 0..N /\ n \in 0..N - 1
    OBVIOUS
  <2>2. /\ Total(n, f) \in Int /\ Total(n, g) \in Int /\ f[n] \in Int /\ g[n] \in Int
        /\ Total(n, h) = Total(n, f) + Total(n, g) /\ h[n] = f[n] + g[n]
    BY <1>2, <2>1, TotalIs
  <2>3. /\ Total(n + 1, f) = Total(n, f) + f[n] /\ Total(n + 1, g) = Total(n, g) + g[n]
        /\ Total(n + 1, h) = Total(n, h) + h[n]
    BY <2>1, TotalIs
  <2> QED BY <2>2, <2>3
<1>3. N \in S
  <2> HIDE DEF S
  <2> QED BY <1>1, <1>2, Induction
<1> QED BY <1>3

\* A sum with one term.
LEMMA TotalOne ==
  ASSUME NEW N \in Nat, NEW p \in 0..N - 1, NEW v \in Int, NEW f \in [0..N - 1 -> Int],
         f[p] = v, \A i \in 0..N - 1 : i # p => f[i] = 0
  PROVE  Total(N, f) = v
<1> DEFINE S == {n \in Nat : n \in 0..N => Total(n, f) = IF n <= p THEN 0 ELSE v}
<1>1. 0 \in S
  BY TotalIs
<1>2. ASSUME NEW n \in Nat, n \in S PROVE n + 1 \in S
  <2> SUFFICES ASSUME n + 1 \in 0..N PROVE Total(n + 1, f) = IF n + 1 <= p THEN 0 ELSE v
    OBVIOUS
  <2>1. n \in 0..N /\ n \in 0..N - 1
    OBVIOUS
  <2>2. Total(n + 1, f) = Total(n, f) + f[n] /\ Total(n, f) = IF n <= p THEN 0 ELSE v
    BY <1>2, <2>1, TotalIs
  <2>3. f[n] = IF n = p THEN v ELSE 0
    BY <2>1
  <2> QED BY <2>2, <2>3
<1>3. N \in S
  <2> HIDE DEF S
  <2> QED BY <1>1, <1>2, Induction
<1> QED BY <1>3

LEMMA TotalNone ==
  ASSUME NEW N \in Nat, NEW f \in [0..N - 1 -> Int], \A i \in 0..N - 1 : f[i] = 0
  PROVE  Total(N, f) = 0
<1> DEFINE S == {n \in Nat : n \in 0..N => Total(n, f) = 0}
<1>1. 0 \in S
  BY TotalIs
<1>2. ASSUME NEW n \in Nat, n \in S PROVE n + 1 \in S
  <2> SUFFICES ASSUME n + 1 \in 0..N PROVE Total(n + 1, f) = 0
    OBVIOUS
  <2>1. n \in 0..N /\ n \in 0..N - 1
    OBVIOUS
  <2>2. Total(n + 1, f) = Total(n, f) + f[n] /\ Total(n, f) = 0
    BY <1>2, <2>1, TotalIs
  <2> QED BY <2>1, <2>2
<1>3. N \in S
  <2> HIDE DEF S
  <2> QED BY <1>1, <1>2, Induction
<1> QED BY <1>3

Raises(N, h, f, p, v) == h[p] = f[p] + v /\ \A i \in 0..N - 1 : i # p => h[i] = f[i]
LEMMA TotalOneMore ==
  ASSUME NEW N \in Nat, NEW p \in 0..N - 1, NEW v \in Int,
         NEW f \in [0..N - 1 -> Int], NEW h \in [0..N - 1 -> Int], Raises(N, h, f, p, v)
  PROVE  Total(N, h) = Total(N, f) + v
<1> DEFINE one == [i \in 0..N - 1 |-> IF i = p THEN v ELSE 0]
<1>1. one \in [0..N - 1 -> Int] /\ one[p] = v /\ \A i \in 0..N - 1 : i # p => one[i] = 0
  OBVIOUS
<1> HIDE DEF one
<1>2. ASSUME NEW i \in 0..N - 1 PROVE h[i] = f[i] + one[i]
  <2>1. CASE i = p
    BY <1>1, <2>1 DEF Raises
  <2>2. CASE i # p
    <3>1. h[i] = f[i] /\ one[i] = 0 /\ f[i] \in Int
      BY <1>1, <2>2 DEF Raises
    <3> QED BY <3>1
  <2> QED BY <2>1, <2>2
<1>3. Total(N, h) = Total(N, f) + Total(N, one)
  BY <1>1, <1>2, TotalPlus
<1>4. Total(N, one) = v
  BY <1>1, TotalOne
<1> QED BY <1>3, <1>4

\* The number of elements, counted.
LEMMA TotalCount ==
  ASSUME NEW N \in Nat, NEW S \in SUBSET (1..N), NEW f \in [0..N - 1 -> Int],
         \A i \in 0..N - 1 : f[i] = IF i + 1 \in S THEN 1 ELSE 0
  PROVE  Total(N, f) = Cardinality(S)
<1> DEFINE Upto(n) == S \cap (1..n)
           T == {n \in Nat : n \in 0..N => Total(n, f) = Cardinality(Upto(n))}
<1>1. \A n \in Nat : IsFiniteSet(Upto(n))
  <2> TAKE n \in Nat
  <2>1. IsFiniteSet(1..n)
    BY FS_Interval
  <2> QED BY <2>1, FS_Intersection
<1>2. 0 \in T
  <2>1. Upto(0) = {}
    OBVIOUS
  <2>2. Total(0, f) = 0
    BY TotalIs
  <2> HIDE DEF Upto
  <2> QED BY <2>1, <2>2, FS_EmptySet
<1>3. ASSUME NEW n \in Nat, n \in T PROVE n + 1 \in T
  <2> SUFFICES ASSUME n + 1 \in 0..N PROVE Total(n + 1, f) = Cardinality(Upto(n + 1))
    OBVIOUS
  <2>1. n \in 0..N /\ n \in 0..N - 1
    OBVIOUS
  <2>2. Total(n + 1, f) = Total(n, f) + f[n] /\ Total(n, f) = Cardinality(Upto(n))
    BY <1>3, <2>1, TotalIs
  <2>3. f[n] = IF n + 1 \in S THEN 1 ELSE 0
    BY <2>1
  <2>4. Upto(n + 1) = Upto(n) \cup (IF n + 1 \in S THEN {n + 1} ELSE {})
    OBVIOUS
  <2>5. n + 1 \notin Upto(n)
    OBVIOUS
  <2>6. IsFiniteSet(Upto(n)) /\ Cardinality(Upto(n)) \in Nat
    BY <1>1, FS_CardinalityType
  <2> HIDE DEF Upto
  <2>7. CASE n + 1 \in S
    <3>1. Upto(n + 1) = Upto(n) \cup {n + 1}
      BY <2>4, <2>7
    <3>2. Cardinality(Upto(n) \cup {n + 1}) = Cardinality(Upto(n)) + 1
      BY <2>5, <2>6, FS_AddElement
    <3> QED BY <2>2, <2>3, <2>7, <3>1, <3>2
  <2>8. CASE n + 1 \notin S
    <3>1. Upto(n + 1) = Upto(n)
      BY <2>4, <2>8
    <3>2. f[n] = 0
      BY <2>3, <2>8
    <3>3. Total(n + 1, f) = Total(n, f)
      BY <2>2, <2>6, <3>2
    <3> QED BY <2>2, <3>1, <3>3
  <2> QED BY <2>7, <2>8
<1>4. N \in T
  <2> HIDE DEF T
  <2> QED BY <1>2, <1>3, Induction
<1>5. Upto(N) = S
  OBVIOUS
<1>6. Total(N, f) = Cardinality(Upto(N))
  <2> HIDE DEF Upto
  <2> QED BY <1>4
<1> QED BY <1>5, <1>6

\* Rows spread over bins: what is added up bin by bin is what is added up row by row.
Spreads(N, n, place, f, g) ==
  /\ \A i \in 1..n, k \in 1..n : place[i] = place[k] => i = k
  /\ \A i \in 0..n - 1 : f[place[i + 1]] = g[i]
  /\ \A b \in 0..N - 1 : (\A i \in 1..n : place[i] # b) => f[b] = 0
LEMMA TotalSpread ==
  ASSUME NEW N \in Nat, NEW n \in Nat, NEW place \in [1..n -> 0..N - 1],
         NEW f \in [0..N - 1 -> Int], NEW g \in [0..n - 1 -> Int], Spreads(N, n, place, f, g)
  PROVE  Total(N, f) = Total(n, g)
<1> DEFINE Part(m) == [b \in 0..N - 1 |-> IF \E i \in 1..m : place[i] = b THEN f[b] ELSE 0]
           T == {m \in Nat : m \in 0..n => Total(N, Part(m)) = Total(m, g)}
<1>9. \A k \in 0..n - 1 : Total(k + 1, g) = Total(k, g) + g[k]
  BY TotalIs
<1>1. \A m \in Nat : Part(m) \in [0..N - 1 -> Int]
  OBVIOUS
<1>2. 0 \in T
  <2>1. \A b \in 0..N - 1 : Part(0)[b] = 0
    OBVIOUS
  <2> HIDE DEF Part
  <2>2. Total(N, Part(0)) = 0
    BY <1>1, <2>1, TotalNone
  <2> QED BY <2>2, TotalIs
<1>3. ASSUME NEW m \in Nat, m \in T PROVE m + 1 \in T
  <2> SUFFICES ASSUME m + 1 \in 0..n PROVE Total(N, Part(m + 1)) = Total(m + 1, g)
    OBVIOUS
  <2>1. m \in 0..n /\ m \in 0..n - 1 /\ m + 1 \in 1..n
    OBVIOUS
  <2>10. Total(N, Part(m)) = Total(m, g)
    BY <1>3, <2>1
  <2> HIDE DEF T
  <2>2. PICK p \in 0..N - 1 : p = place[m + 1]
    BY <2>1
  <2>3. PICK v \in Int : v = g[m]
    BY <2>1
  <2>4. f[p] = v /\ g[m] = v
    BY <2>1, <2>2, <2>3 DEF Spreads
  <2>5. \A b \in 0..N - 1 : (\E i \in 1..m + 1 : place[i] = b) <=> (\E i \in 1..m : place[i] = b) \/ b = p
    <3>1. \A i \in 1..m + 1 : i \in 1..m \/ i = m + 1
      OBVIOUS
    <3>2. \A i \in 1..m : i \in 1..m + 1
      OBVIOUS
    <3>3. m + 1 \in 1..m + 1
      OBVIOUS
    <3> QED BY <2>2, <3>1, <3>2, <3>3
  <2>6. ~ \E i \in 1..m : place[i] = p
    <3> SUFFICES ASSUME NEW i \in 1..m, place[i] = p PROVE FALSE
      OBVIOUS
    <3>1. i \in 1..n /\ i # m + 1
      BY <2>1
    <3> QED BY <2>1, <2>2, <3>1 DEF Spreads
  <2>7. Part(m)[p] = 0 /\ Part(m + 1)[p] = v
    BY <2>4, <2>5, <2>6
  <2>8. \A b \in 0..N - 1 : b # p => Part(m + 1)[b] = Part(m)[b]
    BY <2>5
  <2>11. PICK h \in [0..N - 1 -> Int] : h = Part(m)
    BY <1>1
  <2>12. PICK l \in [0..N - 1 -> Int] : l = Part(m + 1)
    <3>1. m + 1 \in Nat
      OBVIOUS
    <3> HIDE DEF Part
    <3> QED BY Zenon, <1>1, <3>1
  <2> HIDE DEF Part
  <2>13. l[p] = h[p] + v /\ \A b \in 0..N - 1 : b # p => l[b] = h[b]
    BY <2>7, <2>8, <2>11, <2>12
  <2>14. Total(N, l) = Total(N, h) + v
    <3>1. Raises(N, l, h, p, v)
      BY <2>13 DEF Raises
    <3> QED BY Zenon, <2>2, <2>3, <2>11, <2>12, <3>1, TotalOneMore
  <2>9. Total(m + 1, g) = Total(m, g) + g[m]
    BY <1>9, <2>1
  <2> QED BY <2>4, <2>9, <2>10, <2>11, <2>12, <2>14
<1>4. n \in T
  <2> HIDE DEF T
  <2> QED BY <1>2, <1>3, Induction
<1>5. Part(n) = f
  <2>1. \A b \in 0..N - 1 : Part(n)[b] = f[b]
    BY DEF Spreads
  <2> HIDE DEF Part
  <2> QED BY <1>1, <2>1
<1> HIDE DEF Part
<1> QED BY <1>4, <1>5

(***************************************************************************)
(* Shifts and bits.                                                        *)
(***************************************************************************)
LEMMA ShiftedNext ==
  ASSUME NEW n \in Nat
  PROVE  Shifted(n) \in Nat \ {0} /\ Shifted(n + 1) = 2 * Shifted(n) /\ Shifted(0) = 1
<1> DEFINE step == [k \in 1..n + 1 |-> [s \in Nat |-> 2 * s]]
<1>1. step \in [1..n + 1 -> [Nat -> Nat]]
  OBVIOUS
<1>2. PICK g : Follows(g, n + 1, Nat, 1, step)
  <2>1. n + 1 \in Nat /\ 1 \in Nat
    OBVIOUS
  <2> HIDE DEF step
  <2> QED BY <1>1, <2>1, Recursion
<1>3. g \in [0..n + 1 -> Nat] /\ g[0] = 1
  BY <1>2 DEF Follows
<1>4. \A k \in 1..n + 1 : g[k] = 2 * g[k - 1]
  <2>1. \A k \in 1..n + 1 : g[k] = step[k][g[k - 1]] /\ g[k - 1] \in Nat
    <3>1. \A k \in 1..n + 1 : k - 1 \in 0..n + 1
      OBVIOUS
    <3> HIDE DEF step
    <3> QED BY <1>2, <1>3, <3>1 DEF Follows
  <2> QED BY <2>1
<1>5. ASSUME NEW m \in 0..n + 1 PROVE Shifted(m) = g[m]
  <2> DEFINE Is(p) == p = [k \in 0..m |-> IF k = 0 THEN 1 ELSE 2 * p[k - 1]]
             t == [k \in 0..m |-> g[k]]
             h == CHOOSE p : Is(p)
  <2>1. Is(t)
    <3>1. ASSUME NEW k \in 0..m PROVE t[k] = IF k = 0 THEN 1 ELSE 2 * t[k - 1]
      <4>1. CASE k = 0
        BY <1>3, <4>1
      <4>2. CASE k # 0
        <5>1. k \in 1..n + 1 /\ k - 1 \in 0..m
          BY <4>2
        <5> QED BY <1>4, <4>2, <5>1
      <4> QED BY <4>1, <4>2
    <3>2. t = [k \in 0..m |-> t[k]]
      OBVIOUS
    <3> HIDE DEF t
    <3> QED BY <3>1, <3>2
  <2>2. Shifted(m) = h[m]
    BY DEF Shifted
  <2>3. Is(h)
    <3> HIDE DEF Is
    <3> QED BY <2>1
  <2>4. \A k \in 0..m : h[k] = IF k = 0 THEN 1 ELSE 2 * h[k - 1]
    BY <2>3
  <2> HIDE DEF h
  <2> DEFINE S == {k \in Nat : k \in 0..m => h[k] = g[k]}
  <2>5. 0 \in S
    BY <1>3, <2>4
  <2>6. ASSUME NEW k \in Nat, k \in S PROVE k + 1 \in S
    <3> SUFFICES ASSUME k + 1 \in 0..m PROVE h[k + 1] = g[k + 1]
      OBVIOUS
    <3>1. k \in 0..m /\ (k + 1) - 1 = k /\ k + 1 # 0 /\ k + 1 \in 1..n + 1
      OBVIOUS
    <3>2. h[k + 1] = 2 * h[k] /\ g[k + 1] = 2 * g[k]
      BY <1>4, <2>4, <3>1
    <3> QED BY <2>6, <3>1, <3>2
  <2>7. m \in S
    <3>1. m \in Nat
      OBVIOUS
    <3> HIDE DEF S
    <3> QED BY <2>5, <2>6, <3>1, Induction
  <2> QED BY <2>2, <2>7
<1>6. Shifted(n + 1) = g[n + 1] /\ Shifted(n) = g[n] /\ g[n + 1] = 2 * g[n]
  <2>1. n \in 0..n + 1 /\ n + 1 \in 0..n + 1 /\ n + 1 \in 1..n + 1 /\ (n + 1) - 1 = n
    OBVIOUS
  <2> QED BY <1>4, <1>5, <2>1
<1>7. Shifted(n) \in Nat /\ Shifted(n) > n /\ Shifted(0) = 1
  BY ShiftedIs
<1> QED BY <1>6, <1>7

LEMMA ShiftedPlus ==
  ASSUME NEW a \in Nat, NEW b \in Nat
  PROVE  Shifted(a + b) = Shifted(b) * Shifted(a)
<1> DEFINE S == {n \in Nat : Shifted(a + n) = Shifted(n) * Shifted(a)}
<1>1. 0 \in S
  <2>1. a + 0 = a /\ Shifted(0) = 1 /\ Shifted(a) \in Nat
    BY ShiftedNext
  <2>2. 0 \in Nat /\ 1 * Shifted(a) = Shifted(a)
    BY <2>1
  <2> QED BY <2>1, <2>2
<1>2. ASSUME NEW n \in Nat, n \in S PROVE n + 1 \in S
  <2>1. /\ a + (n + 1) = (a + n) + 1 /\ a + n \in Nat
        /\ Shifted(n + 1) = 2 * Shifted(n)
        /\ Shifted(n) \in Nat /\ Shifted(a) \in Nat
    BY ShiftedNext
  <2>2. Shifted((a + n) + 1) = 2 * Shifted(a + n)
    BY <2>1, ShiftedNext
  <2>3. PICK x \in Nat, y \in Nat : x = Shifted(n) /\ y = Shifted(a)
    BY <2>1
  <2>4. Shifted(a + n) = x * y
    BY <1>2, <2>3
  <2>5. 2 * (x * y) = (2 * x) * y
    BY <2>3
  <2> QED BY <2>1, <2>2, <2>3, <2>4, <2>5
<1>3. b \in S
  <2> HIDE DEF S
  <2> QED BY <1>1, <1>2, Induction
<1> QED BY <1>3

\* A number is the sum of its bits, each in its place.
LEMMA TotalBits ==
  ASSUME NEW w \in Nat, NEW x \in Nat, NEW c \in Int, NEW f \in [0..w - 1 -> Int],
         \A j \in 0..w - 1 : f[j] = ((x \div Shifted(j)) % 2) * (c * Shifted(j))
  PROVE  Total(w, f) = c * (x % Shifted(w))
<1> DEFINE S == {n \in Nat : n \in 0..w => Total(n, f) = c * (x % Shifted(n))}
<1>1. 0 \in S
  <2>1. Shifted(0) = 1 /\ Total(0, f) = 0
    BY ShiftedNext, TotalIs
  <2>2. x % 1 = 0 /\ c * 0 = 0
    OBVIOUS
  <2> QED BY <2>1, <2>2
<1>2. ASSUME NEW n \in Nat, n \in S PROVE n + 1 \in S
  <2> SUFFICES ASSUME n + 1 \in 0..w PROVE Total(n + 1, f) = c * (x % Shifted(n + 1))
    OBVIOUS
  <2>1. n \in 0..w /\ n \in 0..w - 1
    OBVIOUS
  <2>2. Total(n + 1, f) = Total(n, f) + f[n] /\ Total(n, f) = c * (x % Shifted(n))
    BY <1>2, <2>1, TotalIs
  <2>3. PICK s \in Nat \ {0} : s = Shifted(n) /\ Shifted(n + 1) = 2 * s
    BY ShiftedNext
  <2>4. PICK q \in Nat, r \in 0..s - 1 : q = x \div s /\ r = x % s /\ x = s * q + r
    <3>1. x \div s \in Nat
      BY Div
    <3>2. x % s \in 0..s - 1 /\ x = s * (x \div s) + (x % s)
      OBVIOUS
    <3> QED BY <3>1, <3>2
  <2>5. PICK p \in Nat, e \in 0..1 : e = q % 2 /\ q = 2 * p + e
    <3>1. q % 2 \in 0..1 /\ q = 2 * (q \div 2) + (q % 2)
      BY <2>4
    <3>2. q \div 2 \in Nat
      BY Div
    <3> QED BY <3>1, <3>2
  <2>6. f[n] = e * (c * s)
    BY <2>1, <2>3, <2>4, <2>5
  <2>7. x % (2 * s) = e * s + r
    <3> DEFINE l == e * s + r
               m == 2 * s
    <3>1. e * s = (IF e = 0 THEN 0 ELSE s)
      BY <2>5
    <3>2. l \in 0..m - 1 /\ m \in Nat \ {0}
      <4>1. CASE e = 0
        <5>1. e * s + r = r
          BY <2>4, <4>1
        <5> QED BY <2>4, <5>1
      <4>2. CASE e = 1
        <5>1. e * s + r = s + r
          BY <2>4, <4>2
        <5> QED BY <2>4, <5>1
      <4> QED BY <4>1, <4>2
    <3>3. x = l + p * m
      <4>1. s * q = p * m + e * s
        BY <2>5
      <4>2. p * m \in Nat /\ e * s \in Nat
        BY <2>5
      <4> QED BY <2>4, <4>1, <4>2
    <3>4. l \in Int /\ p \in Int /\ x \in Int
      BY <3>2
    <3> HIDE DEF l, m
    <3>5. Same(x, l, m)
      BY <3>2, <3>3, <3>4, SameIs
    <3>6. l % m = l
      BY <3>2
    <3> QED BY <3>5, <3>6 DEF Same, l, m
  <2>8. c * (e * s + r) = c * r + e * (c * s)
    BY <2>4, <2>5
  <2> QED BY <2>2, <2>3, <2>4, <2>6, <2>7, <2>8
<1>3. w \in S
  <2> HIDE DEF S
  <2> QED BY <1>1, <1>2, Induction
<1>4. w \in 0..w
  OBVIOUS
<1> QED BY <1>3, <1>4

\* Place j of block b among blocks of w.
LEMMA BlockPlace ==
  ASSUME NEW w \in Nat \ {0}, NEW b \in Nat, NEW j \in 0..w - 1
  PROVE  b * w + j \in Nat /\ (b * w + j) \div w = b /\ (b * w + j) % w = j
<1> DEFINE a == b * w + j
<1>1. b * w \in Nat
  OBVIOUS
<1>2. a \in Nat
  BY <1>1
<1>3. PICK q \in Nat, r \in 0..w - 1 : q = a \div w /\ r = a % w /\ a = w * q + r
  <2> HIDE DEF a
  <2>1. a \div w \in Nat
    BY <1>2, Div
  <2>2. a % w \in 0..w - 1 /\ a = w * (a \div w) + (a % w)
    BY <1>2
  <2> QED BY <2>1, <2>2
<1>4. PICK k \in Int : k = q - b
  OBVIOUS
<1>5. j = r + k * w
  <2>1. k * w = w * q - b * w
    BY <1>4
  <2>2. w * q \in Nat
    BY <1>3
  <2>3. a = b * w + j
    OBVIOUS
  <2> HIDE DEF a
  <2> QED BY <1>1, <1>3, <2>1, <2>2, <2>3
<1>6. j = r
  BY <1>3, <1>5, Far
<1>7. q = b
  <2>1. CASE k = 0
    BY <1>3, <1>4, <2>1
  <2>2. CASE k > 0
    <3>1. w * 0 + w <= w * k
      BY <2>2, Times
    <3> QED BY <1>5, <1>6, <3>1
  <2>3. CASE k < 0
    <3>1. -k \in Nat /\ 0 < -k
      BY <2>3
    <3>2. w * 0 + w <= w * (-k)
      BY <3>1, Times
    <3> QED BY <1>5, <1>6, <3>2
  <2> QED BY <2>1, <2>2, <2>3
<1> QED BY <1>2, <1>3, <1>6, <1>7 DEF a

\* A sum taken in blocks of w.
InBlocks(N, w, f, g) == \A b \in 0..N - 1 : g[b] = Total(w, [j \in 0..w - 1 |-> f[b * w + j]])
LEMMA TotalBlocks ==
  ASSUME NEW N \in Nat, NEW w \in Nat \ {0}, NEW f \in [0..N * w - 1 -> Int], NEW g \in [0..N - 1 -> Int],
         InBlocks(N, w, f, g)
  PROVE  Total(N * w, f) = Total(N, g)
<1> DEFINE S == {n \in Nat : n \in 0..N => Total(n * w, f) = Total(n, g)}
<1>1. N * w \in Nat
  OBVIOUS
<1>2. 0 \in S
  <2>1. 0 * w = 0
    OBVIOUS
  <2>2. Total(0, f) = 0 /\ Total(0, g) = 0
    BY <1>1, TotalIs
  <2> QED BY <2>1, <2>2
<1>3. ASSUME NEW n \in Nat, n \in S PROVE n + 1 \in S
  <2> SUFFICES ASSUME n + 1 \in 0..N PROVE Total((n + 1) * w, f) = Total(n + 1, g)
    OBVIOUS
  <2>1. n \in 0..N /\ n \in 0..N - 1
    OBVIOUS
  <2>2. PICK s \in Nat : s = n * w
    OBVIOUS
  <2>3. s + w <= N * w /\ (n + 1) * w = s + w
    <3>1. w * n + w <= w * N
      BY Times
    <3> QED BY <2>2, <3>1
  <2> DEFINE h == [j \in 0..w - 1 |-> f[n * w + j]]
             T == {j \in Nat : j \in 0..w => Total(s + j, f) = Total(s, f) + Total(j, h)}
  <2>4. \A j \in 0..w - 1 : s + j \in 0..N * w - 1 /\ h[j] = f[s + j]
    <3>1. PICK m \in Nat : m = N * w
      BY <1>1
    <3>2. \A j \in 0..w - 1 : s + j \in 0..m - 1
      BY <2>3, <3>1
    <3>3. \A j \in 0..w - 1 : h[j] = f[s + j]
      BY <2>2
    <3> QED BY <3>1, <3>2, <3>3
  <2>5. h \in [0..w - 1 -> Int]
    BY <2>2, <2>4
  <2> HIDE DEF h
  <2>6. 0 \in T
    <3>1. Total(0, h) = 0
      BY <2>5, TotalIs
    <3>2. s \in 0..N * w
      BY <1>1, <2>3
    <3>3. Total(s, f) \in Int
      BY <1>1, <3>2, TotalIs
    <3> QED BY <3>1, <3>3
  <2>7. ASSUME NEW j \in Nat, j \in T PROVE j + 1 \in T
    <3> SUFFICES ASSUME j + 1 \in 0..w PROVE Total(s + (j + 1), f) = Total(s, f) + Total(j + 1, h)
      OBVIOUS
    <3>1. j \in 0..w /\ j \in 0..w - 1 /\ s + (j + 1) = (s + j) + 1
      OBVIOUS
    <3>2. s + j \in 0..N * w - 1 /\ h[j] = f[s + j] /\ f[s + j] \in Int
      BY <2>4, <3>1
    <3>3. Total((s + j) + 1, f) = Total(s + j, f) + f[s + j]
      BY <1>1, <3>2, TotalIs
    <3>4. Total(j + 1, h) = Total(j, h) + h[j] /\ Total(j, h) \in Int
      BY <2>5, <3>1, TotalIs
    <3>5. s \in 0..N * w
      BY <1>1, <2>3
    <3>6. Total(s, f) \in Int
      BY <1>1, <3>5, TotalIs
    <3>7. Total(s + j, f) = Total(s, f) + Total(j, h)
      BY <2>7, <3>1
    <3> QED BY <3>1, <3>2, <3>3, <3>4, <3>6, <3>7
  <2>8. w \in T
    <3> HIDE DEF T
    <3> QED BY <2>6, <2>7, Induction
  <2>9. Total(s + w, f) = Total(s, f) + Total(w, h)
    BY <2>8
  <2>10. Total(n + 1, g) = Total(n, g) + g[n]
    BY <2>1, TotalIs
  <2>11. g[n] = Total(w, h)
    BY <2>1 DEF h, InBlocks
  <2>12. Total(s, f) = Total(n, g)
    BY <1>3, <2>1, <2>2
  <2> QED BY <2>3, <2>9, <2>10, <2>11, <2>12
<1>4. N \in S
  <2> HIDE DEF S
  <2> QED BY <1>2, <1>3, Induction
<1> QED BY <1>4

(***************************************************************************)
(* The other results.                                                      *)
(***************************************************************************)
\* What is drawn are numbers: random OTs, randomness and the sides' data.
WordDraws ==
  \A k \in Nat : /\ RotPairs(k) \subseteq [0..k - 1 -> [0..1 -> 0..Words - 1]]
                 /\ Randoms(k) \subseteq [0..k - 1 -> 0..Words - 1]
                 /\ DataOf(k) \subseteq [1..k -> 0..Words - 1]

InputInv ==
  /\ Y \in SendSets /\ X \in RecvSets /\ Len(X) = Len(Y) /\ threshold \in Nat
  /\ dataY \in [1..Len(Y) -> 0..Words - 1] /\ dataX \in [1..Len(X) -> 0..Words - 1]
Pairs(n) == rot \in [0..n - 1 -> [0..1 -> Int]]

\* A power of two with a larger exponent is a multiple.
LEMMA ShiftedUp ==
  ASSUME NEW a \in Nat, NEW b \in Nat, a <= b
  PROVE  \E q \in Nat \ {0} : Shifted(b) = q * Shifted(a)
<1>1. PICK d \in Nat : b = a + d
  <2>1. b - a \in Nat /\ b = a + (b - a)
    OBVIOUS
  <2> QED BY <2>1
<1>2. Shifted(b) = Shifted(d) * Shifted(a)
  BY <1>1, ShiftedPlus
<1>3. Shifted(d) \in Nat \ {0}
  BY ShiftedNext
<1> QED BY <1>2, <1>3

\* The numbers of a word, those that travel and those the circuits compare.
LEMMA SizesAre ==
  /\ Words \in Nat \ {0} /\ CardRange \in Nat \ {0} /\ Shifted(CardBits) \in Nat \ {0}
  /\ \E q \in Int : Words = q * CardRange
  /\ \E q \in Int : CardRange = q * Shifted(CardBits)
  /\ NumBins <= Shifted(CardBits) /\ Shifted(CardBits) <= CardRange
<1>1. /\ NumBins \in Nat /\ NumBins >= 2 /\ WordBits \in Nat /\ ByteBits \in Nat \ {0}
      /\ Words % CardRange = 0
  BY CpsoAssumption
<1>2. CardBits \in Nat /\ Shifted(CardBits) >= NumBins /\ CardBits >= 1
  BY <1>1, LogIs DEF CardBits
<1> DEFINE e == ByteBits * DivCeil(CardBits, ByteBits)
<1>3. e \in Nat /\ CardBits <= e /\ CardRange = Shifted(e)
  <2>1. DivCeil(CardBits, ByteBits) \in Nat /\ e >= CardBits
    BY <1>1, <1>2, CeilIs
  <2>2. e \in Nat
    BY <1>1, <2>1
  <2> HIDE DEF e
  <2> QED BY <2>1, <2>2 DEF CardRange, CardShift, e
<1> HIDE DEF e
<1>4. PICK w \in Nat \ {0}, c \in Nat \ {0}, b \in Nat \ {0} :
        w = Words /\ c = CardRange /\ b = Shifted(CardBits)
  BY <1>1, <1>2, <1>3, ShiftedNext DEF Words
<1>5. PICK q \in Nat \ {0} : c = q * b
  BY <1>2, <1>3, <1>4, ShiftedUp
<1>6. b <= c
  <2>1. 1 \in Nat /\ 1 <= q /\ b * 1 = b /\ b * q = q * b
    OBVIOUS
  <2>2. b * 1 <= b * q
    BY <2>1, TimesUpTo
  <2> QED BY <1>5, <2>1, <2>2
<1>7. \E k \in Int : w = k * c
  <2>1. PICK k \in Int : w = (w % c) + k * c
    <3>1. w \in Int
      OBVIOUS
    <3> QED BY Zenon, <3>1, Remainder
  <2>2. w % c = 0 /\ k * c \in Int
    BY <1>1, <1>4
  <2> QED BY <2>1, <2>2
<1> QED BY <1>2, <1>4, <1>5, <1>6, <1>7

LEMMA RowsAre ==
  ASSUME InputInv
  PROVE  /\ NumBins \in Nat /\ Bins = 0..NumBins - 1
         /\ Len(Y) \in Nat /\ Len(Y) < NumBins /\ DOMAIN Y = 1..Len(Y)
         /\ Len(X) = Len(Y) /\ DOMAIN X = 1..Len(X)
<1>1. /\ Y \in Seq(Range(Y)) /\ X \in Seq(Range(X)) /\ Len(Y) < NumBins /\ NumBins \in Nat
  BY CpsoAssumption DEF InputInv
<1> QED BY <1>1 DEF InputInv, Bins

\* What the common bins hold adds up to what the common rows hold.
Holds(f, g) ==
  /\ \A i \in Shared : g[i] \in Int /\ f[sharing.mapping[i]] = g[i]
  /\ \A b \in Bins : b \notin J!Common(sharing) => f[b] = 0
LEMMA TotalOfShared ==
  ASSUME InputInv, JoinedInv, NEW f \in [Bins -> Int], NEW g, Holds(f, g)
  PROVE  Total(NumBins, f) = TotalShared(g)
<1>1. PICK N \in Nat, n \in Nat :
        /\ N = NumBins /\ Bins = 0..N - 1 /\ n = Len(Y) /\ DOMAIN Y = 1..n
  BY RowsAre
<1>2. PICK place \in [1..n -> 0..N - 1] : place = sharing.mapping
  BY <1>1 DEF JoinedInv
<1> DEFINE h == [i \in 0..n - 1 |-> IF i + 1 \in Shared THEN g[i + 1] ELSE 0]
<1>3. TotalShared(g) = Total(n, h)
  BY <1>1 DEF TotalShared
<1>4. h \in [0..n - 1 -> Int]
  BY DEF Holds
<1>5. \A i \in 1..n : place[i] \in J!Common(sharing) <=> i \in Shared
  BY <1>1, <1>2, BinsAre DEF Shared
<1>6. \A i \in 1..n, k \in 1..n : place[i] = place[k] => i = k
  BY <1>1, <1>2 DEF JoinedInv
<1>7. \A i \in 0..n - 1 : f[place[i + 1]] = h[i]
  <2> TAKE i \in 0..n - 1
  <2>1. i + 1 \in 1..n
    OBVIOUS
  <2>2. CASE i + 1 \in Shared
    BY <1>2, <2>1, <2>2 DEF Holds
  <2>3. CASE i + 1 \notin Shared
    <3>1. place[i + 1] \notin J!Common(sharing) /\ place[i + 1] \in Bins
      BY <1>1, <1>5, <2>1, <2>3
    <3> QED BY <2>3, <3>1 DEF Holds
  <2> QED BY <2>2, <2>3
<1>8. \A b \in 0..N - 1 : (\A i \in 1..n : place[i] # b) => f[b] = 0
  <2> TAKE b \in 0..N - 1
  <2>1. b \in J!Common(sharing) => \E i \in 1..n : place[i] = b
    BY <1>1, <1>2 DEF J!Common
  <2> QED BY <1>1, <2>1 DEF Holds
<1> HIDE DEF h
<1>9. Spreads(N, n, place, f, h)
  BY <1>6, <1>7, <1>8 DEF Spreads
<1>10. f \in [0..N - 1 -> Int]
  BY <1>1
<1>11. Total(N, f) = Total(n, h)
  BY <1>4, <1>9, <1>10, TotalSpread
<1> QED BY <1>1, <1>3, <1>11

\* So do the common bins themselves.
LEMMA CountOfShared ==
  ASSUME InputInv, JoinedInv, NEW f \in [Bins -> Int],
         \A b \in Bins : f[b] = IF b \in J!Common(sharing) THEN 1 ELSE 0
  PROVE  Total(NumBins, f) = Cardinality(Shared) /\ Cardinality(Shared) \in Nat /\ Cardinality(Shared) < NumBins
<1>1. PICK n \in Nat : n = Len(Y) /\ DOMAIN Y = 1..n /\ n < NumBins /\ NumBins \in Nat
  BY RowsAre
<1> DEFINE g == [i \in Shared |-> 1]
           h == [i \in 0..n - 1 |-> IF i + 1 \in Shared THEN g[i + 1] ELSE 0]
<1>2. Shared \in SUBSET (1..n)
  BY <1>1 DEF Shared
<1>3. Holds(f, g)
  <2>1. \A i \in Shared : sharing.mapping[i] \in J!Common(sharing) /\ sharing.mapping[i] \in Bins
    BY BinsAre DEF Shared, JoinedInv
  <2> QED BY <2>1 DEF Holds
<1>4. TotalShared(g) = Total(n, h)
  BY <1>1 DEF TotalShared
<1>5. \A i \in 0..n - 1 : h[i] = IF i + 1 \in Shared THEN 1 ELSE 0
  OBVIOUS
<1>6. h \in [0..n - 1 -> Int]
  OBVIOUS
<1>7. Total(n, h) = Cardinality(Shared)
  <2> HIDE DEF h, g
  <2> QED BY <1>2, <1>5, <1>6, TotalCount
<1>8. Total(NumBins, f) = TotalShared(g)
  <2> HIDE DEF g
  <2> QED BY <1>3, TotalOfShared
<1>9. Cardinality(Shared) \in Nat /\ Cardinality(Shared) <= n
  <2>1. IsFiniteSet(1..n) /\ Cardinality(1..n) = n
    <3>1. IsFiniteSet(1..n) /\ Cardinality(1..n) = IF 1 > n THEN 0 ELSE n - 1 + 1
      BY FS_Interval
    <3> QED BY <3>1
  <2> QED BY <1>2, <2>1, FS_Subset, FS_CardinalityType
<1> HIDE DEF g, h
<1> QED BY <1>1, <1>4, <1>7, <1>8, <1>9

(***************************************************************************)
(* Cardinality and threshold: one OT gives shares of whether a bin's flags *)
(* differ.                                                                 *)
(***************************************************************************)
LEMMA CardBin ==
  ASSUME NEW n \in Nat \ {0}, NEW e \in 0..1, NEW f \in 0..1, NEW r0 \in Int, NEW r1 \in Int,
         NEW msg \in Int, Same(msg, r0 + r1 + e, n)
  PROVE  Same((IF f = 0 THEN -(2 * r0) ELSE 1 - 2 * (msg - r1)) + (e + 2 * r0), IF e = f THEN 0 ELSE 1, n)
<1>1. CASE f = 0
  <2>1. -(2 * r0) + (e + 2 * r0) = IF e = f THEN 0 ELSE 1
    BY <1>1
  <2> QED BY <1>1, <2>1 DEF Same
<1>2. CASE f = 1
  <2>1. r0 + r1 + e \in Int
    OBVIOUS
  <2>2. PICK k \in Int : msg = (r0 + r1 + e) + k * n
    BY <2>1, SameIs
  <2>3. PICK m \in Int : m = k * n
    OBVIOUS
  <2>4. (-2 * k) * n = -2 * m
    BY <2>3
  <2>5. 1 - 2 * (msg - r1) + (e + 2 * r0) = (IF e = f THEN 0 ELSE 1) + (-2 * k) * n
    BY <1>2, <2>2, <2>3, <2>4
  <2> DEFINE v == 1 - 2 * (msg - r1) + (e + 2 * r0)
             u == IF e = f THEN 0 ELSE 1
  <2>6. v \in Int /\ u \in Int /\ -2 * k \in Int /\ v = u + (-2 * k) * n
    BY <2>5
  <2> HIDE DEF v, u
  <2>7. Same(v, u, n)
    BY <2>6, SameIs
  <2> QED BY <1>2, <2>7 DEF u, v
<1> QED BY <1>1, <1>2

\* What the sender sends and keeps, and what the receiver makes of it.
CardMsgs == [b \in Bins |-> Wrap(rot[b][0] + rot[b][1] + SFlag(b)) % CardRange]
CardOwn == Wrap(Total(NumBins, [b \in Bins |-> SFlag(b) + 2 * rot[b][0]]))
CardComing(msgs) == Wrap(Total(NumBins, [b \in Bins |-> CardPart(b, msgs[b])]))

LEMMA WrapIs ==
  ASSUME NEW a \in Int
  PROVE  Wrap(a) \in 0..Words - 1 /\ Same(Wrap(a), a, Words) /\ Same(Wrap(a), a, CardRange)
<1>1. PICK w \in Nat \ {0}, c \in Nat \ {0}, q \in Int : w = Words /\ c = CardRange /\ w = q * c
  BY SizesAre
<1>2. PICK v \in 0..w - 1 : v = a % w
  BY Remainder
<1>3. Same(v, a, w)
  BY <1>2, SameMod
<1>4. Same(v, a, c)
  <2>1. v \in Int
    OBVIOUS
  <2> QED BY Zenon, <1>1, <1>3, <2>1, SameLess
<1> QED BY <1>1, <1>2, <1>3, <1>4 DEF Wrap

LEMMA CardSum ==
  ASSUME InputInv, JoinedInv, Pairs(NumBins)
  PROVE  /\ CardOwn \in Int /\ CardComing(CardMsgs) \in Int
         /\ Same(CardComing(CardMsgs) + CardOwn, Cardinality(Shared), CardRange)
<1>1. PICK N \in Nat : N = NumBins /\ Bins = 0..N - 1
  BY RowsAre
<1>2. PICK c \in Nat \ {0} : c = CardRange
  BY SizesAre
<1> DEFINE own == [b \in Bins |-> SFlag(b) + 2 * rot[b][0]]
           coming == [b \in Bins |-> CardPart(b, CardMsgs[b])]
           both == [b \in Bins |-> coming[b] + own[b]]
           one == [b \in Bins |-> IF b \in J!Common(sharing) THEN 1 ELSE 0]
<1>3. ASSUME NEW b \in Bins
      PROVE  own[b] \in Int /\ coming[b] \in Int /\ Same(both[b], one[b], c)
  <2>1. PICK r0 \in Int, r1 \in Int : r0 = rot[b][0] /\ r1 = rot[b][1]
    BY <1>1 DEF Pairs
  <2>2. PICK e \in 0..1, f \in 0..1 :
          e = SFlag(b) /\ f = RFlag(b) /\ (e = f <=> b \notin J!Common(sharing))
    BY DEF JoinedInv, SFlag, RFlag
  <2>3. PICK msg \in Int : msg = CardMsgs[b] /\ Same(msg, r0 + r1 + e, c)
    <3>1. PICK a \in Int : a = r0 + r1 + e
      OBVIOUS
    <3>2. PICK w \in Int : w = Wrap(a) /\ Same(w, a, c)
      BY <1>2, WrapIs
    <3>3. w % c \in Int /\ Same(w % c, w, c)
      BY Remainder, SameMod
    <3>4. Same(w % c, a, c)
      BY <3>2, <3>3 DEF Same
    <3>5. CardMsgs[b] = w % c
      BY <1>2, <2>1, <2>2, <3>1, <3>2 DEF CardMsgs
    <3> QED BY <3>1, <3>3, <3>4, <3>5
  <2>4. own[b] = e + 2 * r0 /\ coming[b] = IF f = 0 THEN -(2 * r0) ELSE 1 - 2 * (msg - r1)
    BY <2>1, <2>2, <2>3 DEF CardPart
  <2>5. one[b] = IF e = f THEN 0 ELSE 1
    BY <2>2
  <2>6. Same((IF f = 0 THEN -(2 * r0) ELSE 1 - 2 * (msg - r1)) + (e + 2 * r0), IF e = f THEN 0 ELSE 1, c)
    BY <2>3, CardBin
  <2>7. both[b] = coming[b] + own[b]
    OBVIOUS
  <2> HIDE DEF own, coming, both, one
  <2>8. own[b] \in Int /\ coming[b] \in Int
    BY <2>4
  <2> QED BY <2>4, <2>5, <2>6, <2>7, <2>8
<1>4. /\ own \in [0..N - 1 -> Int] /\ coming \in [0..N - 1 -> Int] /\ both \in [0..N - 1 -> Int]
      /\ one \in [0..N - 1 -> Int] /\ \A b \in 0..N - 1 : both[b] = coming[b] + own[b]
  <2>1. \A b \in Bins : own[b] \in Int /\ coming[b] \in Int /\ both[b] \in Int
    <3>1. \A b \in Bins : both[b] = coming[b] + own[b]
      OBVIOUS
    <3> HIDE DEF own, coming, both
    <3> QED BY <1>3, <3>1
  <2> QED BY <1>1, <2>1
<1>5. CardOwn = Wrap(Total(N, own)) /\ CardComing(CardMsgs) = Wrap(Total(N, coming))
  BY <1>1 DEF CardOwn, CardComing
<1>6. one \in [Bins -> Int] /\ \A b \in Bins : one[b] = IF b \in J!Common(sharing) THEN 1 ELSE 0
  OBVIOUS
<1> HIDE DEF own, coming, both, one
<1>7. Total(N, both) = Total(N, coming) + Total(N, own)
  BY <1>4, TotalPlus
<1>8. Same(Total(N, both), Total(N, one), c)
  <2>1. \A b \in 0..N - 1 : Same(both[b], one[b], c)
    BY <1>1, <1>3
  <2> QED BY <1>4, <2>1, TotalSame
<1>9. Total(N, one) = Cardinality(Shared)
  BY <1>1, <1>6, CountOfShared
<1>10. PICK x \in Int, y \in Int : x = Total(N, coming) /\ y = Total(N, own)
  BY <1>4, TotalType
<1>11. /\ Wrap(x) \in Int /\ Wrap(y) \in Int /\ Same(Wrap(x) + Wrap(y), x + y, c)
  <2>1. PICK u \in Int, v \in Int : u = Wrap(x) /\ v = Wrap(y) /\ Same(u, x, c) /\ Same(v, y, c)
    <3>1. Wrap(x) \in Int /\ Wrap(y) \in Int /\ Same(Wrap(x), x, c) /\ Same(Wrap(y), y, c)
      <4>1. \A t \in 0..Words - 1 : t \in Int
        BY SizesAre
      <4> QED BY <1>2, <4>1, WrapIs
    <3> QED BY <3>1
  <2>2. Same(u + v, x + y, c)
    BY <2>1, SamePlus
  <2> QED BY <2>1, <2>2
<1> QED BY <1>2, <1>5, <1>7, <1>8, <1>9, <1>10, <1>11 DEF Same

\* The modulus of the cardinality, where it fits an int.
LEMMA ModulusIs == ShiftFits => CardModuli = {CardRange}
<1> SUFFICES ASSUME ShiftFits PROVE CardModuli = {CardRange}
  OBVIOUS
<1>1. NumBins \in Nat /\ NumBins >= 2 /\ ByteBits \in Nat \ {0}
  BY CpsoAssumption
<1>2. CardBits \in Nat
  BY <1>1, LogIs DEF CardBits
<1>3. CardShift \in Nat
  <2>1. DivCeil(CardBits, ByteBits) \in Nat
    BY <1>1, <1>2, CeilIs
  <2> QED BY <1>1, <2>1 DEF CardShift
<1>4. PICK i \in Nat \ {0}, n \in Nat : i = IntBits /\ n = CardShift /\ n < i
  BY <1>3, CpsoAssumption DEF ShiftFits
<1>5. n % i = n
  BY <1>4
<1> QED BY <1>4, <1>5 DEF CardModuli, CardRange

\* The adder's sum is the cardinality: cut to the bits of the circuit, it is all there.
LEMMA SumIsCount ==
  ASSUME InputInv, JoinedInv, NEW s \in Int, NEW r \in Int, Same(s + r, Cardinality(Shared), CardRange)
  PROVE  (s + r) % Shifted(CardBits) = Cardinality(Shared)
<1>1. PICK k \in Nat : k = Cardinality(Shared) /\ k < NumBins
  <2> DEFINE f == [b \in Bins |-> IF b \in J!Common(sharing) THEN 1 ELSE 0]
  <2>1. f \in [Bins -> Int] /\ \A b \in Bins : f[b] = IF b \in J!Common(sharing) THEN 1 ELSE 0
    OBVIOUS
  <2> HIDE DEF f
  <2> QED BY <2>1, CountOfShared
<1>2. PICK c \in Nat \ {0}, b \in Nat \ {0}, q \in Int : c = CardRange /\ b = Shifted(CardBits) /\ c = q * b
  BY SizesAre
<1>3. k < b
  BY <1>1, <1>2, SizesAre, CpsoAssumption
<1>4. PICK t \in Int : t = s + r
  OBVIOUS
<1>5. Same(t, k, b)
  <2>1. Same(t, k, c) /\ k \in Int
    BY <1>1, <1>2, <1>4
  <2> QED BY Zenon, <1>2, <2>1, SameLess
<1>6. k % b = k
  BY <1>3
<1> QED BY <1>1, <1>2, <1>4, <1>5, <1>6 DEF Same

\* What the shares of the adder's bits stand for is the sum.
LEMMA AddedIs ==
  ASSUME NEW k \in Nat, k < Shifted(CardBits), NEW mask \in [Places -> 0..1],
         sAdd' = [send |-> mask, recv |-> [j \in Places |-> (mask[j] + k \div Shifted(j)) % 2]]
  PROVE  Added' = k
<1>1. PICK w \in Nat : w = CardBits /\ Places = 0..w - 1
  BY LogIs, CpsoAssumption DEF CardBits, Places
<1> DEFINE f == [j \in 0..w - 1 |-> ((sAdd'.send[j] + sAdd'.recv[j]) % 2) * Shifted(j)]
<1>2. ASSUME NEW j \in 0..w - 1
      PROVE  f[j] \in Int /\ f[j] = ((k \div Shifted(j)) % 2) * (1 * Shifted(j))
  <2>1. PICK s \in Nat \ {0} : s = Shifted(j)
    BY ShiftedNext
  <2>2. PICK q \in Nat : q = k \div s
    BY <2>1, Div
  <2>3. PICK e \in 0..1 : e = mask[j]
    BY <1>1
  <2>4. (e + ((e + q) % 2)) % 2 = q % 2
    OBVIOUS
  <2>5. sAdd'.send[j] = e /\ sAdd'.recv[j] = ((e + q) % 2)
    BY <1>1, <2>1, <2>2, <2>3
  <2>6. f[j] = (q % 2) * s
    BY <2>1, <2>4, <2>5
  <2>7. PICK z \in 0..1 : z = q % 2
    BY <2>2
  <2>8. z * s = (IF z = 0 THEN 0 ELSE s) /\ 1 * s = s
    BY <2>1, <2>7
  <2> HIDE DEF f
  <2> QED BY <2>1, <2>2, <2>6, <2>7, <2>8
<1>3. Added' = Total(w, f)
  BY <1>1 DEF Added
<1>4. f \in [0..w - 1 -> Int]
  <2>1. f = [j \in 0..w - 1 |-> f[j]]
    OBVIOUS
  <2> HIDE DEF f
  <2> QED BY <1>2, <2>1
<1> HIDE DEF f
<1>5. Total(w, f) = 1 * (k % Shifted(w))
  BY <1>2, <1>4, TotalBits
<1>6. PICK b \in Nat \ {0} : b = Shifted(w)
  BY ShiftedNext
<1>7. k % b = k /\ 1 * k = k
  BY <1>1, <1>6
<1> QED BY <1>3, <1>5, <1>6, <1>7

(***************************************************************************)
(* Sum: the masks add up to nothing.                                       *)
(***************************************************************************)
LEMMA MasksAddUp ==
  ASSUME NEW N \in Nat \ {0}, N = NumBins, NEW r \in [0..N - 1 -> Int]
  PROVE  Masks(r) \in [0..N - 1 -> Int] /\ Total(N, Masks(r)) = 0
<1> DEFINE rest == [b \in 0..N - 1 |-> IF b = 0 THEN 0 ELSE r[b]]
<1>1. rest \in [0..N - 1 -> Int] /\ rest[0] = 0 /\ \A b \in 0..N - 1 : b # 0 => rest[b] = r[b]
  OBVIOUS
<1>2. PICK t \in Int : t = Total(N, rest)
  <2> HIDE DEF rest
  <2> QED BY <1>1, TotalType
<1>7. PICK u \in Int : u = -t
  OBVIOUS
<1>3. Masks(r) = [b \in 0..N - 1 |-> IF b = 0 THEN u ELSE r[b]]
  BY <1>2, <1>7 DEF Masks, Bins
<1>4. PICK m \in [0..N - 1 -> Int] : m = Masks(r)
  BY <1>3
<1>5. Raises(N, m, rest, 0, u)
  BY <1>1, <1>3, <1>4 DEF Raises
<1> HIDE DEF rest
<1>6. Total(N, m) = Total(N, rest) + u
  <2>1. 0 \in 0..N - 1 /\ N \in Nat
    OBVIOUS
  <2> QED BY <1>1, <1>5, <2>1, TotalOneMore
<1> QED BY <1>2, <1>4, <1>6, <1>7

\* Whatever the choice of a bin is, with the receiver's flag it selects the number of a common row.
Worth(b) == IF b \in J!Common(sharing) THEN dataY[RowIn(b)] ELSE 0
LEMMA WorthIs ==
  ASSUME InputInv, JoinedInv
  PROVE  /\ \A b \in Bins : Worth(b) \in Nat
         /\ \A b \in Bins : (IF RFlag(b) # SFlag(b) /\ Mapped(b) THEN dataY[RowIn(b)] ELSE 0) = Worth(b)
         /\ Total(NumBins, [b \in Bins |-> Worth(b)]) = TotalShared(dataY)
<1>1. DOMAIN Y = 1..Len(Y) /\ \A i \in 1..Len(Y) : dataY[i] \in Nat
  <2>1. \A v \in 0..Words - 1 : v \in Nat
    BY SizesAre
  <2> QED BY <2>1, RowsAre DEF InputInv
<1>2. \A b \in J!Common(sharing) : Mapped(b) /\ RowIn(b) \in DOMAIN Y
  BY BinsAre
<1>3. \A b \in Bins : Worth(b) \in Nat
  BY <1>1, <1>2 DEF Worth
<1>4. \A b \in Bins : RFlag(b) # SFlag(b) <=> b \in J!Common(sharing)
  BY DEF JoinedInv, RFlag, SFlag
<1>5. \A b \in Bins : (IF RFlag(b) # SFlag(b) /\ Mapped(b) THEN dataY[RowIn(b)] ELSE 0) = Worth(b)
  BY <1>2, <1>4 DEF Worth
<1> DEFINE f == [b \in Bins |-> Worth(b)]
<1>6. f \in [Bins -> Int]
  BY <1>3
<1>7. Holds(f, dataY)
  <2>1. \A i \in Shared : /\ sharing.mapping[i] \in J!Common(sharing) /\ sharing.mapping[i] \in Bins
                          /\ RowIn(sharing.mapping[i]) = i /\ dataY[i] \in Int
    BY <1>1, BinsAre DEF Shared, JoinedInv
  <2> QED BY <2>1 DEF Holds, Worth
<1>8. Total(NumBins, f) = TotalShared(dataY)
  <2> HIDE DEF f
  <2> QED BY <1>6, <1>7, TotalOfShared
<1> QED BY <1>3, <1>5, <1>8

\* Numbers masked with what adds up to nothing still add up.
LEMMA SumIs ==
  ASSUME InputInv, JoinedInv, NEW r \in Randoms(NumBins), WordDraws, NEW f \in [Bins -> Int],
         \A b \in Bins : Same(f[b], Masks(r)[b] + Worth(b), Words)
  PROVE  Wrap(Total(NumBins, f)) = Wrap(TotalShared(dataY))
<1>1. PICK N \in Nat \ {0} : N = NumBins /\ Bins = 0..N - 1
  BY RowsAre, CpsoAssumption
<1>2. PICK w \in Nat \ {0} : w = Words
  BY SizesAre
<1>3. r \in [0..N - 1 -> Int]
  <2>1. r \in [0..N - 1 -> 0..w - 1]
    BY <1>1, <1>2 DEF WordDraws
  <2> QED BY <2>1
<1>4. PICK m \in [0..N - 1 -> Int] : m = Masks(r) /\ Total(N, m) = 0
  BY <1>1, <1>3, MasksAddUp
<1> DEFINE g == [b \in Bins |-> Worth(b)]
           h == [b \in Bins |-> m[b] + g[b]]
<1>5. /\ g \in [0..N - 1 -> Int] /\ h \in [0..N - 1 -> Int] /\ \A b \in 0..N - 1 : h[b] = m[b] + g[b]
      /\ \A b \in 0..N - 1 : h[b] = m[b] + Worth(b)
  <2>1. \A b \in Bins : Worth(b) \in Int
    BY WorthIs
  <2> QED BY <1>1, <2>1
<1>6. Total(N, g) = TotalShared(dataY)
  BY <1>1, WorthIs
<1> HIDE DEF g, h
<1>7. Total(N, h) = Total(N, m) + Total(N, g) /\ Total(N, g) \in Int
  BY <1>5, TotalPlus, TotalType
<1>8. Total(N, h) = TotalShared(dataY)
  BY <1>4, <1>6, <1>7
<1>9. Same(Total(N, f), Total(N, h), w)
  <2>1. f \in [0..N - 1 -> Int]
    BY <1>1
  <2>2. \A b \in 0..N - 1 : Same(f[b], h[b], w)
    BY <1>1, <1>2, <1>4, <1>5
  <2> QED BY <1>5, <2>1, <2>2, TotalSame
<1> QED BY <1>1, <1>2, <1>8, <1>9 DEF Same, Wrap

\* What a masked bin sends and its choice takes.
LEMMA PairIs ==
  ASSUME InputInv, JoinedInv, NEW b \in Bins, NEW mask \in Int
  PROVE  Pair(b, RFlag(b), mask) \in Int /\ Same(Pair(b, RFlag(b), mask), mask + Worth(b), Words)
<1>1. PICK x \in Int : x = mask + Worth(b)
  BY WorthIs
<1>2. Pair(b, RFlag(b), mask) = Wrap(x)
  BY <1>1, WorthIs DEF Pair
<1>3. PICK w \in Nat \ {0} : w = Words
  BY SizesAre
<1> QED BY <1>1, <1>2, <1>3, WrapIs

Sum32Coming(m) == Wrap(Total(NumBins, [b \in Bins |-> m[b][RFlag(b)] - rot[b][RFlag(b)]]))
Sum32Msgs(r) == [b \in Bins |-> [c \in 0..1 |-> Pair(b, c, rot[b][c] + Masks(r)[b])]]

LEMMA RandomsAre ==
  ASSUME WordDraws, NEW r \in Randoms(NumBins)
  PROVE  r \in [Bins -> Int] /\ Masks(r) \in [Bins -> Int] /\ NumBins \in Nat \ {0} /\ Bins = 0..NumBins - 1
<1>1. PICK N \in Nat \ {0} : N = NumBins /\ Bins = 0..N - 1
  BY CpsoAssumption DEF Bins
<1>2. PICK w \in Nat \ {0} : w = Words
  BY SizesAre
<1>3. r \in [0..N - 1 -> 0..w - 1]
  BY <1>1, <1>2 DEF WordDraws
<1>4. r \in [0..N - 1 -> Int]
  BY <1>3
<1> QED BY <1>1, <1>4, MasksAddUp

LEMMA SumBlockRight ==
  ASSUME InputInv, JoinedInv, WordDraws, NEW r \in Randoms(NumBins)
  PROVE  Wrap(Total(NumBins, [b \in Bins |-> Pair(b, RFlag(b), Masks(r)[b])])) = Wrap(TotalShared(dataY))
<1> DEFINE f == [b \in Bins |-> Pair(b, RFlag(b), Masks(r)[b])]
<1>1. ASSUME NEW b \in Bins PROVE f[b] \in Int /\ Same(f[b], Masks(r)[b] + Worth(b), Words)
  <2>1. Masks(r)[b] \in Int
    BY RandomsAre
  <2> QED BY <2>1, PairIs
<1>2. f \in [Bins -> Int]
  BY <1>1
<1> HIDE DEF f
<1>3. \A b \in Bins : Same(f[b], Masks(r)[b] + Worth(b), Words)
  BY <1>1
<1>4. Wrap(Total(NumBins, f)) = Wrap(TotalShared(dataY))
  BY <1>2, <1>3, SumIs
<1> QED BY <1>4 DEF f

LEMMA Sum32Right ==
  ASSUME InputInv, JoinedInv, Pairs(NumBins), WordDraws, NEW r \in Randoms(NumBins)
  PROVE  Sum32Coming(Sum32Msgs(r)) = Wrap(TotalShared(dataY))
<1> DEFINE f == [b \in Bins |-> Sum32Msgs(r)[b][RFlag(b)] - rot[b][RFlag(b)]]
<1>1. ASSUME NEW b \in Bins PROVE f[b] \in Int /\ Same(f[b], Masks(r)[b] + Worth(b), Words)
  <2>1. PICK m \in Int, c \in 0..1 : m = Masks(r)[b] /\ c = RFlag(b)
    BY RandomsAre DEF JoinedInv, RFlag
  <2>2. PICK p \in Int : p = rot[b][c]
    BY <2>1 DEF Pairs, Bins
  <2>3. PICK v \in Int : v = Worth(b)
    BY WorthIs
  <2>4. PICK w \in Nat \ {0} : w = Words
    BY SizesAre
  <2>5. PICK x \in Int : x = p + m
    OBVIOUS
  <2>6. PICK y \in Int : y = Pair(b, c, x) /\ Same(y, x + v, w)
    BY <2>1, <2>3, <2>4, PairIs
  <2>7. f[b] = y - p
    BY <2>1, <2>2, <2>5, <2>6 DEF Sum32Msgs
  <2>8. Same(y - p, (x + v) - p, w)
    <3>1. Same(p, p, w) /\ x + v \in Int
      BY DEF Same
    <3> QED BY <2>6, <3>1, SamePlus
  <2>9. (x + v) - p = m + v
    BY <2>5
  <2> QED BY <2>1, <2>3, <2>4, <2>7, <2>8, <2>9
<1>2. f \in [Bins -> Int]
  BY <1>1
<1> HIDE DEF f
<1>3. \A b \in Bins : Same(f[b], Masks(r)[b] + Worth(b), Words)
  BY <1>1
<1>4. Wrap(Total(NumBins, f)) = Wrap(TotalShared(dataY))
  BY <1>2, <1>3, SumIs
<1> QED BY <1>4 DEF f, Sum32Coming

(***************************************************************************)
(* Inner product.                                                          *)
(***************************************************************************)
\* The receiver's number of a common bin, and each side's share of it.
Match(b) == dataX[J!RowOf(X, Y[RowIn(b)])]
Met(b) == IF b \in J!Common(sharing) THEN Match(b) ELSE 0
Half(b) == IF b \in J!Common(sharing) THEN sharing.valR[b] ELSE 0
ValuesInv ==
  /\ sharing.valS \in [Bins -> Int] /\ sharing.valR \in [Bins -> Int]
  /\ \A b \in J!Common(sharing) : Same(sharing.valS[b] + sharing.valR[b], Match(b), Words)
Matched == [i \in Shared |-> dataY[i] * dataX[J!RowOf(X, Y[i])]]

\* What one side keeps and what the other takes out of a cleared bin.
Sum2(f, g, h) == f \in [Bins -> Int] /\ g \in [Bins -> Int] /\ \A b \in Bins : Same(f[b] + g[b], h[b], Words)
Halves == [b \in Bins |-> Half(b)]
Mets == [b \in Bins |-> Met(b)]
FirstMsgs(r) == [b \in Bins |-> [c \in 0..1 |-> Cleared(b, SFlag(b), c, r[b], sharing.valR[b])]]
FirstComing(m) == [b \in Bins |-> Wrap(m[b][RFlag(b)] - rot[b][RFlag(b)])]
SecondMsgs(r) == [b \in Bins |-> [c \in 0..1 |-> Cleared(b, RFlag(b), c, r[b], sharing.valS[b])]]
SecondComing(m) == [b \in Bins |-> Wrap(clearS[b] + m[b][SFlag(b)] - rot[b][SFlag(b)])]

LEMMA ClearedIs ==
  ASSUME NEW b, NEW flag, NEW c, NEW r \in Int, NEW val \in Int, NEW p \in Int, p = rot[b][c]
  PROVE  /\ Cleared(b, flag, c, r, val) \in Int
         /\ Same(Cleared(b, flag, c, r, val) - p, r + (IF c # flag THEN val ELSE 0), Words)
<1>1. PICK w \in Nat \ {0} : w = Words
  BY SizesAre
<1>2. PICK v \in Int : v = IF c # flag THEN val ELSE 0
  OBVIOUS
<1>3. PICK x \in Int : x = p + r + v
  OBVIOUS
<1>4. PICK y \in 0..w - 1 : y = Wrap(x) /\ Same(y, x, w)
  BY <1>1, WrapIs
<1>5. Cleared(b, flag, c, r, val) = y
  BY <1>2, <1>3, <1>4 DEF Cleared
<1>6. Same(y - p, x - p, w)
  <2>1. y \in Int /\ Same(p, p, w)
    BY DEF Same
  <2> QED BY <1>4, <2>1, SamePlus
<1>7. x - p = r + v
  BY <1>3
<1>8. y \in Int
  OBVIOUS
<1> QED BY <1>1, <1>2, <1>5, <1>6, <1>7, <1>8

LEMMA FirstClears ==
  ASSUME JoinedInv, ValuesInv, Pairs(NumBins), NEW r \in [Bins -> Int]
  PROVE  Sum2([b \in Bins |-> Wrap(-r[b])], FirstComing(FirstMsgs(r)), Halves)
<1> DEFINE kept == [b \in Bins |-> Wrap(-r[b])]
           taken == FirstComing(FirstMsgs(r))
<1>1. ASSUME NEW b \in Bins PROVE kept[b] \in Int /\ taken[b] \in Int /\ Same(kept[b] + taken[b], Halves[b], Words)
  <2>1. PICK w \in Nat \ {0} : w = Words
    BY SizesAre
  <2>2. PICK c \in 0..1, e \in 0..1 :
          c = RFlag(b) /\ e = SFlag(b) /\ (c = e <=> b \notin J!Common(sharing))
    BY DEF JoinedInv, RFlag, SFlag
  <2>3. PICK p \in Int : p = rot[b][c]
    BY <2>2 DEF Pairs, Bins
  <2>4. PICK s \in Int, val \in Int : s = r[b] /\ val = sharing.valR[b]
    BY DEF ValuesInv
  <2>5. PICK h \in Int : h = IF c # e THEN val ELSE 0
    OBVIOUS
  <2>6. Halves[b] = h
    BY <2>2, <2>4, <2>5 DEF Halves, Half
  <2>7. PICK m \in Int : m = Cleared(b, e, c, s, val) /\ Same(m - p, s + h, w)
    BY <2>1, <2>3, <2>4, <2>5, ClearedIs
  <2>8. PICK x \in Int, n \in Int : x = m - p /\ n = -s
    OBVIOUS
  <2>9. taken[b] = Wrap(x)
    BY <2>2, <2>3, <2>4, <2>7, <2>8 DEF FirstComing, FirstMsgs
  <2>10. kept[b] = Wrap(n)
    BY <2>4, <2>8
  <2>11. PICK u \in 0..w - 1, v \in 0..w - 1 : u = Wrap(n) /\ v = Wrap(x) /\ Same(u, n, w) /\ Same(v, x, w)
    BY <2>1, <2>8, WrapIs
  <2>12. u \in Int /\ v \in Int /\ s + h \in Int
    OBVIOUS
  <2>13. Same(v, s + h, w)
    BY <2>7, <2>8, <2>11 DEF Same
  <2>14. Same(u + v, n + (s + h), w)
    BY <2>11, <2>12, <2>13, SamePlus
  <2>15. n + (s + h) = h
    BY <2>8
  <2> HIDE DEF kept, taken
  <2> QED BY <2>1, <2>6, <2>9, <2>10, <2>11, <2>12, <2>14, <2>15
<1>2. kept \in [Bins -> Int]
  BY <1>1
<1>3. taken \in [Bins -> Int]
  <2>1. taken = [b \in Bins |-> taken[b]]
    BY DEF FirstComing
  <2> HIDE DEF taken
  <2> QED BY <1>1, <2>1
<1> HIDE DEF kept, taken
<1>4. Sum2(kept, taken, Halves)
  BY <1>1, <1>2, <1>3 DEF Sum2
<1> QED BY <1>4 DEF kept, taken

LEMMA SecondClears ==
  ASSUME JoinedInv, ValuesInv, Pairs(NumBins), NEW r \in [Bins -> Int], Sum2(clearS, clearR, Halves),
         \A b \in Bins : Met(b) \in Int
  PROVE  Sum2(SecondComing(SecondMsgs(r)), [b \in Bins |-> Wrap(clearR[b] - r[b])], Mets)
<1> DEFINE kept == [b \in Bins |-> Wrap(clearR[b] - r[b])]
           taken == SecondComing(SecondMsgs(r))
<1>1. ASSUME NEW b \in Bins PROVE kept[b] \in Int /\ taken[b] \in Int /\ Same(taken[b] + kept[b], Mets[b], Words)
  <2>1. PICK w \in Nat \ {0} : w = Words
    BY SizesAre
  <2>2. PICK c \in 0..1, e \in 0..1 :
          c = SFlag(b) /\ e = RFlag(b) /\ (c = e <=> b \notin J!Common(sharing))
    BY DEF JoinedInv, RFlag, SFlag
  <2>3. PICK p \in Int : p = rot[b][c]
    BY <2>2 DEF Pairs, Bins
  <2>4. PICK s \in Int, val \in Int, other \in Int :
          s = r[b] /\ val = sharing.valS[b] /\ other = sharing.valR[b]
    BY DEF ValuesInv
  <2>5. PICK h \in Int, g \in Int : h = (IF c # e THEN val ELSE 0) /\ g = IF c # e THEN other ELSE 0
    OBVIOUS
  <2>6. PICK y \in Int, z \in Int : y = clearS[b] /\ z = clearR[b] /\ Same(y + z, g, w)
    <3>1. Halves[b] = g
      BY <2>2, <2>4, <2>5 DEF Halves, Half
    <3> QED BY <2>1, <3>1 DEF Sum2
  <2>7. PICK t \in Int : t = Mets[b] /\ Same(g + h, t, w)
    <3>1. CASE c = e
      <4>1. Mets[b] = 0 /\ g + h = 0
        BY <2>2, <2>5, <3>1 DEF Mets, Met
      <4> QED BY <4>1 DEF Same
    <3>2. CASE c # e
      <4>1. b \in J!Common(sharing) /\ g + h = val + other
        BY <2>2, <2>5, <3>2
      <4>2. Mets[b] = Match(b) /\ Mets[b] \in Int
        BY <4>1 DEF Mets, Met
      <4>3. Same(val + other, Match(b), w)
        BY <2>1, <2>4, <4>1 DEF ValuesInv
      <4> QED BY <4>1, <4>2, <4>3
    <3> QED BY <3>1, <3>2
  <2>8. PICK m \in Int : m = Cleared(b, e, c, s, val) /\ Same(m - p, s + h, w)
    BY <2>1, <2>3, <2>4, <2>5, ClearedIs
  <2>9. PICK x \in Int, n \in Int : x = y + m - p /\ n = z - s
    OBVIOUS
  <2>10. taken[b] = Wrap(x)
    BY <2>2, <2>3, <2>4, <2>6, <2>8, <2>9 DEF SecondComing, SecondMsgs
  <2>11. kept[b] = Wrap(n)
    BY <2>4, <2>6, <2>9
  <2>12. PICK u \in 0..w - 1, v \in 0..w - 1 : u = Wrap(n) /\ v = Wrap(x) /\ Same(u, n, w) /\ Same(v, x, w)
    BY <2>1, <2>9, WrapIs
  <2>13. /\ u \in Int /\ v \in Int /\ s + h \in Int /\ m - p \in Int /\ y + z \in Int /\ g + h \in Int
         /\ y + z + h \in Int
    OBVIOUS
  <2>14. Same(v + u, x + n, w)
    BY <2>9, <2>12, <2>13, SamePlus
  <2>15. Same(x + n, y + z + h, w)
    <3>1. Same((m - p) + (y + z - s), (s + h) + (y + z - s), w)
      <4>1. Same(y + z - s, y + z - s, w) /\ y + z - s \in Int
        BY DEF Same
      <4> QED BY <2>8, <2>13, <4>1, SamePlus
    <3>2. (m - p) + (y + z - s) = x + n /\ (s + h) + (y + z - s) = y + z + h
      BY <2>9
    <3> QED BY <3>1, <3>2
  <2>16. Same((y + z) + h, g + h, w)
    <3>1. Same(h, h, w)
      BY DEF Same
    <3> QED BY <2>6, <2>13, <3>1, SamePlus
  <2>17. Same(v + u, t, w)
    BY <2>7, <2>14, <2>15, <2>16 DEF Same
  <2> HIDE DEF kept, taken
  <2> QED BY <2>1, <2>7, <2>10, <2>11, <2>12, <2>13, <2>17
<1>2. kept \in [Bins -> Int]
  BY <1>1
<1>3. taken \in [Bins -> Int]
  <2>1. taken = [b \in Bins |-> taken[b]]
    BY DEF SecondComing
  <2> HIDE DEF taken
  <2> QED BY <1>1, <2>1
<1> HIDE DEF kept, taken
<1>4. Sum2(taken, kept, Mets)
  BY <1>1, <1>2, <1>3 DEF Sum2
<1> QED BY <1>4 DEF kept, taken

\* The sender's numbers, and what is to come out.
LEMMA NumbersAre ==
  ASSUME InputInv, JoinedInv
  PROVE  /\ \A b \in Bins : Number(b) \in 0..Words - 1
         /\ \A b \in Bins : Met(b) \in Int
         /\ Total(NumBins, [b \in Bins |-> Met(b) * Number(b)]) = TotalShared(Matched)
<1>1. PICK n \in Nat, w \in Nat \ {0} :
        n = Len(Y) /\ DOMAIN Y = 1..n /\ DOMAIN X = 1..n /\ Len(X) = n /\ w = Words
  BY RowsAre, SizesAre
<1>2. dataY \in [1..n -> 0..w - 1] /\ dataX \in [1..n -> 0..w - 1]
  BY <1>1 DEF InputInv
<1>3. \A i \in Shared : i \in 1..n /\ dataY[i] \in Int /\ dataX[J!RowOf(X, Y[i])] \in Int
  <2> TAKE i \in Shared
  <2>1. i \in 1..n /\ \E k \in 1..n : X[k] = Y[i]
    BY <1>1 DEF Shared, J!Has
  <2>2. J!RowOf(X, Y[i]) \in 1..n
    BY <1>1, <2>1 DEF J!RowOf
  <2> QED BY <1>2, <2>1, <2>2
<1>4. /\ \A b : Mapped(b) => RowIn(b) \in 1..n
      /\ \A b \in J!Common(sharing) : Mapped(b) /\ RowIn(b) \in Shared
  <2>1. \A b : Mapped(b) => RowIn(b) \in 1..n /\ sharing.mapping[RowIn(b)] = b
    BY <1>1, BinsAre
  <2>2. \A b \in J!Common(sharing) : Mapped(b)
    BY BinsAre
  <2>3. \A i \in 1..n : sharing.mapping[i] \in J!Common(sharing) => i \in Shared
    BY <1>1, BinsAre DEF Shared
  <2> QED BY <2>1, <2>2, <2>3
<1>5. \A b \in Bins : Number(b) \in 0..w - 1
  BY <1>2, <1>4 DEF Number
<1>6. \A b \in Bins : Met(b) \in Int
  BY <1>3, <1>4 DEF Met, Match
<1> DEFINE f == [b \in Bins |-> Met(b) * Number(b)]
<1>7. f \in [Bins -> Int]
  <2>1. ASSUME NEW b \in Bins PROVE Met(b) * Number(b) \in Int
    <3>1. PICK x \in Int, y \in Int : x = Met(b) /\ y = Number(b)
      BY <1>5, <1>6
    <3> QED BY <3>1
  <2> QED BY <2>1
<1>8. Holds(f, Matched)
  <2>1. ASSUME NEW i \in Shared PROVE Matched[i] \in Int /\ f[sharing.mapping[i]] = Matched[i]
    <3>1. PICK b \in Bins : b = sharing.mapping[i] /\ b \in J!Common(sharing) /\ Mapped(b) /\ RowIn(b) = i
      BY BinsAre DEF Shared, JoinedInv
    <3>2. PICK x \in Int, y \in Int : x = dataY[i] /\ y = dataX[J!RowOf(X, Y[i])]
      BY <1>3
    <3>3. Met(b) = y /\ Number(b) = x
      BY <3>1, <3>2 DEF Met, Match, Number
    <3>4. f[b] = y * x /\ Matched[i] = x * y
      BY <3>2, <3>3 DEF Matched
    <3>5. x * y = y * x /\ x * y \in Int
      OBVIOUS
    <3> HIDE DEF f
    <3> QED BY <3>1, <3>4, <3>5
  <2>2. ASSUME NEW b \in Bins, b \notin J!Common(sharing) PROVE f[b] = 0
    <3>1. PICK y \in Int : y = Number(b)
      BY <1>5
    <3>2. f[b] = 0 * y
      BY <2>2, <3>1 DEF Met
    <3> HIDE DEF f
    <3> QED BY <3>2
  <2> HIDE DEF f
  <2> QED BY <2>1, <2>2 DEF Holds
<1>9. Total(NumBins, f) = TotalShared(Matched)
  <2> HIDE DEF f
  <2> QED BY <1>7, <1>8, TotalOfShared
<1> QED BY <1>1, <1>5, <1>6, <1>9

MultMsgs == [k \in BitOts |-> Wrap(rot[k][0] + rot[k][1] + clearR[k \div WordBits] * Shifted(k % WordBits))]
MultOwn == Wrap(-Total(NumBins * WordBits, [k \in BitOts |-> rot[k][0]]))
Chosen(m) == [k \in BitOts |-> IF Bit(k \div WordBits, k % WordBits) = 1 THEN m[k] - rot[k][1] ELSE rot[k][0]]
ShareComing(m) ==
  Wrap(Total(NumBins, [b \in Bins |-> clearS[b] * Number(b)]) + Total(NumBins * WordBits, Chosen(m)))

\* Bit j of bin b's number selects the receiver's share of that bin, shifted.
BitPart(k) ==
  ((Number(k \div WordBits) \div Shifted(k % WordBits)) % 2) * (clearR[k \div WordBits] * Shifted(k % WordBits))

LEMMA PlaceIs ==
  ASSUME NEW k \in BitOts
  PROVE  k \in Nat /\ k \div WordBits \in Bins /\ k % WordBits \in 0..WordBits - 1
<1>1. PICK N \in Nat, w \in Nat \ {0} : N = NumBins /\ w = WordBits /\ Bins = 0..N - 1
  BY CpsoAssumption DEF Bins
<1>2. N * w \in Nat
  OBVIOUS
<1>3. k \in Nat /\ k < N * w
  BY <1>1, <1>2 DEF BitOts
<1>4. PICK q \in Nat : q = k \div w /\ w * q <= k
  BY <1>3, Div
<1>5. k % w \in 0..w - 1
  BY <1>3, Remainder
<1>6. q < N
  <2>1. CASE N <= q
    <3>1. w * N <= w * q /\ w * N = N * w /\ w * q \in Nat
      BY <2>1, TimesUpTo
    <3> QED BY <1>2, <1>3, <1>4, <3>1
  <2> QED BY <2>1
<1> QED BY <1>1, <1>3, <1>4, <1>5, <1>6

LEMMA ChosenBin ==
  ASSUME InputInv, JoinedInv, Pairs(NumBins * WordBits), clearR \in [Bins -> Int], NEW k \in BitOts
  PROVE  /\ Chosen(MultMsgs)[k] \in Int /\ BitPart(k) \in Int /\ rot[k][0] \in Int
         /\ Same(Chosen(MultMsgs)[k], rot[k][0] + BitPart(k), Words)
<1>1. PICK b \in Bins, j \in Nat : b = k \div WordBits /\ j = k % WordBits
  BY PlaceIs, CpsoAssumption
<1>2. PICK p \in Int, q \in Int : p = rot[k][0] /\ q = rot[k][1]
  BY DEF Pairs, BitOts
<1>3. PICK c \in Int, s \in Int : c = clearR[b] /\ s = Shifted(j)
  BY ShiftedNext
<1>4. PICK v \in Int : v = c * s
  OBVIOUS
<1>5. PICK w \in Nat \ {0} : w = Words
  BY SizesAre
<1>6. PICK t \in 0..1 : t = Bit(b, j)
  <2>1. PICK x \in Nat : x = Number(b)
    <3>1. Number(b) \in 0..w - 1
      BY <1>5, NumbersAre
    <3> QED BY <3>1
  <2>2. PICK y \in Nat : y = x \div Shifted(j)
    <3>1. Shifted(j) \in Nat \ {0}
      BY ShiftedNext
    <3> QED BY <3>1, Div
  <2>3. y % 2 \in 0..1
    OBVIOUS
  <2> QED BY <2>1, <2>2, <2>3 DEF Bit
<1>7. BitPart(k) = t * v
  BY <1>1, <1>3, <1>4, <1>6 DEF BitPart, Bit
<1>8. PICK a \in Int : a = p + q + v
  OBVIOUS
<1>9. PICK m \in 0..w - 1 : m = Wrap(a) /\ Same(m, a, w)
  BY <1>5, WrapIs
<1>10. MultMsgs[k] = m
  BY <1>1, <1>2, <1>3, <1>4, <1>8, <1>9 DEF MultMsgs
<1>11. Chosen(MultMsgs)[k] = IF t = 1 THEN m - q ELSE p
  BY <1>1, <1>2, <1>6, <1>10 DEF Chosen
<1>12. CASE t = 1
  <2>1. Same(m - q, a - q, w)
    <3>1. Same(q, q, w) /\ m \in Int
      BY DEF Same
    <3> QED BY <1>9, <3>1, SamePlus
  <2>2. BitPart(k) = v /\ a - q = p + v
    BY <1>7, <1>8, <1>12
  <2> QED BY <1>2, <1>5, <1>11, <1>12, <2>1, <2>2
<1>13. CASE t = 0
  <2>1. BitPart(k) = 0
    BY <1>7, <1>13
  <2> QED BY <1>2, <1>5, <1>11, <1>13, <2>1 DEF Same
<1> QED BY <1>12, <1>13

LEMMA BitsAddUp ==
  ASSUME InputInv, JoinedInv, clearR \in [Bins -> Int], NEW f \in [BitOts -> Int],
         \A k \in BitOts : f[k] = BitPart(k),
         NEW g \in [Bins -> Int], \A b \in Bins : g[b] = clearR[b] * Number(b)
  PROVE  Total(NumBins * WordBits, f) = Total(NumBins, g)
<1>1. PICK N \in Nat, w \in Nat \ {0} : N = NumBins /\ w = WordBits /\ Bins = 0..N - 1
  BY CpsoAssumption DEF Bins
<1>2. f \in [0..N * w - 1 -> Int] /\ g \in [0..N - 1 -> Int] /\ BitOts = 0..N * w - 1
  BY <1>1 DEF BitOts
<1>3. ASSUME NEW b \in 0..N - 1 PROVE g[b] = Total(w, [j \in 0..w - 1 |-> f[b * w + j]])
  <2>1. PICK x \in Nat, c \in Int : x = Number(b) /\ c = clearR[b] /\ x % Words = x
    <3>1. PICK m \in Nat \ {0} : m = Words
      BY SizesAre
    <3>2. PICK x \in 0..m - 1 : x = Number(b)
      BY <1>1, <3>1, NumbersAre
    <3>3. x % m = x /\ x \in Nat
      OBVIOUS
    <3> QED BY <1>1, <3>1, <3>2, <3>3
  <2> DEFINE h == [j \in 0..w - 1 |-> f[b * w + j]]
  <2>2. ASSUME NEW j \in 0..w - 1
        PROVE  h[j] \in Int /\ h[j] = ((x \div Shifted(j)) % 2) * (c * Shifted(j))
    <3>1. PICK k \in Nat : k = b * w + j /\ k \div w = b /\ k % w = j
      <4>1. b \in Nat
        OBVIOUS
      <4> QED BY <4>1, BlockPlace
    <3>2. k \in 0..N * w - 1
      <4>1. w * b + w <= w * N
        BY Times
      <4>2. b * w = w * b /\ w * N = N * w /\ w * b \in Nat /\ N * w \in Nat
        OBVIOUS
      <4> QED BY <3>1, <4>1, <4>2
    <3>3. k \in BitOts
      BY <1>2, <3>2
    <3>4. f[k] = BitPart(k) /\ f[k] \in Int
      BY <3>3
    <3>5. BitPart(k) = ((x \div Shifted(j)) % 2) * (c * Shifted(j))
      BY <1>1, <2>1, <3>1 DEF BitPart
    <3>6. h[j] = f[k]
      BY <3>1
    <3> HIDE DEF h
    <3> QED BY <3>4, <3>5, <3>6
  <2>3. h \in [0..w - 1 -> Int] /\ \A j \in 0..w - 1 : h[j] = ((x \div Shifted(j)) % 2) * (c * Shifted(j))
    <3>1. h = [j \in 0..w - 1 |-> h[j]]
      OBVIOUS
    <3> HIDE DEF h
    <3> QED BY <2>2, <3>1
  <2> HIDE DEF h
  <2>4. Total(w, h) = c * (x % Shifted(w))
    BY <2>3, TotalBits
  <2>5. Shifted(w) = Words
    BY <1>1 DEF Words
  <2>6. g[b] = c * x
    BY <1>1, <2>1
  <2>7. Total(w, h) = g[b]
    BY <2>1, <2>4, <2>5, <2>6
  <2> QED BY <2>7 DEF h
<1>4. Total(N * w, f) = Total(N, g)
  <2>1. InBlocks(N, w, f, g)
    BY <1>3 DEF InBlocks
  <2> QED BY <1>2, <2>1, TotalBlocks
<1> QED BY <1>1, <1>4

\* What the sender makes of the masked shares, with what the receiver keeps, is the inner product.
LEMMA ProductIs ==
  ASSUME InputInv, JoinedInv, Pairs(NumBins * WordBits), Sum2(clearS, clearR, Mets)
  PROVE  /\ MultOwn \in Int /\ ShareComing(MultMsgs) \in Int
         /\ Same(MultOwn + ShareComing(MultMsgs), TotalShared(Matched), Words)
<1>1. PICK N \in Nat, w \in Nat \ {0}, m \in Nat : N = NumBins /\ w = WordBits /\ Bins = 0..N - 1 /\ m = N * w
  BY CpsoAssumption DEF Bins
<1>2. BitOts = 0..m - 1
  BY <1>1 DEF BitOts
<1>3. PICK W \in Nat \ {0} : W = Words
  BY SizesAre
<1>4. clearS \in [Bins -> Int] /\ clearR \in [Bins -> Int] /\ \A b \in Bins : Number(b) \in Int /\ Met(b) \in Int
  BY <1>3, NumbersAre DEF Sum2
<1> DEFINE drawn == [k \in BitOts |-> rot[k][0]]
           bits == [k \in BitOts |-> BitPart(k)]
           masked == [k \in BitOts |-> drawn[k] + bits[k]]
           chosen == Chosen(MultMsgs)
           kept == [b \in Bins |-> clearS[b] * Number(b)]
           back == [b \in Bins |-> clearR[b] * Number(b)]
           both == [b \in Bins |-> kept[b] + back[b]]
           met == [b \in Bins |-> Met(b) * Number(b)]
<1>5. ASSUME NEW k \in BitOts
      PROVE  /\ drawn[k] \in Int /\ bits[k] \in Int /\ chosen[k] \in Int
             /\ bits[k] = BitPart(k) /\ masked[k] = drawn[k] + bits[k] /\ Same(chosen[k], drawn[k] + bits[k], W)
  BY <1>3, <1>4, ChosenBin
<1>6. ASSUME NEW b \in Bins
      PROVE  /\ kept[b] \in Int /\ back[b] \in Int /\ met[b] \in Int
             /\ back[b] = clearR[b] * Number(b) /\ both[b] = kept[b] + back[b] /\ Same(kept[b] + back[b], met[b], W)
  <2>1. PICK x \in Int, y \in Int, n \in Int, t \in Int :
          x = clearS[b] /\ y = clearR[b] /\ n = Number(b) /\ t = Met(b) /\ Same(x + y, t, W)
    <3>1. Same(clearS[b] + clearR[b], Mets[b], W) /\ Mets[b] = Met(b)
      BY <1>3 DEF Sum2, Mets
    <3> QED BY <1>4, <3>1
  <2>2. kept[b] = x * n /\ back[b] = y * n /\ met[b] = t * n /\ both[b] = kept[b] + back[b] /\ back[b] = clearR[b] * Number(b)
    BY <2>1
  <2> HIDE DEF kept, back, both, met
  <2>3. Same((x + y) * n, t * n, W)
    <3>1. PICK z \in Int : z = x + y
      OBVIOUS
    <3>2. Same(z, t, W)
      BY <2>1, <3>1
    <3>3. Same(z * n, t * n, W)
      BY <3>2, SameTimes
    <3> QED BY <3>1, <3>3
  <2>4. (x + y) * n = x * n + y * n /\ x * n \in Int /\ y * n \in Int /\ t * n \in Int
    OBVIOUS
  <2> QED BY <2>2, <2>3, <2>4
<1>7. /\ drawn \in [0..m - 1 -> Int] /\ bits \in [0..m - 1 -> Int] /\ chosen \in [0..m - 1 -> Int]
      /\ masked \in [0..m - 1 -> Int] /\ bits \in [BitOts -> Int]
  <2>1. /\ drawn = [k \in BitOts |-> drawn[k]] /\ bits = [k \in BitOts |-> bits[k]]
        /\ chosen = [k \in BitOts |-> chosen[k]] /\ masked = [k \in BitOts |-> masked[k]]
    BY DEF Chosen
  <2> HIDE DEF drawn, bits, chosen, masked
  <2>2. \A k \in BitOts : masked[k] \in Int
    BY <1>5
  <2> QED BY <1>2, <1>5, <2>1, <2>2
<1>8. /\ kept \in [0..N - 1 -> Int] /\ back \in [0..N - 1 -> Int] /\ both \in [0..N - 1 -> Int]
      /\ met \in [0..N - 1 -> Int] /\ back \in [Bins -> Int]
  <2>1. /\ kept = [b \in Bins |-> kept[b]] /\ back = [b \in Bins |-> back[b]]
        /\ both = [b \in Bins |-> both[b]] /\ met = [b \in Bins |-> met[b]]
    OBVIOUS
  <2> HIDE DEF kept, back, both, met
  <2>2. \A b \in Bins : both[b] \in Int
    BY <1>6
  <2> QED BY <1>1, <1>6, <2>1, <2>2
<1>9. /\ MultOwn = Wrap(-Total(m, drawn))
      /\ ShareComing(MultMsgs) = Wrap(Total(N, kept) + Total(m, chosen))
      /\ Total(N, met) = TotalShared(Matched)
  BY <1>1, NumbersAre DEF MultOwn, ShareComing
<1> HIDE DEF drawn, bits, masked, chosen, kept, back, both, met
<1>10. Total(m, bits) = Total(N, back)
  <2>1. (\A k \in BitOts : bits[k] = BitPart(k)) /\ \A b \in Bins : back[b] = clearR[b] * Number(b)
    BY <1>5, <1>6
  <2> QED BY <1>1, <1>4, <1>7, <1>8, <2>1, BitsAddUp
<1>11. Total(m, masked) = Total(m, drawn) + Total(m, bits)
  <2>1. \A k \in 0..m - 1 : masked[k] = drawn[k] + bits[k]
    BY <1>2, <1>5
  <2> QED BY <1>7, <2>1, TotalPlus
<1>12. Same(Total(m, chosen), Total(m, masked), W)
  <2>1. \A k \in 0..m - 1 : Same(chosen[k], masked[k], W)
    BY <1>2, <1>5
  <2> QED BY <1>7, <2>1, TotalSame
<1>13. Total(N, both) = Total(N, kept) + Total(N, back)
  <2>1. \A b \in 0..N - 1 : both[b] = kept[b] + back[b]
    BY <1>1, <1>6
  <2> QED BY <1>8, <2>1, TotalPlus
<1>14. Same(Total(N, both), Total(N, met), W)
  <2>1. \A b \in 0..N - 1 : Same(both[b], met[b], W)
    BY <1>1, <1>6
  <2> QED BY <1>8, <2>1, TotalSame
<1>15. PICK d \in Int, c \in Int, s \in Int, k \in Int, v \in Int :
         /\ d = Total(m, drawn) /\ c = Total(m, chosen) /\ s = Total(m, bits)
         /\ k = Total(N, kept) /\ v = Total(N, met)
  BY <1>7, <1>8, TotalType
<1>16. Same(c, d + s, W) /\ Same(k + s, v, W)
  BY <1>10, <1>11, <1>12, <1>13, <1>14, <1>15
<1>17. PICK n \in Int, a \in Int : n = -d /\ a = k + c
  OBVIOUS
<1>18. PICK x \in Int, y \in Int : x = Wrap(n) /\ y = Wrap(a) /\ Same(x, n, W) /\ Same(y, a, W)
  <2>1. \A t \in 0..W - 1 : t \in Int
    OBVIOUS
  <2> QED BY <1>3, <2>1, WrapIs
<1>19. Same(x + y, n + a, W)
  BY <1>18, SamePlus
<1>20. Same(n + a, v, W)
  <2>1. PICK z \in Int : z = n + k
    OBVIOUS
  <2>2. Same(z, z, W) /\ d + s \in Int
    BY DEF Same
  <2>3. Same(c + z, (d + s) + z, W)
    BY <1>16, <2>2, SamePlus
  <2>4. c + z = n + a /\ (d + s) + z = k + s
    BY <1>17, <2>1
  <2> QED BY <1>16, <2>3, <2>4 DEF Same
<1>21. Same(x + y, v, W)
  BY <1>19, <1>20 DEF Same
<1>22. MultOwn = x /\ ShareComing(MultMsgs) = y /\ TotalShared(Matched) = v
  BY <1>9, <1>15, <1>17, <1>18
<1> QED BY <1>3, <1>21, <1>22

(***************************************************************************)
(* The stages of each operation after the join.  A stage in which a        *)
(* message is under way says what its reader will make of it.              *)
(***************************************************************************)
At(s, r) == spc = s /\ rpc = r
Before ==
  /\ {spc, rpc} \subseteq Early \cup {"join"} /\ toS = <<>>
  /\ rpc = "join" => spc = "join"
  /\ toR = IF spc = "join" /\ rpc # "join" THEN <<"end">> ELSE <<>>

\* Bits that decide the threshold.
Decided ==
  /\ sShare \in 0..1 /\ rShare \in 0..1
  /\ (sShare + rShare) % 2 = IntGteq(Cardinality(Shared), threshold % Shifted(CardBits))
Counts(x) == x \in Int /\ Same(x, Cardinality(Shared), CardRange)
CardStage ==
  \/ At("rot", "rot") /\ toR = <<>>
  \/ At("send", "recv") /\ toR = <<>> /\ Pairs(NumBins)
  \/ /\ At("done", "recv") /\ op = "cardinality"
     /\ \E m : toR = <<m>> /\ Counts(CardComing(m.msgs) + m.share)
  \/ /\ At("add", "recv") /\ op = "threshold" /\ sShare \in Int
     /\ \E m : toR = <<m>> /\ CardComing(m.msgs) \in Int /\ Counts(sShare + CardComing(m.msgs))
  \/ /\ At("add", "add") /\ op = "threshold" /\ toR = <<>>
     /\ sShare \in Int /\ rShare \in Int /\ Counts(sShare + rShare)
  \/ At("gteq", "gteq") /\ op = "threshold" /\ toR = <<>> /\ Added = Cardinality(Shared)
  \/ At("bit", "bit") /\ op = "threshold" /\ toR = <<>> /\ Decided
  \/ At("done", "bit") /\ op = "threshold" /\ toR = <<sShare>> /\ Decided
  \/ At("done", "done") /\ ResultExact

SumStage ==
  \/ At("sum", "sum")
  \/ At("done", "done") /\ ResultExact
Sum32Stage ==
  \/ At("rot", "rot") /\ toR = <<>>
  \/ At("send", "recv") /\ toR = <<>> /\ Pairs(NumBins)
  \/ At("done", "recv") /\ \E m : toR = <<m>> /\ Sum32Coming(m) = Wrap(TotalShared(dataY))
  \/ At("done", "done") /\ ResultExact

ProductStage ==
  \/ At("rot", "rot") /\ toR = <<>> /\ toS = <<>>
  \/ At("send", "recv") /\ toR = <<>> /\ toS = <<>> /\ Pairs(NumBins)
  \/ At("rot2", "recv") /\ toS = <<>> /\ \E m : toR = <<m>> /\ Sum2(clearS, FirstComing(m), Halves)
  \/ At("rot2", "rot2") /\ toR = <<>> /\ toS = <<>> /\ Sum2(clearS, clearR, Halves)
  \/ At("clear", "clear") /\ toR = <<>> /\ toS = <<>> /\ Sum2(clearS, clearR, Halves) /\ Pairs(NumBins)
  \/ At("clear", "rot3") /\ toR = <<>> /\ \E m : toS = <<m>> /\ Sum2(SecondComing(m), clearR, Mets)
  \/ At("rot3", "rot3") /\ toR = <<>> /\ toS = <<>> /\ Sum2(clearS, clearR, Mets)
  \/ At("share", "mult") /\ toR = <<>> /\ toS = <<>> /\ Sum2(clearS, clearR, Mets) /\ Pairs(NumBins * WordBits)
  \/ /\ At("share", "product") /\ toR = <<>> /\ rShare \in Int
     /\ \E m : toS = <<m>> /\ ShareComing(m) \in Int /\ Same(rShare + ShareComing(m), TotalShared(Matched), Words)
  \/ /\ At("done", "product") /\ rShare \in Int
     /\ \E m \in Int : toR = <<m>> /\ Same(rShare + m, TotalShared(Matched), Words)
  \/ At("done", "done") /\ ResultExact

Stage ==
  \/ op \in {"cardinality", "threshold"} /\ CardStage
  \/ op = "sumBlock" /\ SumStage
  \/ op = "sum32" /\ Sum32Stage
  \/ op = "innerProd" /\ ValuesInv /\ ProductStage
Results == {"cardinality", "threshold", "sumBlock", "sum32", "innerProd"}
ResultInv ==
  /\ InputInv
  /\ op \in Results => Before \/ (JoinedInv /\ Stage)

\* Where each action is taken.
LEMMA Guards ==
  /\ (SSetup => spc = "setup") /\ (RSetup => rpc = "setup") /\ (BaseOts => spc = "base")
  /\ (ExpandOt => spc = "ots") /\ (ExpandTriple => spc = "triples")
  /\ (SExpanded => spc \in {"ots", "triples"}) /\ (RExpanded => rpc \in {"ots", "triples"})
  /\ (Oprf => spc = "oprf") /\ (Join => spc = "join" /\ rpc = "join")
  /\ (PermShare => spc = "ps") /\ (FinalOt => spc = "final")
  /\ (Rot => spc \in {"rot", "rot2", "rot3"} /\ rpc = spc)
  /\ (SCard => spc = "send" /\ op \in {"cardinality", "threshold"})
  /\ (RCard => rpc = "recv" /\ op \in {"cardinality", "threshold"})
  /\ (AddShares => spc = "add" /\ rpc = "add") /\ (Compare => spc = "gteq" /\ rpc = "gteq")
  /\ (SBit => spc = "bit") /\ (RBit => rpc = "bit" /\ toR # <<>>)
  /\ (SumBlock => spc = "sum" /\ rpc = "sum")
  /\ (SSum32 => spc = "send" /\ op = "sum32") /\ (RSum32 => rpc = "recv" /\ op = "sum32")
  /\ (SClear => spc = "send" /\ op = "innerProd") /\ (RClear => rpc = "recv" /\ op = "innerProd")
  /\ (RClearBack => rpc = "clear") /\ (SClearBack => spc = "clear" /\ toS # <<>>)
  /\ (RMult => rpc = "mult") /\ (SMult => spc = "share" /\ toS # <<>>) /\ (RProduct => rpc = "product" /\ toR # <<>>)
  /\ (RCard \/ RSum32 \/ RClear => toR # <<>>) /\ (Done => spc = "done" /\ rpc = "done" /\ UNCHANGED vars)
BY DEF SSetup, RSetup, BaseOts, ExpandOt, ExpandTriple, SExpanded, RExpanded, Oprf, Join, PermShare, FinalOt,
       Rot, SCard, RCard, AddShares, Compare, SBit, RBit, SumBlock, SSum32, RSum32, SClear, RClear, RClearBack, SClearBack,
       RMult, SMult, RProduct, Done

LEMMA StaysPut ==
  ASSUME UNCHANGED <<inputs, sharing>>
  PROVE  /\ UNCHANGED <<op, Y, X, dataY, dataX, threshold>>
         /\ InputInv => InputInv'
         /\ J!Common(sharing)' = J!Common(sharing)
         /\ JoinedInv => JoinedInv'
         /\ Shared' = Shared
<1>1. UNCHANGED <<op, Y, X, dataY, dataX, threshold>>
  BY DEF inputs
<1>2. J!Common(sharing)' = J!Common(sharing)
  BY <1>1 DEF J!Common, J!Has
<1>3. JoinedInv => JoinedInv'
  BY <1>1, <1>2 DEF JoinedInv
<1>4. Shared' = Shared
  BY <1>1 DEF Shared, J!Has
<1>5. InputInv => InputInv'
  BY <1>1 DEF InputInv
<1> QED BY <1>1, <1>2, <1>3, <1>4, <1>5

LEMMA ResultKept ==
  ASSUME UNCHANGED <<inputs, sharing, result>>, rpc = "done", ResultExact
  PROVE  ResultExact'
<1>1. UNCHANGED <<op, Y, X, dataY, dataX, threshold, result>> /\ Shared' = Shared
  BY StaysPut
<1>2. TotalShared(dataY)' = TotalShared(dataY)
  BY <1>1 DEF TotalShared
<1>3. TotalShared(Matched)' = TotalShared(Matched)
  BY <1>1 DEF TotalShared, Matched
<1>4. CASE op = "cardinality"
  BY <1>1, <1>4 DEF ResultExact, ShiftFits
<1>5. CASE op \in {"sumBlock", "sum32"}
  <2>1. result = Wrap(TotalShared(dataY))
    BY <1>5 DEF ResultExact
  <2> QED BY <1>1, <1>2, <1>5, <2>1 DEF ResultExact
<1>6. CASE op = "innerProd"
  <2>1. result = Wrap(TotalShared(Matched))
    BY <1>6 DEF ResultExact, Matched
  <2>2. result' = Wrap(TotalShared(Matched)')
    BY <1>1, <1>3, <2>1
  <2> QED BY <1>1, <1>6, <2>2 DEF ResultExact, Matched
<1>7. CASE op = "threshold"
  BY <1>1, <1>7 DEF ResultExact
<1>8. CASE op \notin {"cardinality", "sumBlock", "sum32", "innerProd", "threshold"}
  BY <1>1, <1>8 DEF ResultExact
<1> QED BY <1>4, <1>5, <1>6, <1>7, <1>8

LEMMA CountIs ==
  ASSUME InputInv, JoinedInv
  PROVE  /\ Cardinality(Shared) \in Nat /\ Cardinality(Shared) < NumBins
         /\ Cardinality(Shared) % CardRange = Cardinality(Shared)
<1> DEFINE f == [b \in Bins |-> IF b \in J!Common(sharing) THEN 1 ELSE 0]
<1>1. f \in [Bins -> Int] /\ \A b \in Bins : f[b] = IF b \in J!Common(sharing) THEN 1 ELSE 0
  OBVIOUS
<1> HIDE DEF f
<1>2. Cardinality(Shared) \in Nat /\ Cardinality(Shared) < NumBins
  BY <1>1, CountOfShared
<1>3. PICK c \in Nat \ {0}, k \in Nat, n \in Nat, s \in Nat :
        c = CardRange /\ k = Cardinality(Shared) /\ n = NumBins /\ s = Shifted(CardBits) /\ k < n /\ n <= s /\ s <= c
  BY <1>2, SizesAre, CpsoAssumption
<1>4. k % c = k
  BY <1>3
<1> QED BY <1>2, <1>3, <1>4

\* The share that travels is cut to its bytes.
LEMMA CutIs ==
  ASSUME NEW a \in Int
  PROVE  a % CardRange \in Int /\ Same(a % CardRange, a, CardRange)
<1>1. CardRange \in Nat \ {0}
  BY SizesAre
<1> QED BY <1>1, Remainder, SameMod

LEMMA CardSent ==
  ASSUME InputInv, JoinedInv, Pairs(NumBins)
  PROVE  /\ CardOwn % CardRange \in Int /\ CardComing(CardMsgs) \in Int
         /\ Same(CardComing(CardMsgs) + (CardOwn % CardRange), Cardinality(Shared), CardRange)
<1>1. PICK c \in Nat \ {0}, x \in Int, y \in Int, k \in Nat :
        c = CardRange /\ x = CardComing(CardMsgs) /\ y = CardOwn /\ k = Cardinality(Shared) /\ Same(x + y, k, c)
  BY SizesAre, CardSum, CountIs
<1>2. PICK z \in Int : z = y % c /\ Same(z, y, c)
  BY <1>1, CutIs
<1>3. Same(x, x, c)
  BY DEF Same
<1>4. Same(x + z, x + y, c)
  BY <1>2, <1>3, SamePlus
<1>5. Same(x + z, k, c)
  BY <1>1, <1>4 DEF Same
<1> QED BY <1>1, <1>2, <1>5

LEMMA PairsDrawn ==
  ASSUME WordDraws, NEW n \in Nat, rot' \in RotPairs(n)
  PROVE  rot' \in [0..n - 1 -> [0..1 -> Int]]
<1>1. PICK w \in Nat \ {0} : w = Words
  BY SizesAre
<1>2. rot' \in [0..n - 1 -> [0..1 -> 0..w - 1]]
  BY <1>1 DEF WordDraws
<1> QED BY <1>2

LEMMA CardStep ==
  ASSUME InputInv, JoinedInv, WordDraws, op \in {"cardinality", "threshold"}, CardStage, Next
  PROVE  CardStage' /\ UNCHANGED <<inputs, sharing>>
<1>1. PICK k \in Nat, c \in Nat \ {0} : k = Cardinality(Shared) /\ c = CardRange /\ k % c = k
  BY CountIs, SizesAre
<1>2. ASSUME UNCHANGED <<inputs, sharing>> PROVE k = Cardinality(Shared)' /\ threshold' = threshold /\ op' = op
  BY <1>1, <1>2, StaysPut
<1>3. CASE At("rot", "rot") /\ toR = <<>>
  <2>1. Rot
    BY <1>3, Guards DEF Next, At
  <2>2. /\ rot' \in RotPairs(NumBins) /\ spc' = "send" /\ rpc' = "recv" /\ toR' = toR
        /\ UNCHANGED <<inputs, sharing>>
    BY <1>3, <2>1 DEF Rot, At
  <2>3. rot' \in [0..NumBins - 1 -> [0..1 -> Int]]
    BY <2>2, PairsDrawn, CpsoAssumption
  <2> QED BY <1>3, <2>2, <2>3 DEF CardStage, At, Pairs
<1>4. CASE At("send", "recv") /\ toR = <<>> /\ Pairs(NumBins)
  <2>1. SCard
    BY <1>4, Guards DEF Next, At
  <2>2. UNCHANGED <<inputs, sharing, rot, rpc>>
    BY <2>1 DEF SCard
  <2>3. \A m : CardComing(m)' = CardComing(m)
    BY <2>2 DEF CardComing, CardPart, RFlag
  <2>4. PICK x \in Int, y \in Int :
          x = CardComing(CardMsgs) /\ y = CardOwn % CardRange /\ Same(x + y, k, c)
    BY <1>1, <1>4, CardSent
  <2>5. CASE op = "cardinality"
    <3>1. PICK m : m = [msgs |-> CardMsgs, share |-> y]
      OBVIOUS
    <3>2. toR' = <<m>> /\ spc' = "done"
      BY <1>4, <2>1, <2>4, <2>5, <3>1 DEF SCard, CardMsgs, CardOwn
    <3>3. CardComing(m.msgs)' = x /\ m.share = y
      BY <2>3, <2>4, <3>1
    <3>4. Counts(CardComing(m.msgs) + m.share)'
      BY <1>1, <1>2, <2>2, <2>4, <3>3 DEF Counts
    <3> QED BY <1>2, <1>4, <2>2, <2>5, <3>2, <3>4 DEF CardStage, At
  <2>6. CASE op = "threshold"
    <3>1. PICK m : m = [msgs |-> CardMsgs, share |-> Nothing]
      OBVIOUS
    <3>2. toR' = <<m>> /\ spc' = "add" /\ sShare' = y
      BY <1>4, <2>1, <2>4, <2>6, <3>1 DEF SCard, CardMsgs, CardOwn
    <3>3. CardComing(m.msgs)' = x
      BY <2>3, <2>4, <3>1
    <3>4. Counts(sShare + CardComing(m.msgs))'
      <4>1. y + x = x + y
        OBVIOUS
      <4> QED BY <1>1, <1>2, <2>2, <2>4, <3>2, <3>3, <4>1 DEF Counts
    <3> QED BY <1>2, <1>4, <2>2, <2>4, <2>6, <3>2, <3>3, <3>4 DEF CardStage, At
  <2> QED BY <2>2, <2>5, <2>6
<1>5. CASE /\ At("done", "recv") /\ op = "cardinality"
           /\ \E m : toR = <<m>> /\ Counts(CardComing(m.msgs) + m.share)
  <2>1. RCard
    BY <1>5, Guards DEF Next, At
  <2>2. PICK m : toR = <<m>> /\ Counts(CardComing(m.msgs) + m.share)
    BY <1>5
  <2>3. /\ UNCHANGED <<inputs, sharing, spc>> /\ rpc' = "done"
        /\ \E n \in CardModuli : result' = (CardComing(m.msgs) + m.share) % n
    BY <1>5, <2>1, <2>2 DEF RCard, CardComing
  <2>4. ShiftFits => result' = k
    BY <1>1, <2>2, <2>3, ModulusIs DEF Counts, Same
  <2>5. ResultExact'
    BY <1>2, <1>5, <2>3, <2>4 DEF ResultExact, ShiftFits
  <2> QED BY <1>5, <2>3, <2>5 DEF CardStage, At
<1>6. CASE /\ At("add", "recv") /\ op = "threshold" /\ sShare \in Int
           /\ \E m : toR = <<m>> /\ CardComing(m.msgs) \in Int /\ Counts(sShare + CardComing(m.msgs))
  <2>1. RCard
    BY <1>6, Guards DEF Next, At
  <2>2. PICK m : toR = <<m>> /\ CardComing(m.msgs) \in Int /\ Counts(sShare + CardComing(m.msgs))
    BY <1>6
  <2>3. /\ UNCHANGED <<inputs, sharing, spc, sShare>> /\ rpc' = "add" /\ toR' = <<>>
        /\ rShare' = CardComing(m.msgs) % c
    <3>1. op # "cardinality" /\ Head(toR) = m /\ Tail(toR) = <<>>
      BY <1>6, <2>2
    <3>2. UNCHANGED <<inputs, sharing, spc, sShare>> /\ toR' = Tail(toR)
      BY <2>1 DEF RCard
    <3>3. rShare' = CardComing(Head(toR).msgs) % CardRange /\ rpc' = "add"
      BY <2>1, <3>1 DEF RCard, CardComing
    <3> QED BY <1>1, <3>1, <3>2, <3>3
  <2>4. PICK x \in Int, s \in Int, y \in Int :
          x = CardComing(m.msgs) /\ s = sShare /\ Same(s + x, k, c) /\ y = x % c /\ Same(y, x, c)
    BY <1>1, <1>6, <2>2, CutIs DEF Counts
  <2>5. Same(s + y, k, c)
    <3>1. Same(s, s, c)
      BY DEF Same
    <3>2. Same(s + y, s + x, c)
      BY <2>4, <3>1, SamePlus
    <3> QED BY <2>4, <3>2 DEF Same
  <2>6. Counts(sShare + rShare)'
    BY <1>1, <1>2, <2>3, <2>4, <2>5 DEF Counts
  <2> QED BY <1>2, <1>6, <2>3, <2>4, <2>6 DEF CardStage, At
<1>7. CASE /\ At("add", "add") /\ op = "threshold" /\ toR = <<>>
           /\ sShare \in Int /\ rShare \in Int /\ Counts(sShare + rShare)
  <2>1. AddShares
    BY <1>7, Guards DEF Next, At
  <2>2. (sShare + rShare) % Shifted(CardBits) = k /\ k < Shifted(CardBits)
    <3>1. PICK b \in Nat : b = Shifted(CardBits) /\ NumBins <= b
      BY SizesAre
    <3>2. k < b
      BY <1>1, <3>1, CountIs, CpsoAssumption
    <3> QED BY <1>1, <1>7, <3>1, <3>2, SumIsCount DEF Counts
  <2>3. PICK mask \in [Places -> 0..1] :
          sAdd' = [send |-> mask, recv |-> [j \in Places |-> (mask[j] + k \div Shifted(j)) % 2]]
    BY <2>1, <2>2 DEF AddShares
  <2>4. Added' = k
    BY <1>1, <2>2, <2>3, AddedIs
  <2>5. spc' = "gteq" /\ rpc' = "gteq" /\ toR' = toR /\ UNCHANGED <<inputs, sharing>>
    BY <2>1 DEF AddShares
  <2> QED BY <1>2, <1>7, <2>4, <2>5 DEF CardStage, At
<1>12. CASE At("gteq", "gteq") /\ op = "threshold" /\ toR = <<>> /\ Added = Cardinality(Shared)
  <2>1. Compare
    BY <1>12, Guards DEF Next, At
  <2>2. PICK bit : bit = IntGteq(k, threshold % Shifted(CardBits))
    OBVIOUS
  <2>3. /\ sShare' \in 0..1 /\ rShare' = (sShare' + bit) % 2
        /\ spc' = "bit" /\ rpc' = "bit" /\ toR' = toR /\ UNCHANGED <<inputs, sharing>>
    BY <1>1, <1>12, <2>1, <2>2 DEF Compare
  <2>4. bit \in 0..1
    <3>1. PICK b \in Nat \ {0} : b = Shifted(CardBits) /\ NumBins <= b
      BY SizesAre
    <3>2. k \in 0..b - 1
      BY <1>1, <3>1, CountIs, CpsoAssumption
    <3>3. threshold % b \in 0..b - 1
      BY <3>1 DEF InputInv
    <3> QED BY <2>2, <3>1, <3>2, <3>3, CpsoAssumption
  <2>5. PICK s \in 0..1 : s = sShare'
    BY <2>3
  <2>6. rShare' = (s + bit) % 2 /\ (s + bit) % 2 \in 0..1 /\ (s + ((s + bit) % 2)) % 2 = bit
    <3>1. \A b \in 0..1 : (s + b) % 2 \in 0..1 /\ (s + ((s + b) % 2)) % 2 = b
      OBVIOUS
    <3> QED BY <2>3, <2>4, <2>5, <3>1
  <2>7. Decided'
    BY <1>2, <2>2, <2>3, <2>5, <2>6 DEF Decided
  <2> QED BY <1>2, <1>12, <2>3, <2>7 DEF CardStage, At
<1>8. ASSUME UNCHANGED <<inputs, sharing, sShare, rShare>>, Decided PROVE Decided'
  BY <1>1, <1>2, <1>8 DEF Decided
<1>9. CASE At("bit", "bit") /\ op = "threshold" /\ toR = <<>> /\ Decided
  <2>1. SBit
    BY <1>9, Guards DEF Next, At
  <2>2. spc' = "done" /\ toR' = <<sShare>> /\ UNCHANGED <<inputs, sharing, rpc, sShare, rShare>>
    BY <1>9, <2>1 DEF SBit, shares
  <2> QED BY <1>2, <1>8, <1>9, <2>2 DEF CardStage, At
<1>10. CASE At("done", "bit") /\ op = "threshold" /\ toR = <<sShare>> /\ Decided
  <2>1. RBit
    BY <1>10, Guards DEF Next, At
  <2>2. rpc' = "done" /\ result' = (rShare + sShare) % 2 /\ UNCHANGED <<inputs, sharing, spc>>
    BY <1>10, <2>1 DEF RBit
  <2>3. result' = IntGteq(k, threshold % Shifted(CardBits))
    <3>1. sShare \in 0..1 /\ rShare \in 0..1
      BY <1>10 DEF Decided
    <3>2. rShare + sShare = sShare + rShare
      BY <3>1
    <3> QED BY <1>1, <1>10, <2>2, <3>2 DEF Decided
  <2>5. ResultExact'
    BY <1>2, <1>10, <2>2, <2>3 DEF ResultExact
  <2> QED BY <1>10, <2>2, <2>5 DEF CardStage, At
<1>11. CASE At("done", "done") /\ ResultExact
  <2>1. UNCHANGED vars
    BY <1>11, Guards DEF Next, At
  <2>2. UNCHANGED <<inputs, sharing, spc, rpc, result>>
    BY <2>1 DEF vars, inputs
  <2>3. ResultExact'
    BY <1>11, <2>2, ResultKept DEF At
  <2> QED BY <1>11, <2>2, <2>3 DEF CardStage, At
<1> QED BY <1>3, <1>4, <1>5, <1>6, <1>7, <1>9, <1>10, <1>11, <1>12 DEF CardStage

LEMMA SumStep ==
  ASSUME InputInv, JoinedInv, WordDraws, op = "sumBlock", SumStage, Next
  PROVE  SumStage' /\ UNCHANGED <<inputs, sharing>>
<1>1. CASE At("sum", "sum")
  <2>1. SumBlock
    BY <1>1, Guards DEF Next, At
  <2>2. PICK r \in Randoms(NumBins) :
          result' = Wrap(Total(NumBins, [b \in Bins |-> Pair(b, RFlag(b), Masks(r)[b])]))
    BY <2>1 DEF SumBlock
  <2>3. spc' = "done" /\ rpc' = "done" /\ UNCHANGED <<inputs, sharing>>
    BY <2>1 DEF SumBlock
  <2>4. result' = Wrap(TotalShared(dataY))
    BY <2>2, SumBlockRight
  <2>5. TotalShared(dataY)' = TotalShared(dataY) /\ op' = op
    BY <2>3, StaysPut DEF TotalShared
  <2>6. ResultExact'
    BY <2>4, <2>5 DEF ResultExact
  <2> QED BY <2>3, <2>6 DEF SumStage, At
<1>2. CASE At("done", "done") /\ ResultExact
  <2>1. UNCHANGED vars
    BY <1>2, Guards DEF Next, At
  <2>2. UNCHANGED <<inputs, sharing, spc, rpc, result>>
    BY <2>1 DEF vars, inputs
  <2>3. ResultExact'
    BY <1>2, <2>2, ResultKept DEF At
  <2> QED BY <1>2, <2>2, <2>3 DEF SumStage, At
<1> QED BY <1>1, <1>2 DEF SumStage

LEMMA Sum32Step ==
  ASSUME InputInv, JoinedInv, WordDraws, op = "sum32", Sum32Stage, Next
  PROVE  Sum32Stage' /\ UNCHANGED <<inputs, sharing>>
<1>1. ASSUME UNCHANGED <<inputs, sharing>> PROVE TotalShared(dataY)' = TotalShared(dataY) /\ op' = op
  BY <1>1, StaysPut DEF TotalShared
<1>2. CASE At("rot", "rot") /\ toR = <<>>
  <2>1. Rot
    BY <1>2, Guards DEF Next, At
  <2>2. /\ rot' \in RotPairs(NumBins) /\ spc' = "send" /\ rpc' = "recv" /\ toR' = toR
        /\ UNCHANGED <<inputs, sharing>>
    BY <1>2, <2>1 DEF Rot, At
  <2>3. rot' \in [0..NumBins - 1 -> [0..1 -> Int]]
    BY <2>2, PairsDrawn, CpsoAssumption
  <2> QED BY <1>2, <2>2, <2>3 DEF Sum32Stage, At, Pairs
<1>3. CASE At("send", "recv") /\ toR = <<>> /\ Pairs(NumBins)
  <2>1. SSum32
    BY <1>3, Guards DEF Next, At
  <2>2. UNCHANGED <<inputs, sharing, rot, rpc>> /\ spc' = "done"
    BY <2>1 DEF SSum32
  <2>3. PICK r \in Randoms(NumBins) : toR' = <<Sum32Msgs(r)>>
    BY <1>3, <2>1 DEF SSum32, Sum32Msgs
  <2>4. PICK m : m = Sum32Msgs(r)
    OBVIOUS
  <2>5. Sum32Coming(m) = Wrap(TotalShared(dataY))
    BY <1>3, <2>4, Sum32Right
  <2>6. Sum32Coming(m)' = Sum32Coming(m)
    BY <2>2 DEF Sum32Coming, RFlag
  <2> QED BY <1>1, <1>3, <2>2, <2>3, <2>4, <2>5, <2>6 DEF Sum32Stage, At
<1>4. CASE At("done", "recv") /\ \E m : toR = <<m>> /\ Sum32Coming(m) = Wrap(TotalShared(dataY))
  <2>1. RSum32
    BY <1>4, Guards DEF Next, At
  <2>2. PICK m : toR = <<m>> /\ Sum32Coming(m) = Wrap(TotalShared(dataY))
    BY <1>4
  <2>3. UNCHANGED <<inputs, sharing, spc>> /\ rpc' = "done" /\ result' = Sum32Coming(m)
    BY <2>1, <2>2 DEF RSum32, Sum32Coming
  <2>4. ResultExact'
    BY <1>1, <2>2, <2>3 DEF ResultExact
  <2> QED BY <1>4, <2>3, <2>4 DEF Sum32Stage, At
<1>5. CASE At("done", "done") /\ ResultExact
  <2>1. UNCHANGED vars
    BY <1>5, Guards DEF Next, At
  <2>2. UNCHANGED <<inputs, sharing, spc, rpc, result>>
    BY <2>1 DEF vars, inputs
  <2>3. ResultExact'
    BY <1>5, <2>2, ResultKept DEF At
  <2> QED BY <1>5, <2>2, <2>3 DEF Sum32Stage, At
<1> QED BY <1>2, <1>3, <1>4, <1>5 DEF Sum32Stage

LEMMA SumsStay ==
  ASSUME UNCHANGED <<inputs, sharing>>
  PROVE  /\ Halves' = Halves /\ Mets' = Mets /\ TotalShared(Matched)' = TotalShared(Matched) /\ op' = op
         /\ ValuesInv => ValuesInv'
<1>1. UNCHANGED <<op, Y, X, dataY, dataX>> /\ J!Common(sharing)' = J!Common(sharing) /\ Shared' = Shared
  BY StaysPut
<1>2. \A b : RowIn(b)' = RowIn(b)
  BY <1>1 DEF RowIn
<1>3. \A b : Match(b)' = Match(b)
  BY <1>1, <1>2 DEF Match, RowIn
<1>4. Halves' = Halves
  BY <1>1 DEF Halves, Half
<1>5. Mets' = Mets
  BY <1>1, <1>3 DEF Mets, Met
<1>6. TotalShared(Matched)' = TotalShared(Matched)
  BY <1>1 DEF TotalShared, Matched
<1>7. ValuesInv => ValuesInv'
  BY <1>1, <1>3 DEF ValuesInv
<1> QED BY <1>1, <1>4, <1>5, <1>6, <1>7

LEMMA ClearSteps ==
  ASSUME InputInv, JoinedInv, ValuesInv, WordDraws, op = "innerProd", Next,
         \/ At("rot", "rot") /\ toR = <<>> /\ toS = <<>>
         \/ At("send", "recv") /\ toR = <<>> /\ toS = <<>> /\ Pairs(NumBins)
         \/ At("rot2", "recv") /\ toS = <<>> /\ \E m : toR = <<m>> /\ Sum2(clearS, FirstComing(m), Halves)
         \/ At("rot2", "rot2") /\ toR = <<>> /\ toS = <<>> /\ Sum2(clearS, clearR, Halves)
         \/ At("clear", "clear") /\ toR = <<>> /\ toS = <<>> /\ Sum2(clearS, clearR, Halves) /\ Pairs(NumBins)
         \/ At("clear", "rot3") /\ toR = <<>> /\ \E m : toS = <<m>> /\ Sum2(SecondComing(m), clearR, Mets)
  PROVE  ProductStage' /\ UNCHANGED <<inputs, sharing>>
<1>1. CASE At("rot", "rot") /\ toR = <<>> /\ toS = <<>>
  <2>1. Rot
    BY <1>1, Guards DEF Next, At
  <2>2. /\ rot' \in RotPairs(NumBins) /\ spc' = "send" /\ rpc' = "recv"
        /\ UNCHANGED <<inputs, sharing, toR, toS>>
    BY <1>1, <2>1 DEF Rot, At
  <2>3. rot' \in [0..NumBins - 1 -> [0..1 -> Int]]
    BY <2>2, PairsDrawn, CpsoAssumption
  <2> QED BY <1>1, <2>2, <2>3 DEF ProductStage, At, Pairs
<1>2. CASE At("send", "recv") /\ toR = <<>> /\ toS = <<>> /\ Pairs(NumBins)
  <2>1. SClear
    BY <1>2, Guards DEF Next, At
  <2>2. UNCHANGED <<inputs, sharing, rot, rpc, toS>> /\ spc' = "rot2"
    BY <2>1 DEF SClear
  <2>3. PICK r \in Randoms(NumBins) :
          /\ toR' = Append(toR, [b \in Bins |-> [c \in 0..1 |-> Cleared(b, SFlag(b), c, r[b], sharing.valR[b])]])
          /\ clearS' = [b \in Bins |-> Wrap(-r[b])]
    BY <2>1 DEF SClear
  <2>4. PICK m : m = FirstMsgs(r)
    OBVIOUS
  <2>5. toR' = <<m>>
    BY <1>2, <2>3, <2>4 DEF FirstMsgs
  <2>6. Sum2(clearS', FirstComing(m), Halves)
    <3>1. r \in [Bins -> Int]
      BY RandomsAre
    <3> QED BY <1>2, <2>3, <2>4, <3>1, FirstClears
  <2>7. FirstComing(m)' = FirstComing(m) /\ Halves' = Halves
    BY <2>2, SumsStay DEF FirstComing, RFlag
  <2>8. Sum2(clearS, FirstComing(m), Halves)'
    BY <2>6, <2>7 DEF Sum2
  <2> QED BY <1>2, <2>2, <2>5, <2>8 DEF ProductStage, At
<1>3. CASE At("rot2", "recv") /\ toS = <<>> /\ \E m : toR = <<m>> /\ Sum2(clearS, FirstComing(m), Halves)
  <2>1. RClear
    BY <1>3, Guards DEF Next, At
  <2>2. PICK m : toR = <<m>> /\ Sum2(clearS, FirstComing(m), Halves)
    BY <1>3
  <2>3. /\ UNCHANGED <<inputs, sharing, spc, toS, clearS>> /\ rpc' = "rot2" /\ toR' = <<>>
        /\ clearR' = FirstComing(m)
    <3>1. Head(toR) = m /\ Tail(toR) = <<>>
      BY <2>2
    <3>2. UNCHANGED <<inputs, sharing, spc, toS, clearS>> /\ rpc' = "rot2" /\ toR' = Tail(toR)
      BY <2>1 DEF RClear
    <3>3. clearR' = FirstComing(Head(toR))
      BY <2>1 DEF RClear, FirstComing
    <3> QED BY <3>1, <3>2, <3>3
  <2>4. Sum2(clearS, clearR, Halves)'
    BY <2>2, <2>3, SumsStay DEF Sum2
  <2> QED BY <1>3, <2>3, <2>4 DEF ProductStage, At
<1>4. CASE At("rot2", "rot2") /\ toR = <<>> /\ toS = <<>> /\ Sum2(clearS, clearR, Halves)
  <2>1. Rot
    BY <1>4, Guards DEF Next, At
  <2>2. /\ rot' \in RotPairs(NumBins) /\ spc' = "clear" /\ rpc' = "clear"
        /\ UNCHANGED <<inputs, sharing, toR, toS, clearS, clearR>>
    BY <1>4, <2>1 DEF Rot, At, shares
  <2>3. rot' \in [0..NumBins - 1 -> [0..1 -> Int]]
    BY <2>2, PairsDrawn, CpsoAssumption
  <2>4. Sum2(clearS, clearR, Halves)'
    BY <1>4, <2>2, SumsStay DEF Sum2
  <2> QED BY <1>4, <2>2, <2>3, <2>4 DEF ProductStage, At, Pairs
<1>5. CASE At("clear", "clear") /\ toR = <<>> /\ toS = <<>> /\ Sum2(clearS, clearR, Halves) /\ Pairs(NumBins)
  <2>1. RClearBack
    BY <1>5, Guards DEF Next, At
  <2>2. UNCHANGED <<inputs, sharing, rot, spc, toR, clearS>> /\ rpc' = "rot3"
    BY <2>1 DEF RClearBack
  <2>3. PICK r \in Randoms(NumBins) :
          /\ toS' = Append(toS, [b \in Bins |-> [c \in 0..1 |-> Cleared(b, RFlag(b), c, r[b], sharing.valS[b])]])
          /\ clearR' = [b \in Bins |-> Wrap(clearR[b] - r[b])]
    BY <2>1 DEF RClearBack
  <2>4. PICK m : m = SecondMsgs(r)
    OBVIOUS
  <2>5. toS' = <<m>>
    BY <1>5, <2>3, <2>4 DEF SecondMsgs
  <2>6. Sum2(SecondComing(m), clearR', Mets)
    <3>1. r \in [Bins -> Int] /\ \A b \in Bins : Met(b) \in Int
      BY RandomsAre, NumbersAre
    <3> QED BY <1>5, <2>3, <2>4, <3>1, SecondClears
  <2>7. SecondComing(m)' = SecondComing(m) /\ Mets' = Mets
    BY <2>2, SumsStay DEF SecondComing, SFlag
  <2>8. Sum2(SecondComing(m), clearR, Mets)'
    BY <2>6, <2>7 DEF Sum2
  <2> QED BY <1>5, <2>2, <2>5, <2>8 DEF ProductStage, At
<1>6. CASE At("clear", "rot3") /\ toR = <<>> /\ \E m : toS = <<m>> /\ Sum2(SecondComing(m), clearR, Mets)
  <2>1. SClearBack
    BY <1>6, Guards DEF Next, At
  <2>2. PICK m : toS = <<m>> /\ Sum2(SecondComing(m), clearR, Mets)
    BY <1>6
  <2>3. /\ UNCHANGED <<inputs, sharing, rpc, toR, clearR>> /\ spc' = "rot3" /\ toS' = <<>>
        /\ clearS' = SecondComing(m)
    <3>1. Head(toS) = m /\ Tail(toS) = <<>>
      BY <2>2
    <3>2. UNCHANGED <<inputs, sharing, rpc, toR, clearR>> /\ spc' = "rot3" /\ toS' = Tail(toS)
      BY <2>1 DEF SClearBack
    <3>3. clearS' = SecondComing(Head(toS))
      BY <2>1 DEF SClearBack, SecondComing
    <3> QED BY <3>1, <3>2, <3>3
  <2>4. Sum2(clearS, clearR, Mets)'
    BY <2>2, <2>3, SumsStay DEF Sum2
  <2> QED BY <1>6, <2>3, <2>4 DEF ProductStage, At
<1> QED BY <1>1, <1>2, <1>3, <1>4, <1>5, <1>6

LEMMA MultSteps ==
  ASSUME InputInv, JoinedInv, ValuesInv, WordDraws, op = "innerProd", Next,
         \/ At("rot3", "rot3") /\ toR = <<>> /\ toS = <<>> /\ Sum2(clearS, clearR, Mets)
         \/ At("share", "mult") /\ toR = <<>> /\ toS = <<>> /\ Sum2(clearS, clearR, Mets) /\ Pairs(NumBins * WordBits)
         \/ /\ At("share", "product") /\ toR = <<>> /\ rShare \in Int
            /\ \E m : toS = <<m>> /\ ShareComing(m) \in Int /\ Same(rShare + ShareComing(m), TotalShared(Matched), Words)
         \/ /\ At("done", "product") /\ rShare \in Int
            /\ \E m \in Int : toR = <<m>> /\ Same(rShare + m, TotalShared(Matched), Words)
         \/ At("done", "done") /\ ResultExact
  PROVE  ProductStage' /\ UNCHANGED <<inputs, sharing>>
<1>1. CASE At("rot3", "rot3") /\ toR = <<>> /\ toS = <<>> /\ Sum2(clearS, clearR, Mets)
  <2>1. Rot
    BY <1>1, Guards DEF Next, At
  <2>2. /\ rot' \in RotPairs(NumBins * WordBits) /\ spc' = "share" /\ rpc' = "mult"
        /\ UNCHANGED <<inputs, sharing, toR, toS, clearS, clearR>>
    BY <1>1, <2>1 DEF Rot, At, shares
  <2>3. rot' \in [0..NumBins * WordBits - 1 -> [0..1 -> Int]]
    <3>1. PICK n \in Nat : n = NumBins * WordBits
      <4>1. NumBins \in Nat /\ WordBits \in Nat
        BY CpsoAssumption
      <4> QED BY <4>1
    <3> QED BY <2>2, <3>1, PairsDrawn
  <2>4. Sum2(clearS, clearR, Mets)'
    BY <1>1, <2>2, SumsStay DEF Sum2
  <2> QED BY <1>1, <2>2, <2>3, <2>4 DEF ProductStage, At, Pairs
<1>2. CASE At("share", "mult") /\ toR = <<>> /\ toS = <<>> /\ Sum2(clearS, clearR, Mets) /\ Pairs(NumBins * WordBits)
  <2>1. RMult
    BY <1>2, Guards DEF Next, At
  <2>2. /\ UNCHANGED <<inputs, sharing, rot, spc, toR, clearS, clearR>> /\ rpc' = "product"
        /\ rShare' = MultOwn
    BY <2>1 DEF RMult, MultOwn
  <2>3. PICK m : m = MultMsgs
    OBVIOUS
  <2>4. toS' = <<m>>
    BY <1>2, <2>1, <2>3 DEF RMult, MultMsgs
  <2>5. ShareComing(m)' = ShareComing(m)
    <3>1. \A b : Number(b)' = Number(b)
      BY <2>2, StaysPut DEF Number, Mapped, RowIn
    <3>2. \A b, j : Bit(b, j)' = Bit(b, j)
      BY <3>1 DEF Bit
    <3>3. Chosen(m)' = Chosen(m)
      BY <2>2, <3>2 DEF Chosen
    <3> QED BY <2>2, <3>1, <3>3 DEF ShareComing
  <2>6. TotalShared(Matched)' = TotalShared(Matched)
    BY <2>2, SumsStay
  <2>7. /\ MultOwn \in Int /\ ShareComing(m) \in Int
        /\ Same(MultOwn + ShareComing(m), TotalShared(Matched), Words)
    BY <1>2, <2>3, ProductIs
  <2>8. Same(rShare + ShareComing(m), TotalShared(Matched), Words)'
    BY <2>2, <2>5, <2>6, <2>7
  <2> QED BY <1>2, <2>2, <2>4, <2>5, <2>7, <2>8 DEF ProductStage, At
<1>3. CASE /\ At("share", "product") /\ toR = <<>> /\ rShare \in Int
           /\ \E m : toS = <<m>> /\ ShareComing(m) \in Int /\ Same(rShare + ShareComing(m), TotalShared(Matched), Words)
  <2>1. SMult
    BY <1>3, Guards DEF Next, At
  <2>2. PICK m : toS = <<m>> /\ ShareComing(m) \in Int /\ Same(rShare + ShareComing(m), TotalShared(Matched), Words)
    BY <1>3
  <2>3. PICK v \in Int : v = ShareComing(m)
    BY <2>2
  <2>4. UNCHANGED <<inputs, sharing, rpc, rShare>> /\ spc' = "done" /\ toR' = <<v>>
    <3>1. Head(toS) = m
      BY <2>2
    <3>2. UNCHANGED <<inputs, sharing, rpc, rShare>> /\ spc' = "done"
      BY <2>1 DEF SMult
    <3>3. toR' = Append(toR, ShareComing(Head(toS)))
      BY <2>1 DEF SMult, ShareComing, Chosen
    <3> QED BY <1>3, <2>3, <3>1, <3>2, <3>3
  <2>5. Same(rShare + v, TotalShared(Matched), Words)'
    BY <2>2, <2>3, <2>4, SumsStay
  <2> QED BY <1>3, <2>4, <2>5 DEF ProductStage, At
<1>4. CASE /\ At("done", "product") /\ rShare \in Int
           /\ \E m \in Int : toR = <<m>> /\ Same(rShare + m, TotalShared(Matched), Words)
  <2>1. RProduct
    BY <1>4, Guards DEF Next, At
  <2>2. PICK m \in Int : toR = <<m>> /\ Same(rShare + m, TotalShared(Matched), Words)
    BY <1>4
  <2>3. UNCHANGED <<inputs, sharing, spc>> /\ rpc' = "done" /\ result' = Wrap(rShare + m)
    BY <2>1, <2>2 DEF RProduct
  <2>4. result' = Wrap(TotalShared(Matched))
    BY <2>2, <2>3 DEF Same, Wrap
  <2>5. UNCHANGED <<op, Y, X, dataY, dataX>> /\ TotalShared(Matched)' = TotalShared(Matched)
    BY <2>3, SumsStay, StaysPut
  <2>6. result' = Wrap(TotalShared(Matched)')
    BY <2>4, <2>5
  <2>7. ResultExact'
    BY <2>5, <2>6 DEF ResultExact, Matched
  <2> QED BY <1>4, <2>3, <2>7 DEF ProductStage, At
<1>5. CASE At("done", "done") /\ ResultExact
  <2>1. UNCHANGED vars
    BY <1>5, Guards DEF Next, At
  <2>2. UNCHANGED <<inputs, sharing, spc, rpc, result>>
    BY <2>1 DEF vars, inputs
  <2>3. ResultExact'
    BY <1>5, <2>2, ResultKept DEF At
  <2> QED BY <1>5, <2>2, <2>3 DEF ProductStage, At
<1> QED BY <1>1, <1>2, <1>3, <1>4, <1>5

\* The join of the inner product shares the values as well.
LEMMA ValuesShared ==
  ASSUME InputInv, op = "innerProd", WordDraws,
         NEW mapping \in [DOMAIN Y -> Bins], NEW flags \in FlagShares, NEW masks \in Randoms(NumBins),
         J!Injective(mapping), sharing' = Cpsi(mapping, flags, [b \in Bins |-> masks[b]]), UNCHANGED inputs
  PROVE  ValuesInv'
<1>1. PICK w \in Nat \ {0} : w = Words
  BY SizesAre
<1>2. masks \in [Bins -> Int]
  BY RandomsAre
<1>3. UNCHANGED <<op, Y, X, dataX>>
  BY DEF inputs
<1>4. PICK common : common = J!Common([mapping |-> mapping])
  OBVIOUS
<1>5. JoinedInv'
  BY <1>3, JoinGives
<1>6. J!Common(sharing)' = common /\ common = {mapping[i] : i \in {k \in DOMAIN Y : J!Has(X, Y[k])}}
  <2>1. common = {mapping[i] : i \in {k \in DOMAIN Y : J!Has(X, Y[k])}}
    BY <1>4 DEF J!Common
  <2>2. J!Common(sharing)' = {sharing'.mapping[i] : i \in {k \in DOMAIN Y : J!Has(X, Y[k])}}
    BY <1>3 DEF J!Common, J!Has
  <2>3. sharing'.mapping = mapping
    BY DEF Cpsi
  <2> QED BY <2>1, <2>2, <2>3
<1> DEFINE RowAt(b) == CHOOSE i \in DOMAIN Y : mapping[i] = b
           Number0(b) == dataX[J!RowOf(X, Y[RowAt(b)])]
<1>7. sharing'.mapping = mapping /\ sharing'.valS = [b \in Bins |-> masks[b]]
  BY DEF Cpsi
<1>8. sharing'.valR = [b \in Bins |-> IF b \in common THEN Wrap(Number0(b) - masks[b]) ELSE masks[b]]
  BY <1>4 DEF Cpsi
<1>9. ASSUME NEW b \in common PROVE b \in Bins /\ Number0(b) \in Int /\ Match(b)' = Number0(b)
  <2>1. PICK i \in DOMAIN Y : mapping[i] = b /\ J!Has(X, Y[i])
    BY <1>6
  <2>2. \A k \in DOMAIN Y : mapping[k] = b => k = i
    BY <2>1 DEF J!Injective
  <2>3. RowAt(b) = i
    BY <2>1, <2>2
  <2>4. J!RowOf(X, Y[i]) \in DOMAIN X
    BY <2>1 DEF J!Has, J!RowOf
  <2>5. dataX[J!RowOf(X, Y[i])] \in Int
    <3>1. dataX \in [DOMAIN X -> 0..w - 1]
      BY <1>1, RowsAre DEF InputInv
    <3> QED BY <2>4, <3>1
  <2>6. RowIn(b)' = RowAt(b)
    BY <1>3, <1>7 DEF RowIn
  <2>7. Match(b)' = Number0(b)
    BY <1>3, <2>6 DEF Match
  <2> QED BY <2>1, <2>3, <2>5, <2>7
<1> HIDE DEF RowAt, Number0
<1>10. ASSUME NEW b \in Bins
       PROVE  /\ sharing'.valS[b] \in Int /\ sharing'.valR[b] \in Int
              /\ b \in common => Same(sharing'.valS[b] + sharing'.valR[b], Match(b)', w)
  <2>1. PICK m \in Int : m = masks[b] /\ m = sharing'.valS[b]
    BY <1>2, <1>7
  <2>2. CASE b \notin common
    BY <1>8, <2>1, <2>2
  <2>3. CASE b \in common
    <3>1. PICK n \in Int, x \in Int : n = Number0(b) /\ n = Match(b)' /\ x = n - m
      BY <1>9, <2>3
    <3>2. PICK v \in 0..w - 1 : v = Wrap(x) /\ Same(v, x, w)
      BY <1>1, WrapIs
    <3>3. v \in Int /\ sharing'.valR[b] = v
      <4>1. sharing'.valR[b] = Wrap(Number0(b) - masks[b])
        BY <1>8, <2>3
      <4>2. Number0(b) - masks[b] = x
        BY <2>1, <3>1
      <4> QED BY <3>2, <4>1, <4>2
    <3>4. Same(m, m, w)
      BY DEF Same
    <3>5. Same(m + v, m + x, w)
      BY <3>2, <3>3, <3>4, SamePlus
    <3>6. m + x = n
      BY <3>1
    <3> QED BY <2>1, <3>1, <3>3, <3>5, <3>6
  <2> QED BY <2>2, <2>3
<1>11. sharing'.valS \in [Bins -> Int] /\ sharing'.valR \in [Bins -> Int]
  BY <1>7, <1>8, <1>10
<1>12. \A b \in J!Common(sharing)' : Same(sharing'.valS[b] + sharing'.valR[b], Match(b)', Words)
  BY <1>1, <1>6, <1>9, <1>10
<1> QED BY <1>11, <1>12 DEF ValuesInv

LEMMA ResultInit == ASSUME WordDraws PROVE Init => ResultInv
<1> SUFFICES ASSUME Init PROVE ResultInv
  OBVIOUS
<1>1. /\ Y \in SendSets /\ X \in RecvSets /\ Len(X) = Len(Y) /\ dataY \in DataOf(Len(Y)) /\ dataX \in DataOf(Len(X))
      /\ threshold \in (IF op = "threshold" THEN Thresholds ELSE {0})
      /\ spc = (IF mSetup THEN "setup" ELSE First) /\ rpc = spc /\ toS = <<>> /\ toR = <<>>
  BY DEF Init
<1>2. Y \in Seq(Range(Y))
  BY <1>1, CpsoAssumption
<1>3. PICK n \in Nat : n = Len(Y) /\ n = Len(X)
  BY <1>1, <1>2
<1>4. dataY \in [1..n -> 0..Words - 1] /\ dataX \in [1..n -> 0..Words - 1]
  BY <1>1, <1>3 DEF WordDraws
<1>5. threshold \in Nat
  BY <1>1, CpsoAssumption
<1>6. op \in Results => Before
  BY <1>1 DEF Before, First, Early, Results
<1> QED BY <1>1, <1>3, <1>4, <1>5, <1>6 DEF ResultInv, InputInv

\* Nothing touches the inputs.
LEMMA InputsKept == ASSUME Next PROVE UNCHANGED inputs
<1>1. ASSUME SSetup \/ RSetup \/ BaseOts \/ ExpandOt \/ ExpandTriple \/ SExpanded \/ RExpanded PROVE UNCHANGED inputs
  BY <1>1 DEF SSetup, RSetup, BaseOts, ExpandOt, ExpandTriple, SExpanded, RExpanded
<1>2. ASSUME Oprf \/ Join \/ PermShare \/ FinalOt \/ Rot PROVE UNCHANGED inputs
  BY <1>2 DEF Oprf, Join, PermShare, FinalOt, Rot
<1>3. ASSUME SCard \/ RCard \/ AddShares \/ Compare \/ SBit \/ RBit \/ SumBlock \/ SSum32 \/ RSum32 PROVE UNCHANGED inputs
  BY <1>3 DEF SCard, RCard, AddShares, Compare, SBit, RBit, SumBlock, SSum32, RSum32
<1>4. ASSUME SClear \/ RClear \/ RClearBack \/ SClearBack \/ RMult \/ SMult \/ RProduct PROVE UNCHANGED inputs
  BY <1>4 DEF SClear, RClear, RClearBack, SClearBack, RMult, SMult, RProduct
<1>5. ASSUME Done PROVE UNCHANGED inputs
  BY <1>5 DEF Done, vars, inputs
<1> QED BY <1>1, <1>2, <1>3, <1>4, <1>5 DEF Next

LEMMA InputStep == ASSUME InputInv, UNCHANGED inputs PROVE InputInv'
BY DEF InputInv, inputs

LEMMA BeforeStep ==
  ASSUME InputInv, WordDraws, op \in Results, Before, Next
  PROVE  Before' \/ (JoinedInv /\ Stage)'
<1>1. First = "join"
  BY DEF First, Results
<1>2. CASE SSetup \/ RSetup \/ BaseOts \/ ExpandOt \/ ExpandTriple
  <2>1. UNCHANGED <<toS, toR>>
    BY <1>2 DEF SSetup, RSetup, BaseOts, ExpandOt, ExpandTriple
  <2>2. /\ spc' = spc \/ (spc \in Early /\ spc' \in Early)
        /\ rpc' = rpc \/ (rpc \in Early /\ rpc' \in Early)
    BY <1>2 DEF SSetup, RSetup, BaseOts, ExpandOt, ExpandTriple, Early
  <2>3. Before'
    BY <2>1, <2>2 DEF Before, Early
  <2> QED BY <2>3
<1>3. CASE SExpanded
  <2>1. /\ spc \in Early /\ toR = <<>> /\ rpc # "join" /\ rpc' = rpc /\ toS' = toS
        /\ \/ spc' = "triples" /\ toR' = toR
           \/ spc' = "join" /\ toR' = <<"end">>
    BY <1>1, <1>3 DEF SExpanded, Before, Early
  <2>2. Before'
    BY <2>1 DEF Before, Early
  <2> QED BY <2>2
<1>4. CASE RExpanded
  <2>1. /\ rpc \in Early /\ spc' = spc /\ toS' = toS
        /\ \/ rpc' = "triples" /\ toR' = toR
           \/ rpc' = "join" /\ toR # <<>> /\ toR' = Tail(toR)
    BY <1>1, <1>4 DEF RExpanded, Early
  <2>2. toR # <<>> => spc = "join" /\ toR = <<"end">> /\ Tail(toR) = <<>>
    BY DEF Before
  <2>3. Before'
    BY <2>1, <2>2 DEF Before, Early
  <2> QED BY <2>3
<1>5. CASE Join
  <2>1. PICK mapping \in [DOMAIN Y -> Bins], flags \in FlagShares, masks \in Randoms(NumBins) :
          J!Injective(mapping) /\ sharing' = Cpsi(mapping, flags, [b \in Bins |-> masks[b]])
    BY <1>5 DEF Join
  <2>2. /\ spc' = AfterJoin /\ rpc' = AfterJoin /\ UNCHANGED <<inputs, toS, toR>>
        /\ spc = "join" /\ rpc = "join"
    BY <1>5 DEF Join
  <2>3. UNCHANGED <<op, Y, X>> /\ toS' = <<>> /\ toR' = <<>>
    BY <2>2 DEF Before, inputs
  <2>4. JoinedInv'
    BY <2>1, <2>3, JoinGives
  <2>5. op = "innerProd" => ValuesInv'
    BY <2>1, <2>2, ValuesShared
  <2>6. AfterJoin = IF op = "sumBlock" THEN "sum" ELSE "rot"
    BY DEF AfterJoin, Results
  <2>7. spc' = (IF op = "sumBlock" THEN "sum" ELSE "rot") /\ rpc' = spc'
    BY <2>2, <2>6
  <2>8. Stage'
    BY <2>3, <2>5, <2>7 DEF Stage, Results, CardStage, SumStage, Sum32Stage, ProductStage, At
  <2> QED BY <2>4, <2>8
<1>6. spc \in Early \cup {"join"} /\ rpc \in Early \cup {"join"}
  BY DEF Before
<1> QED BY <1>2, <1>3, <1>4, <1>5, <1>6, Guards DEF Next, Early

\* A step that leaves everything alone leaves the stage.
LEMMA StageStays ==
  ASSUME UNCHANGED vars, Stage
  PROVE  Stage'
<1>1. /\ UNCHANGED <<spc, rpc, toS, toR, rot, sAdd, sShare, rShare, clearS, clearR, threshold, op, Y, X, dataY, dataX, sharing>>
      /\ UNCHANGED <<inputs, sharing>> /\ UNCHANGED <<inputs, sharing, result>>
  BY DEF vars, inputs
<1>2. /\ Shared' = Shared /\ Halves' = Halves /\ Mets' = Mets /\ TotalShared(Matched)' = TotalShared(Matched)
      /\ ValuesInv => ValuesInv'
  BY <1>1, StaysPut, SumsStay
<1>3. TotalShared(dataY)' = TotalShared(dataY)
  BY <1>1, <1>2 DEF TotalShared
<1>4. ASSUME At("done", "done") /\ ResultExact PROVE ResultExact'
  BY <1>1, <1>4, ResultKept DEF At
<1>5. \A m : CardComing(m)' = CardComing(m)
  BY <1>1 DEF CardComing, CardPart, RFlag
<1>6. \A m : Sum32Coming(m)' = Sum32Coming(m)
  BY <1>1 DEF Sum32Coming, RFlag
<1>7. \A m : FirstComing(m)' = FirstComing(m) /\ SecondComing(m)' = SecondComing(m)
  BY <1>1 DEF FirstComing, SecondComing, RFlag, SFlag
<1>8. \A m : ShareComing(m)' = ShareComing(m)
  <2>1. \A b : Number(b)' = Number(b)
    BY <1>1 DEF Number, Mapped, RowIn
  <2>2. \A b, j : Bit(b, j)' = Bit(b, j)
    BY <2>1 DEF Bit
  <2>3. \A m : Chosen(m)' = Chosen(m)
    BY <1>1, <2>2 DEF Chosen
  <2> QED BY <1>1, <2>1, <2>3 DEF ShareComing
<1>9. Decided => Decided'
  BY <1>1, <1>2 DEF Decided
<1>10. \A x : Counts(x)' <=> Counts(x)
  BY <1>2 DEF Counts
<1>11. \A f, g, h : Sum2(f, g, h)' <=> Sum2(f, g, h)
  BY DEF Sum2
<1>12. \A n : Pairs(n)' <=> Pairs(n)
  BY <1>1 DEF Pairs
<1>13. CardStage => CardStage'
  BY <1>1, <1>2, <1>4, <1>5, <1>9, <1>10, <1>12 DEF CardStage, At, Added
<1>14. SumStage => SumStage'
  BY <1>1, <1>4 DEF SumStage, At
<1>15. Sum32Stage => Sum32Stage'
  BY <1>1, <1>3, <1>4, <1>6, <1>12 DEF Sum32Stage, At
<1>16. ProductStage => ProductStage'
  BY <1>1, <1>2, <1>4, <1>7, <1>8, <1>12 DEF ProductStage, At, Sum2
<1> QED BY <1>1, <1>2, <1>13, <1>14, <1>15, <1>16 DEF Stage

LEMMA ResultStep ==
  ASSUME ResultInv, WordDraws, [Next]_vars
  PROVE  ResultInv'
<1>1. CASE UNCHANGED vars
  <2>1. UNCHANGED <<spc, rpc, toS, toR, op>> /\ UNCHANGED <<inputs, sharing>>
    BY <1>1 DEF vars, inputs
  <2>2. InputInv' /\ (JoinedInv => JoinedInv')
    BY <2>1, StaysPut DEF ResultInv
  <2>3. Before => Before'
    BY <2>1 DEF Before
  <2> QED BY <1>1, <2>1, <2>2, <2>3, StageStays DEF ResultInv
<1>2. CASE Next
  <2>1. UNCHANGED inputs /\ InputInv /\ InputInv' /\ op' = op
    BY <1>2, InputsKept, InputStep DEF ResultInv, inputs
  <2>2. CASE op \in Results /\ Before
    BY <1>2, <2>1, <2>2, BeforeStep DEF ResultInv
  <2>3. CASE op \in Results /\ JoinedInv /\ Stage
    <3>1. CASE op \in {"cardinality", "threshold"}
      <4>1. CardStage
        BY <2>3, <3>1 DEF Stage
      <4>2. CardStage' /\ UNCHANGED <<inputs, sharing>>
        BY <1>2, <2>1, <2>3, <3>1, <4>1, CardStep
      <4> QED BY <2>1, <2>3, <3>1, <4>2, StaysPut DEF ResultInv, Stage
    <3>2. CASE op = "sumBlock"
      <4>1. SumStage
        BY <2>3, <3>2 DEF Stage
      <4>2. SumStage' /\ UNCHANGED <<inputs, sharing>>
        BY <1>2, <2>1, <2>3, <3>2, <4>1, SumStep
      <4> QED BY <2>1, <2>3, <3>2, <4>2, StaysPut DEF ResultInv, Stage
    <3>3. CASE op = "sum32"
      <4>1. Sum32Stage
        BY <2>3, <3>3 DEF Stage
      <4>2. Sum32Stage' /\ UNCHANGED <<inputs, sharing>>
        BY <1>2, <2>1, <2>3, <3>3, <4>1, Sum32Step
      <4> QED BY <2>1, <2>3, <3>3, <4>2, StaysPut DEF ResultInv, Stage
    <3>4. CASE op = "innerProd"
      <4>1. ProductStage /\ ValuesInv
        BY <2>3, <3>4 DEF Stage
      <4>2. ProductStage' /\ UNCHANGED <<inputs, sharing>>
        BY <1>2, <2>1, <2>3, <3>4, <4>1, ClearSteps, MultSteps DEF ProductStage
      <4> QED BY <2>1, <2>3, <3>4, <4>1, <4>2, StaysPut, SumsStay DEF ResultInv, Stage
    <3> QED BY <2>3, <3>1, <3>2, <3>3, <3>4 DEF Results
  <2> QED BY <2>1, <2>2, <2>3 DEF ResultInv
<1> QED BY <1>1, <1>2

LEMMA ResultEnds == ResultInv => ResultExact
<1> SUFFICES ASSUME ResultInv, rpc = "done" PROVE ResultExact
  BY DEF ResultExact
<1>1. CASE op \in Results
  <2>1. ~Before
    BY DEF Before, Early
  <2> QED BY <1>1, <2>1 DEF ResultInv, Stage, CardStage, SumStage, Sum32Stage, ProductStage, At
<1>2. CASE op \notin Results
  BY <1>2 DEF ResultExact, Results
<1> QED BY <1>1, <1>2

\* For every number of bins, every width of the numbers and every pair of
\* sets and data, and whatever random OTs, masks, flags and mappings are
\* drawn: the receiver's sum and inner product are those of the plain sets; so is the
\* cardinality, as long as the shift of its modulus fits an int; and what the
\* threshold's comparison is given, whatever it is, is the cardinality and the
\* threshold's low bits (Cpso.cpp).
THEOREM ResultExactHolds == ASSUME WordDraws PROVE Spec => []ResultExact
<1>1. Init => ResultInv
  BY ResultInit
<1>2. ResultInv /\ [Next]_vars => ResultInv'
  BY ResultStep
<1>3. ResultInv => ResultExact
  BY ResultEnds
<1> QED BY <1>1, <1>2, <1>3, PTL DEF Spec
=============================================================================
