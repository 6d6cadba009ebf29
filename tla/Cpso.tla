-------------------------------- MODULE Cpso --------------------------------
(***************************************************************************)
(* Private set operations on circuit PSI (Cpso.cpp): union, cardinality,   *)
(* sum, threshold and inner product, with or without the offline setup of  *)
(* Cpso.h.  The sender has Y and plays the receiver of circuit PSI (module *)
(* Join); the receiver has X, plays its sender, and gets the result.       *)
(*                                                                         *)
(* Circuit PSI, permute and share, random OT, and each of the two circuits *)
(* of the threshold are joint steps.  Numbers are 0..Words - 1 and wrap.   *)
(***************************************************************************)
EXTENDS OteGen, FiniteSets

CONSTANTS NumBins,
          Caps,             \* the largest batch (1 << 25)
          WordBits,         \* of the numbers (32; those of 64 bits behave alike)
          ByteBits,
          IntBits,          \* of an int (32)
          IntGteq(_, _),    \* int_int_gteq of two numbers of CardBits bits
          Ops,              \* the operations to run
          SendSets, RecvSets, DataOf(_), Thresholds,
          Randoms(_),       \* what the prng may give for so many numbers
          Transcripts(_, _),\* what the OTs of a batch, so many, may give: m[0], m[1] and c of each
          RotPairs(_),      \* what so many random OTs may give: pairs of numbers
          FlagShares,       \* a side's flags from circuit PSI
          Perms,            \* the sender's permutations
          Nothing

Bins == 0..NumBins - 1
Words == Shifted(WordBits)
\* cardBitLength; cardByteLength in bits, and the numbers these hold.
CardBits == Log2Ceil(NumBins)
CardShift == ByteBits * DivCeil(CardBits, ByteBits)
CardRange == Shifted(CardShift)
\* 1 << (cardByteLength * 8) is shifted in an int: undefined where the count is not
\* below its width.  The build takes the count modulo the width, or shifts in
\* a wider register.
ShiftFits == CardShift < IntBits
CardModuli == {CardRange, Shifted(CardShift % IntBits)}
ASSUME CpsoAssumption ==
  /\ \A p \in Perms : p \in [Bins -> Bins] /\ Range(p) = Bins
  /\ Words % CardRange = 0
  /\ \A set \in SendSets \cup RecvSets :
       /\ set \in Seq(Range(set)) /\ Len(set) < NumBins /\ IsInjective(set) /\ Nothing \notin Range(set)
  /\ FlagShares \subseteq [Bins -> 0..1] /\ Thresholds \subseteq Nat
  /\ NumBins \in Nat /\ NumBins > 1
  /\ WordBits \in Nat \ {0} /\ ByteBits \in Nat \ {0} /\ IntBits \in Nat \ {0}
  /\ \A a, b \in 0..Shifted(CardBits) - 1 : IntGteq(a, b) \in 0..1

VARIABLES
  op, Y, X, dataY, dataX, threshold, cap,
  mSetup,
  spc, rpc,      \* where each side is
  sPlan, rPlan,  \* the batches each side's generator is set to
  got,           \* batches of OTs and of triples made
  sTriples, rTriples, \* mMult and mAdd of each side
  sharing,       \* both Sharing structures
  perm,          \* the sender's permutation
  rot,           \* the pairs of the last random OT
  sAdd,          \* both sides' shares of the adder's bits
  sShare, rShare,\* each side's share: of the cardinality, the product, or psShare
  clearS, clearR,\* clearShares
  toS, toR,
  result

vars == <<op, Y, X, dataY, dataX, threshold, cap, mSetup, spc, rpc, sPlan, rPlan, got, sTriples, rTriples,
          sharing, perm, rot, sAdd, sShare, rShare, clearS, clearR, toS, toR, result>>
inputs == <<op, Y, X, dataY, dataX, threshold, cap, mSetup>>
offline == <<sPlan, rPlan, got, sTriples, rTriples>>
shares == <<sShare, rShare, clearS, clearR>>

Wrap(x) == x % Words
\* f[0] + ... + f[n - 1], as the loops add it up.
Total(n, f) == LET t[k \in 0..n] == IF k = 0 THEN 0 ELSE t[k - 1] + f[k - 1] IN t[n]
AddWords(t, a, b) == Wrap(a + b)
J == INSTANCE Join WITH X <- Y, Y <- X, vals <- IF op = "innerProd" THEN dataX ELSE Nothing,
                        type <- "add32", Combine <- AddWords

NoBits == [mult |-> <<>>, add |-> <<>>]
First == IF op = "union" THEN "oprf" ELSE "join"
Init ==
  /\ op \in Ops /\ Y \in SendSets /\ X \in RecvSets
  /\ Len(X) = Len(Y)  \* or circuit PSI throws, on both sides
  /\ dataY \in DataOf(Len(Y)) /\ dataX \in DataOf(Len(X))
  /\ threshold \in IF op = "threshold" THEN Thresholds ELSE {0}
  /\ mSetup \in BOOLEAN /\ cap \in IF mSetup THEN Caps ELSE {Nothing}
  /\ spc = (IF mSetup THEN "setup" ELSE First) /\ rpc = spc
  /\ sPlan = Nothing /\ rPlan = Nothing /\ got = [ots |-> 0, triples |-> 0]
  /\ sTriples = NoBits /\ rTriples = NoBits
  /\ sharing = Nothing /\ perm = Nothing /\ rot = Nothing /\ sAdd = Nothing
  /\ sShare = Nothing /\ rShare = Nothing /\ clearS = Nothing /\ clearR = Nothing
  /\ toS = <<>> /\ toR = <<>> /\ result = Nothing

(***************************************************************************)
(* setup.  The receiver of the union chooses its batches by the OTs as     *)
(* well; a batch takes both sides, with the same size.                     *)
(***************************************************************************)
OtsFor == IF op = "union" THEN NumOts(NumBins) ELSE 0
SSetup ==
  /\ spc = "setup"
  /\ sPlan' = Plan(OtsFor, TriplesFor(NumBins), BatchSize(TriplesFor(NumBins), cap))
  /\ spc' = "base"
  /\ UNCHANGED <<inputs, rpc, rPlan, got, sTriples, rTriples, sharing, perm, rot, sAdd, shares, toS, toR, result>>
RSetup ==
  /\ rpc = "setup"
  /\ rPlan' = Plan(OtsFor, TriplesFor(NumBins), BatchSize(TriplesFor(NumBins) + OtsFor, cap))
  /\ rpc' = "base"
  /\ UNCHANGED <<inputs, spc, sPlan, got, sTriples, rTriples, sharing, perm, rot, sAdd, shares, toS, toR, result>>
\* generateBaseOts: as many sent as received.
BaseOts ==
  /\ spc = "base" /\ rpc = "base"
  /\ BaseTotal(sPlan) = BaseTotal(rPlan)
  /\ spc' = "ots" /\ rpc' = "ots"
  /\ UNCHANGED <<inputs, offline, sharing, perm, rot, sAdd, shares, toS, toR, result>>
ExpandOt ==
  /\ spc = "ots" /\ rpc = "ots"
  /\ got.ots < sPlan.otBatches /\ got.ots < rPlan.otBatches
  /\ RunsFit(sPlan, rPlan, got.ots + 1)
  /\ got' = [got EXCEPT !.ots = @ + 1]
  /\ UNCHANGED <<inputs, spc, rpc, sPlan, rPlan, sTriples, rTriples, sharing, perm, rot, sAdd, shares, toS, toR, result>>
Kept(t, more) == [mult |-> t.mult \o more.mult, add |-> t.add \o more.add]
ExpandTriple ==
  /\ spc = "triples" /\ rpc = "triples"
  /\ got.triples < sPlan.tripleBatches /\ got.triples < rPlan.tripleBatches
  /\ RunsFit(sPlan, rPlan, sPlan.otBatches + got.triples + 1)
  /\ \E ots \in Transcripts(got.triples, sPlan.triplesPer) :
       /\ sTriples' = Kept(sTriples, ReceivedBits(ots))
       /\ rTriples' = Kept(rTriples, SentBits(ots))
  /\ got' = [got EXCEPT !.triples = @ + 1]
  /\ UNCHANGED <<inputs, spc, rpc, sPlan, rPlan, sharing, perm, rot, sAdd, shares, toS, toR, result>>
\* Both loops end; then the sender sends setup_end_flag.
SExpanded ==
  /\ \/ spc = "ots" /\ got.ots = sPlan.otBatches /\ spc' = "triples" /\ UNCHANGED toR
     \/ spc = "triples" /\ got.triples = sPlan.tripleBatches /\ spc' = First /\ toR' = Append(toR, "end")
  /\ UNCHANGED <<inputs, rpc, offline, sharing, perm, rot, sAdd, shares, toS, result>>
RExpanded ==
  /\ \/ rpc = "ots" /\ got.ots = rPlan.otBatches /\ rpc' = "triples" /\ UNCHANGED toR
     \/ rpc = "triples" /\ got.triples = rPlan.tripleBatches /\ rpc' = First /\ toR # <<>> /\ toR' = Tail(toR)
  /\ UNCHANGED <<inputs, spc, offline, sharing, perm, rot, sAdd, shares, toS, result>>

(***************************************************************************)
(* Circuit PSI.  A value of a bin with no common row is noise.             *)
(***************************************************************************)
\* The OPRF of the union renames the rows, one to one.
Oprf ==
  /\ spc = "oprf" /\ rpc = "oprf" /\ spc' = "join" /\ rpc' = "join"
  /\ UNCHANGED <<inputs, offline, sharing, perm, rot, sAdd, shares, toS, toR, result>>

Cpsi(mapping, flags, masks) ==
  LET common == J!Common([mapping |-> mapping])
      RowAt(b) == CHOOSE i \in DOMAIN Y : mapping[i] = b IN
  [mapping |-> mapping, flagS |-> flags, valS |-> masks,
   flagR |-> [b \in Bins |-> (flags[b] + (IF b \in common THEN 1 ELSE 0)) % 2],
   valR |-> [b \in Bins |-> IF op = "innerProd" /\ b \in common
                            THEN Wrap(dataX[J!RowOf(X, Y[RowAt(b)])] - masks[b]) ELSE masks[b]]]
AfterJoin ==
  CASE op = "union" -> "ps" [] op = "sumBlock" -> "sum" [] OTHER -> "rot"
Join ==
  /\ spc = "join" /\ rpc = "join"
  /\ \E mapping \in [DOMAIN Y -> Bins], flags \in FlagShares :
       /\ J!Injective(mapping)
       /\ \E masks \in Randoms(NumBins) : sharing' = Cpsi(mapping, flags, [b \in Bins |-> masks[b]])
       /\ J!IsJoin(sharing')
  /\ spc' = AfterJoin /\ rpc' = AfterJoin
  /\ UNCHANGED <<inputs, offline, perm, rot, sAdd, shares, toS, toR, result>>

SFlag(b) == sharing.flagR[b]
RFlag(b) == sharing.flagS[b]
\* invMapping: the row in a bin, if any.
Mapped(b) == \E i \in DOMAIN Y : sharing.mapping[i] = b
RowIn(b) == CHOOSE i \in DOMAIN Y : sharing.mapping[i] = b

(***************************************************************************)
(* Union: the receiver's flags are permuted and shared; the sender adds    *)
(* its own and offers its rows where the flags differ from those shares.   *)
(***************************************************************************)
PermShare ==
  /\ spc = "ps" /\ rpc = "ps"
  /\ perm' \in Perms
  /\ sShare' \in FlagShares
  /\ rShare' = [i \in Bins |-> (sShare'[i] + RFlag(perm'[i])) % 2]
  /\ spc' = "final" /\ rpc' = "final"
  /\ UNCHANGED <<inputs, offline, sharing, rot, sAdd, clearS, clearR, toS, toR, result>>
\* finalOtMsgs, and the message of choice c; the dummy is Nothing.
\* Mutant: the sender's flags are taken in the order of the bins.
OfferBins(i, c) ==
  IF c = (sShare[i] + SFlag(i)) % 2 /\ Mapped(perm[i]) THEN Y[RowIn(perm[i])] ELSE Nothing
Offer(i, c) ==
  IF c = (sShare[i] + SFlag(perm[i])) % 2 /\ Mapped(perm[i]) THEN Y[RowIn(perm[i])] ELSE Nothing
\* The messages that are no dummies, in order.
Taken ==
  LET D[n \in 0..NumBins] ==
        IF n = 0 THEN <<>>
        ELSE LET msg == Offer(n - 1, rShare[n - 1]) IN IF msg = Nothing THEN D[n - 1] ELSE Append(D[n - 1], msg)
  IN D[NumBins]
FinalOt ==
  /\ spc = "final" /\ rpc = "final"
  /\ result' = Taken
  /\ spc' = "done" /\ rpc' = "done"
  /\ UNCHANGED <<inputs, offline, sharing, perm, rot, sAdd, shares, toS, toR>>

(***************************************************************************)
(* Random OTs.  The choices are flags, or for the third of the inner       *)
(* product the bits of the sender's data.                                  *)
(***************************************************************************)
Rot ==
  /\ spc \in {"rot", "rot2", "rot3"} /\ rpc = spc
  /\ rot' \in RotPairs(IF spc = "rot3" THEN NumBins * WordBits ELSE NumBins)
  /\ spc' = (CASE spc = "rot" -> "send" [] spc = "rot2" -> "clear" [] spc = "rot3" -> "share")
  /\ rpc' = (CASE rpc = "rot" -> "recv" [] rpc = "rot2" -> "clear" [] rpc = "rot3" -> "mult")
  /\ UNCHANGED <<inputs, offline, sharing, perm, sAdd, shares, toS, toR, result>>

(***************************************************************************)
(* Cardinality and threshold: a + b - 2ab by one OT a bin, with messages   *)
(* of cardByteLength bytes.                                                *)
(***************************************************************************)
SCard ==
  /\ spc = "send" /\ op \in {"cardinality", "threshold"}
  /\ LET msgs == [b \in Bins |-> Wrap(rot[b][0] + rot[b][1] + SFlag(b)) % CardRange]
         share == Wrap(Total(NumBins, [b \in Bins |-> SFlag(b) + 2 * rot[b][0]])) IN
       IF op = "cardinality"
       THEN /\ toR' = Append(toR, [msgs |-> msgs, share |-> share % CardRange])
            /\ sShare' = share /\ spc' = "done"
       ELSE /\ toR' = Append(toR, [msgs |-> msgs, share |-> Nothing])
            /\ sShare' = share % CardRange /\ spc' = "add"
  /\ UNCHANGED <<inputs, rpc, offline, sharing, perm, rot, sAdd, rShare, clearS, clearR, toS, result>>
CardPart(b, msg) ==
  IF RFlag(b) = 0 THEN -(2 * rot[b][0]) ELSE 1 - 2 * (msg - rot[b][1])
RCard ==
  /\ rpc = "recv" /\ toR # <<>> /\ op \in {"cardinality", "threshold"}
  /\ LET share == Wrap(Total(NumBins, [b \in Bins |-> CardPart(b, Head(toR).msgs[b])])) IN
       IF op = "cardinality"
       THEN /\ \E m \in CardModuli : result' = (share + Head(toR).share) % m
            /\ rShare' = share /\ rpc' = "done"
       ELSE rShare' = share % CardRange /\ rpc' = "add" /\ UNCHANGED result
  /\ toR' = Tail(toR)
  /\ UNCHANGED <<inputs, spc, offline, sharing, perm, rot, sAdd, sShare, clearS, clearR, toS>>

\* The two circuits, one after the other on the same Gmw.  The adder leaves the
\* sides with shares of each bit of the sum (sAdd), whose pairs are the first
\* input of the comparison; the receiver's threshold is the second.
Places == 0..CardBits - 1
AddShares ==
  /\ spc = "add" /\ rpc = "add"
  /\ LET sum == (sShare + rShare) % Shifted(CardBits) IN
       \E mask \in [Places -> 0..1] :
         sAdd' = [send |-> mask, recv |-> [j \in Places |-> (mask[j] + sum \div Shifted(j)) % 2]]
  /\ spc' = "gteq" /\ rpc' = "gteq"
  /\ UNCHANGED <<inputs, offline, sharing, perm, rot, shares, toS, toR, result>>
Added == Total(CardBits, [j \in Places |-> ((sAdd.send[j] + sAdd.recv[j]) % 2) * Shifted(j)])
Compare ==
  /\ spc = "gteq" /\ rpc = "gteq"
  /\ sShare' \in 0..1
  /\ rShare' = (sShare' + IntGteq(Added, threshold % Shifted(CardBits))) % 2
  /\ spc' = "bit" /\ rpc' = "bit"
  /\ UNCHANGED <<inputs, offline, sharing, perm, rot, sAdd, clearS, clearR, toS, toR, result>>
SBit ==
  /\ spc = "bit" /\ spc' = "done" /\ toR' = Append(toR, sShare)
  /\ UNCHANGED <<inputs, rpc, offline, sharing, perm, rot, sAdd, shares, toS, result>>
RBit ==
  /\ rpc = "bit" /\ toR # <<>> /\ rpc' = "done" /\ toR' = Tail(toR)
  /\ result' = (rShare + Head(toR)) % 2
  /\ UNCHANGED <<inputs, spc, offline, sharing, perm, rot, sAdd, shares, toS>>

(***************************************************************************)
(* Sum: every bin's number is masked, the masks add up to nothing.         *)
(***************************************************************************)
Masks(r) == [b \in Bins |-> IF b = 0 THEN -Total(NumBins, [c \in Bins |-> IF c = 0 THEN 0 ELSE r[c]]) ELSE r[b]]
\* The pair of a bin: with choice c the flags differ, or they do not.
\* Mutant: the number of a bin goes to the choice that equals the flag.
PairSwapped(b, c, mask) == Wrap(mask + (IF c = SFlag(b) /\ Mapped(b) THEN dataY[RowIn(b)] ELSE 0))
Pair(b, c, mask) == Wrap(mask + (IF c # SFlag(b) /\ Mapped(b) THEN dataY[RowIn(b)] ELSE 0))
SumBlock ==
  /\ spc = "sum" /\ rpc = "sum"
  /\ \E r \in Randoms(NumBins) :
       result' = Wrap(Total(NumBins, [b \in Bins |-> Pair(b, RFlag(b), Masks(r)[b])]))
  /\ spc' = "done" /\ rpc' = "done"
  /\ UNCHANGED <<inputs, offline, sharing, perm, rot, sAdd, shares, toS, toR>>
SSum32 ==
  /\ spc = "send" /\ op = "sum32"
  /\ \E r \in Randoms(NumBins) :
       toR' = Append(toR, [b \in Bins |-> [c \in 0..1 |-> Pair(b, c, rot[b][c] + Masks(r)[b])]])
  /\ spc' = "done"
  /\ UNCHANGED <<inputs, rpc, offline, sharing, perm, rot, sAdd, shares, toS, result>>
RSum32 ==
  /\ rpc = "recv" /\ toR # <<>> /\ op = "sum32"
  /\ result' = Wrap(Total(NumBins, [b \in Bins |-> Head(toR)[b][RFlag(b)] - rot[b][RFlag(b)]]))
  /\ rpc' = "done" /\ toR' = Tail(toR)
  /\ UNCHANGED <<inputs, spc, offline, sharing, perm, rot, sAdd, shares, toS>>

(***************************************************************************)
(* Inner product: two OTs clear the shares of bins without a common row,   *)
(* first from the sender, then back; then the sender's numbers, bit by     *)
(* bit, choose what of the receiver's shares is added up.                  *)
(***************************************************************************)
Cleared(b, flag, c, r, val) == Wrap(rot[b][c] + r + (IF c # flag THEN val ELSE 0))
SClear ==
  /\ spc = "send" /\ op = "innerProd"
  /\ \E r \in Randoms(NumBins) :
       /\ toR' = Append(toR, [b \in Bins |-> [c \in 0..1 |-> Cleared(b, SFlag(b), c, r[b], sharing.valR[b])]])
       /\ clearS' = [b \in Bins |-> Wrap(-r[b])]
  /\ spc' = "rot2"
  /\ UNCHANGED <<inputs, rpc, offline, sharing, perm, rot, sAdd, sShare, rShare, clearR, toS, result>>
RClear ==
  /\ rpc = "recv" /\ toR # <<>> /\ op = "innerProd"
  /\ clearR' = [b \in Bins |-> Wrap(Head(toR)[b][RFlag(b)] - rot[b][RFlag(b)])]
  /\ rpc' = "rot2" /\ toR' = Tail(toR)
  /\ UNCHANGED <<inputs, spc, offline, sharing, perm, rot, sAdd, sShare, rShare, clearS, toS, result>>
RClearBack ==
  /\ rpc = "clear"
  /\ \E r \in Randoms(NumBins) :
       /\ toS' = Append(toS, [b \in Bins |-> [c \in 0..1 |-> Cleared(b, RFlag(b), c, r[b], sharing.valS[b])]])
       /\ clearR' = [b \in Bins |-> Wrap(clearR[b] - r[b])]
  /\ rpc' = "rot3"
  /\ UNCHANGED <<inputs, spc, offline, sharing, perm, rot, sAdd, sShare, rShare, clearS, toR, result>>
SClearBack ==
  /\ spc = "clear" /\ toS # <<>>
  /\ clearS' = [b \in Bins |-> Wrap(clearS[b] + Head(toS)[b][SFlag(b)] - rot[b][SFlag(b)])]
  /\ spc' = "rot3" /\ toS' = Tail(toS)
  /\ UNCHANGED <<inputs, rpc, offline, sharing, perm, rot, sAdd, sShare, rShare, clearR, toR, result>>

\* The OTs of bin b are WordBits * b + j, for the bits j of reordered_data.
Number(b) == IF Mapped(b) THEN dataY[RowIn(b)] ELSE 0
Bit(b, j) == (Number(b) \div Shifted(j)) % 2
BitOts == 0..NumBins * WordBits - 1
RMult ==
  /\ rpc = "mult"
  /\ toS' = Append(toS, [k \in BitOts |->
              Wrap(rot[k][0] + rot[k][1] + clearR[k \div WordBits] * Shifted(k % WordBits))])
  /\ rShare' = Wrap(-Total(NumBins * WordBits, [k \in BitOts |-> rot[k][0]]))
  /\ rpc' = "product"
  /\ UNCHANGED <<inputs, spc, offline, sharing, perm, rot, sAdd, sShare, clearS, clearR, toR, result>>
SMult ==
  /\ spc = "share" /\ toS # <<>>
  /\ LET chosen == [k \in BitOts |-> IF Bit(k \div WordBits, k % WordBits) = 1
                                      THEN Head(toS)[k] - rot[k][1] ELSE rot[k][0]]
         share == Wrap(Total(NumBins, [b \in Bins |-> clearS[b] * Number(b)]) + Total(NumBins * WordBits, chosen)) IN
       sShare' = share /\ toR' = Append(toR, share)
  /\ spc' = "done" /\ toS' = Tail(toS)
  /\ UNCHANGED <<inputs, rpc, offline, sharing, perm, rot, sAdd, rShare, clearS, clearR, result>>
RProduct ==
  /\ rpc = "product" /\ toR # <<>>
  /\ result' = Wrap(rShare + Head(toR))
  /\ rpc' = "done" /\ toR' = Tail(toR)
  /\ UNCHANGED <<inputs, spc, offline, sharing, perm, rot, sAdd, shares, toS>>

Done == spc = "done" /\ rpc = "done" /\ UNCHANGED vars

Next == \/ SSetup \/ RSetup \/ BaseOts \/ ExpandOt \/ ExpandTriple \/ SExpanded \/ RExpanded
        \/ Oprf \/ Join \/ PermShare \/ FinalOt \/ Rot
        \/ SCard \/ RCard \/ AddShares \/ Compare \/ SBit \/ RBit
        \/ SumBlock \/ SSum32 \/ RSum32
        \/ SClear \/ RClear \/ RClearBack \/ SClearBack \/ RMult \/ SMult \/ RProduct
        \/ Done
Spec == Init /\ [][Next]_vars
\* Both coroutines keep running and the socket delivers.
FairSpec == Spec /\ WF_vars(Next)

(***************************************************************************)
(* Properties                                                              *)
(***************************************************************************)

\* When circuit PSI starts after a setup, setTriple gives both sides a row of
\* triples for every AND gate in each half; when permute and share starts,
\* setOT gives them an OT for every switch.
Joining == mSetup /\ spc = "join" /\ rpc = "join"
SuppliesSuffice ==
  /\ Joining => \A t \in {sTriples, rTriples} : Middle(t) >= RowBits * TripleRows(NumBins)
  /\ (mSetup /\ spc = "ps" /\ rpc = "ps") => \A p \in {sPlan, rPlan} : p.otBatches * p.otsPer >= OtsFor

\* What setTriple makes of the OTs is a deal of Gmw (ValidDeal): the C of each side
\* with the A of the other, over all batches and in both halves.
TriplesMultiply ==
  Joining =>
    LET r == Straight(rTriples)
        s == Crossed(sTriples)
        Multiply(own, peer) == \A k \in DOMAIN own.A \cap DOMAIN peer.C :
                                 own.A[k] * peer.C[k] = (own.B[k] + peer.D[k]) % 2
    IN Multiply(r, s) /\ Multiply(s, r)

Shared == {i \in DOMAIN Y : J!Has(X, Y[i])}
\* The union protocol gives the receiver each row of the sender that it does
\* not have exactly once, and nothing else (CpsuReceiver::receive's D).
UnionExact ==
  (op = "union" /\ rpc = "done") =>
    /\ Range(result) = Range(Y) \ Range(X)
    /\ Len(result) = Cardinality(Range(result))

\* The sum of f over the rows of the sender that the receiver has.
TotalShared(f) == Total(Len(Y), [i \in 0..Len(Y) - 1 |-> IF i + 1 \in Shared THEN f[i + 1] ELSE 0])
\* The other results are those of the plain sets and data: the cardinality where
\* its modulus fits an int, and what the threshold's circuit compares is the
\* cardinality, first, and the bits of the threshold that are carried.
ResultExact ==
  (rpc = "done") =>
    CASE op = "cardinality" -> ShiftFits => result = Cardinality(Shared)
      [] op \in {"sumBlock", "sum32"} -> result = Wrap(TotalShared(dataY))
      [] op = "innerProd" -> result = Wrap(TotalShared([i \in Shared |-> dataY[i] * dataX[J!RowOf(X, Y[i])]]))
      [] op = "threshold" -> result = IntGteq(Cardinality(Shared), threshold % Shifted(CardBits))
      [] OTHER -> TRUE

\* Both sides return, with and without setup.
BothReturn == <>(spc = "done" /\ rpc = "done")
=============================================================================
