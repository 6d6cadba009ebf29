------------------------------- MODULE RsCpsi -------------------------------
(***************************************************************************)
(* Circuit PSI (RsCpsiSender::send, RsCpsiReceiver::receive).  The         *)
(* receiver cuckoo-hashes its rows, one to a bin; the sender hashes each   *)
(* of its rows to all three of its bins and programs, for row and hash     *)
(* function, the secret of the bin and its masked value.  The receiver     *)
(* looks its rows up, and a zero test on the bins' secrets (module Gmw)    *)
(* shares which bins hold a common row.                                    *)
(*                                                                         *)
(* A secret, a lookup that was not programmed and a random row never       *)
(* coincide.  The OPPRF (module RsOpprf) is a joint step, that gives what  *)
(* was programmed but for rows of one block; the zero test is the plain    *)
(* evaluation of its circuit, as module Gmw implements it.                 *)
(***************************************************************************)
EXTENDS Integers, IsZero

CONSTANTS NumBins,
          HashSeeds,
          BinOf(_, _, _),   \* seed, row, hash function: Cuckoo's computeLocations
          RecvSets, SendSets, \* sequences of rows
          ValuesOf(_),      \* the sender's values for so many rows, or Unset
          KeyBits,          \* keyBitLength
          ValueBytes,       \* mValueByteLength, where there are values
          Word,             \* values are 0..Word - 1
          XorWords(_, _),
          Masks,            \* what mPrng may give ret.mValues
          FlagShares,       \* and Gmw for a share of the flags
          Noise(_),         \* an unprogrammed lookup of the value
          Unset

Bins == 0..NumBins - 1
HashIdx == 0..2
ShareTypes == {"Xor", "add32"}
KeyBytes == (KeyBits + 7) \div 8
\* No row of Tv is exactly one block, for which RsOpprf is wrong.
WidthsApart == KeyBytes # 16 /\ KeyBytes + ValueBytes # 16

\* Mod(binCount - i) in computeLocations makes the three bins of a row differ.
Zero == INSTANCE Circuit WITH Wires <- 0..KeyBits - 1, InputWires <- 0..KeyBits - 1,
                              Gates <- IsZeroGates(KeyBits), LevelEnd <- IsZeroLevels(KeyBits)
ASSUME IsZeroAssumption == Zero!CircuitAssumption /\ Zero!Levelized

Inputs == RecvSets \cup SendSets
Words == 0..Word - 1
ASSUME CpsiAssumption ==
  /\ NumBins \in Nat \ {0} /\ Word \in Nat \ {0} /\ KeyBits \in Nat /\ KeyBits > 1
  /\ ValueBytes \in Nat \ {0}
  /\ \A set \in Inputs : /\ set \in Seq({set[i] : i \in DOMAIN set})
                        /\ \A i, k \in DOMAIN set : set[i] = set[k] => i = k
  /\ \A s \in HashSeeds, set \in Inputs : \A i \in DOMAIN set :
       \A j, k \in HashIdx : /\ BinOf(s, set[i], j) \in Bins
                             /\ BinOf(s, set[i], j) = BinOf(s, set[i], k) => j = k
  /\ \A set \in Inputs, j \in HashIdx : \A i \in DOMAIN set : Noise(<<j, set[i]>>) \in Words
  /\ \A set \in SendSets : ValuesOf(Len(set)) \subseteq {Unset} \cup [DOMAIN set -> Words]
  /\ \A x, y \in Words : XorWords(x, y) \in Words /\ XorWords(x, XorWords(y, x)) = y
  /\ Masks \subseteq [Bins -> Words] /\ FlagShares \subseteq [Bins -> 0..1]
  /\ Unset \notin [mapping : Seq(Bins), flagS : [Bins -> 0..1], flagR : [Bins -> 0..1],
                   valS : [Bins -> Words], valR : [Bins -> Words \cup {Unset}]]

VARIABLES
  X, Y, vals, type,  \* the inputs, and mType
  recvPc,  \* receiver: "hash", "opprf", "rows", "gmw" or "done"
  rSeed,
  mapping, \* ret.mMapping
  Tx,      \* the OPPRF keys of its rows
  prfTx,   \* what they looked up to
  rRows,   \* r of the receiver
  flagR,   \* ret.mFlagBits
  sendPc,  \* sender: "hash", "bins", "pad", "opprf", "gmw" or "done"
  table,   \* sIdx.mBins: for each bin its rows and hash functions, in order
  bin,     \* the bin the loop is at
  Ty, Tv,  \* the OPPRF keys and values up to the iterators
  valS,    \* the sender's ret.mValues
  flagS,
  toSender

cpsiVars == <<X, Y, vals, type, recvPc, rSeed, mapping, Tx, prfTx, rRows, flagR,
              sendPc, table, bin, Ty, Tv, valS, flagS, toSender>>
cpsiInputs == <<X, Y, vals, type>>
recvState == <<recvPc, rSeed, mapping, Tx, prfTx, rRows, flagR>>
sendState == <<sendPc, table, bin, Ty, Tv, valS, flagS>>

\* hashers[j].hashBlock of a row, and the kinds of a bin's key.
\* Mutant: one key for the three hashers.
TagSame(j, row) == <<0, row>>
Tag(j, row) == <<j, row>>
Secret(b) == <<"r", b>>
Random(b) == <<"prng", b>>
Unprogrammed(tag) == <<"prf", tag>>

CpsiInit ==
  /\ X \in RecvSets /\ Y \in SendSets /\ vals \in ValuesOf(Len(Y)) /\ type \in ShareTypes
  /\ type = "add32" => vals = Unset \/ ValueBytes % 4 = 0  \* the assertion kept as a comment
  /\ recvPc = "hash" /\ rSeed = Unset /\ mapping = Unset /\ Tx = Unset
  /\ prfTx = Unset /\ rRows = Unset /\ flagR = Unset
  /\ sendPc = "hash" /\ table = Unset /\ bin = 0 /\ Ty = <<>> /\ Tv = <<>>
  /\ valS = Unset /\ flagS = Unset
  /\ toSender = <<>>

\* The receiver: seed, and any cuckoo placement of its rows.
Placements(s) ==
  {h \in [DOMAIN X -> HashIdx] :
     \A i, k \in DOMAIN X : BinOf(s, X[i], h[i]) = BinOf(s, X[k], h[k]) => i = k}
RHash ==
  /\ recvPc = "hash"
  /\ \E s \in HashSeeds : \E h \in Placements(s) :
       /\ rSeed' = s /\ toSender' = Append(toSender, s)
       /\ mapping' = [i \in DOMAIN X |-> BinOf(s, X[i], h[i])]
       /\ Tx' = [i \in DOMAIN X |-> Tag(h[i], X[i])]
  /\ recvPc' = "opprf"
  /\ UNCHANGED <<cpsiInputs, prfTx, rRows, flagR, sendState>>

(***************************************************************************)
(* The sender: sIdx.insertItems goes over the hash functions, and for each *)
(* over the rows (of one batch of 32).                                     *)
(***************************************************************************)
Insertion(k) == [idx |-> ((k - 1) % Len(Y)) + 1, hashIdx |-> (k - 1) \div Len(Y)]
Home(s, e) == BinOf(s, Y[e.idx], e.hashIdx)
Filled(s) ==
  LET after[k \in 0..3 * Len(Y)] ==
        IF k = 0 THEN [b \in Bins |-> <<>>]
        ELSE [after[k - 1] EXCEPT ![Home(s, Insertion(k))] = Append(@, Insertion(k))]
  IN after
SHash ==
  /\ sendPc = "hash" /\ toSender # <<>>
  /\ table' = Filled(Head(toSender))[3 * Len(Y)]
  /\ toSender' = Tail(toSender)
  /\ valS' \in Masks
  /\ sendPc' = "bins"
  /\ UNCHANGED <<cpsiInputs, recvState, bin, Ty, Tv, flagS>>

\* A bin's rows: the bin's secret, and the value less the bin's share of it.
Masked(v, share) == IF type = "Xor" THEN XorWords(v, share) ELSE (v - share + Word) % Word
Entry(row, b) == [key |-> Secret(b),
                  val |-> IF vals = Unset THEN Unset ELSE Masked(vals[row.idx], valS[b])]
SBin ==
  /\ sendPc = "bins" /\ bin < NumBins
  /\ LET rows == table[bin] IN
       /\ Ty' = Ty \o [p \in DOMAIN rows |-> Tag(rows[p].hashIdx, Y[rows[p].idx])]
       /\ Tv' = Tv \o [p \in DOMAIN rows |-> Entry(rows[p], bin)]
  /\ bin' = bin + 1
  /\ UNCHANGED <<cpsiInputs, recvState, sendPc, table, valS, flagS, toSender>>
SEnd ==
  /\ sendPc = "bins" /\ bin = NumBins
  /\ sendPc' = "pad"
  /\ UNCHANGED <<cpsiInputs, recvState, table, bin, Ty, Tv, valS, flagS, toSender>>
\* The keys that are left are random; their values are whatever the matrix held.
SPad ==
  /\ sendPc = "pad"
  /\ LET missing == 1..3 * Len(Y) - Len(Ty) IN
       /\ Ty' = Ty \o [p \in missing |-> <<3, p>>]
       /\ Tv' = Tv \o [p \in missing |-> Unset]
  /\ sendPc' = "opprf"
  /\ UNCHANGED <<cpsiInputs, recvState, table, bin, valS, flagS, toSender>>

\* opprf->send and opprf->receive, of distinct keys.  With rows of one block the
\* receiver adds what is decoded to what was in prfTx, and not to the OPRF.
OneBlock == KeyBytes + (IF vals = Unset THEN 0 ELSE ValueBytes) = 16
Lookup(tag) ==
  IF ~OneBlock /\ \E p \in DOMAIN Ty : Ty[p] = tag
  THEN Tv[CHOOSE p \in DOMAIN Ty : Ty[p] = tag]
  ELSE [key |-> Unprogrammed(tag), val |-> IF vals = Unset THEN Unset ELSE Noise(tag)]
Opprf ==
  /\ sendPc = "opprf" /\ recvPc = "opprf"
  /\ \A p, q \in DOMAIN Ty : Ty[p] = Ty[q] => p = q
  /\ prfTx' = [i \in DOMAIN X |-> Lookup(Tx[i])]
  /\ sendPc' = "gmw" /\ recvPc' = "rows"
  /\ UNCHANGED <<cpsiInputs, rSeed, mapping, Tx, rRows, flagR, table, bin, Ty, Tv, valS, flagS,
                 toSender>>

\* The receiver puts its lookups in their bins and random rows in the others.
\* Mutant: in the order of its rows.
RRowsInOrder ==
  /\ recvPc = "rows"
  /\ rRows' = [b \in Bins |-> IF b + 1 \in DOMAIN X THEN prfTx[b + 1]
                              ELSE [key |-> Random(b), val |-> IF vals = Unset THEN Unset ELSE 0]]
  /\ recvPc' = "gmw"
  /\ UNCHANGED <<cpsiInputs, rSeed, mapping, Tx, prfTx, flagR, sendState, toSender>>
RRows ==
  /\ recvPc = "rows"
  /\ rRows' = [b \in Bins |->
       IF \E i \in DOMAIN X : mapping[i] = b
       THEN prfTx[CHOOSE i \in DOMAIN X : mapping[i] = b]
       ELSE [key |-> Random(b), val |-> IF vals = Unset THEN Unset ELSE 0]]
  /\ recvPc' = "gmw"
  /\ UNCHANGED <<cpsiInputs, rSeed, mapping, Tx, prfTx, flagR, sendState, toSender>>

\* cmp.run of both: shares of the output of isZeroCircuit on the sum of both
\* keys of each bin, which is anything but zero when they differ.  Circuit's
\* gates are evaluated in their order.
KeySums == [0..KeyBits - 1 -> 0..1]
NoSum == [i \in 0..KeyBits - 1 |-> 0]
GateOut(g, w) == Zero!EvalGate(g.type, w[g.in0], w[g.in1])
WiresAfter(gates, wires) ==
  LET after[n \in 0..Len(gates)] ==
        IF n = 0 THEN wires
        ELSE [after[n - 1] EXCEPT ![gates[n].out] = GateOut(gates[n], after[n - 1])]
  IN after
IsZeroOut(sum) == LET gates == IsZeroGates(KeyBits) IN WiresAfter(gates, sum)[Len(gates)][0]
ZeroTest ==
  /\ sendPc = "gmw" /\ recvPc = "gmw"
  /\ \E sum \in KeySums \ {NoSum}, flags \in FlagShares :
       LET same == IsZeroOut(NoSum)  other == IsZeroOut(sum) IN
       /\ flagS' = flags
       /\ flagR' = [b \in Bins |->
            (flags[b] + (IF rRows[b].key = Secret(b) THEN same ELSE other)) % 2]
  /\ sendPc' = "done" /\ recvPc' = "done"
  /\ UNCHANGED <<cpsiInputs, rSeed, mapping, Tx, prfTx, rRows, table, bin, Ty, Tv, valS, toSender>>

CpsiDone == sendPc = "done" /\ recvPc = "done" /\ UNCHANGED cpsiVars

CpsiNext == RHash \/ SHash \/ SBin \/ SEnd \/ SPad \/ Opprf \/ RRows \/ ZeroTest \/ CpsiDone
CpsiSpec == CpsiInit /\ [][CpsiNext]_cpsiVars
\* Both coroutines keep running and the socket delivers.
FairCpsi == CpsiSpec /\ WF_cpsiVars(CpsiNext)

(***************************************************************************)
(* Properties                                                              *)
(***************************************************************************)

\* The protocol implements the shared join (both Sharing structures, at the
\* receiver's row mapping): flags exactly for the common rows, and their
\* values shared by mType.
Sharing ==
  IF sendPc = "done" /\ recvPc = "done"
  THEN [mapping |-> mapping, flagS |-> flagS, flagR |-> flagR,
        valS |-> valS, valR |-> [b \in Bins |-> rRows[b].val]]
  ELSE Unset
Recombine(t, a, b) == IF t = "Xor" THEN XorWords(a, b) ELSE (a + b) % Word
J == INSTANCE Join WITH sharing <- Sharing, Combine <- Recombine, Nothing <- Unset
ImplementsJoin == J!Spec

\* Both sides return.
CpsiReturns == <>(sendPc = "done" /\ recvPc = "done")
=============================================================================
