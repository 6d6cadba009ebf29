------------------------------- MODULE Paxos -------------------------------
(***************************************************************************)
(* Paxos: finds P with H * P = X, where row i of H has mWeight ones in the *)
(* sparse columns and, in the dense ones, the bits or the powers of a key. *)
(* setInput, triangulate (with WeightData), backfill and decode.           *)
(*                                                                         *)
(* A vector over the dense columns that solves the gap's equations stands  *)
(* for the inverted matrix.  Blocks are elements of a field of             *)
(* characteristic two.                                                     *)
(***************************************************************************)
EXTENDS PaxosHash

CONSTANTS NumItems,
          SparseSize, DenseSize,
          MaxGap,           \* mG
          Weights, MaxWeight,
          Batch,            \* gPaxosBuildRowSize
          HashChoices,      \* words a hash may have
          Keys,             \* the items' dense parts
          Values,           \* what X may be
          Elem, Add(_, _), Mul(_, _), BitOf(_, _),
          RandomElems,      \* what the prng may give
          Nothing

Items == 1..NumItems
Cols == Columns(SparseSize)
DenseCols == 0..DenseSize - 1

\* More columns than rows: WeightData is never left without a node.  A dense
\* column: decode of GF128 reads the first whatever mDenseSize.
ASSUME PaxosAssumption ==
  /\ {NumItems, Batch, DenseSize} \subseteq Nat \ {0} /\ {SparseSize, MaxGap, MaxWeight} \subseteq Nat
  /\ SparseSize > NumItems /\ DenseSize >= MaxGap
  /\ Weights \subseteq 2..MaxWeight /\ SparseSize >= MaxWeight
  /\ \A h \in HashChoices : h \in [1..MaxWeight -> Nat]
  /\ Keys \subseteq [Items -> Elem] /\ Values \subseteq [Items -> Elem] /\ RandomElems \subseteq Elem

\* Blocks: addition is exclusive or, multiplication that of the field.
ASSUME ElemAssumption ==
  /\ {0, 1} \subseteq Elem
  /\ \A x \in Elem : /\ Add(x, 0) = x /\ Add(x, x) = 0 /\ \A k \in DenseCols : BitOf(x, k) \in 0..1
  /\ \A x, y \in Elem : /\ Add(x, y) \in Elem /\ Add(x, y) = Add(y, x) /\ Mul(x, y) \in Elem
  /\ \A x, y, z \in Elem : /\ Add(Add(x, y), z) = Add(x, Add(y, z))
                           /\ Mul(x, Add(y, z)) = Add(Mul(x, y), Mul(x, z))

VARIABLES
  mWeight, hash, dense, X, type, prng,  \* hash and dense are one block; prng tells whether there is one
  rows,      \* mRows
  pc,        \* "input", "triangulate", "gap", "back", "done" or "thrown"
  cols,      \* mCols
  sets,      \* mWeightSets: sets[w + 1] lists the columns of weight w
  weight,    \* mNodes[c].mWeight
  rowSet, mainRows, mainCols, gapRows,
  P, p2      \* the sparse and the dense part of the output

vars == <<mWeight, hash, dense, X, type, prng, rows, pc, cols, sets, weight, rowSet, mainRows, mainCols, gapRows,
          P, p2>>
inputs == <<mWeight, hash, dense, X, type, prng>>
weights == <<rows, cols, sets, weight>>
triangle == <<rowSet, mainRows, mainCols, gapRows>>

\* The same key hashes to the same words.
Init ==
  /\ mWeight \in Weights /\ hash \in [Items -> HashChoices] /\ dense \in Keys /\ X \in Values
  /\ \A i, j \in Items : dense[i] = dense[j] => hash[i] = hash[j]
  /\ type \in {"Binary", "GF128"} /\ prng \in BOOLEAN
  /\ pc = "input" /\ rows = Nothing /\ cols = Nothing /\ sets = Nothing /\ weight = Nothing
  /\ rowSet = {} /\ mainRows = <<>> /\ mainCols = <<>> /\ gapRows = <<>>
  /\ P = Nothing /\ p2 = Nothing

(***************************************************************************)
(* WeightData.                                                             *)
(***************************************************************************)
\* The members of S in a list, in its order.
Kept(list, S) ==
  LET f[n \in 0..Len(list)] ==
        IF n = 0 THEN <<>> ELSE IF list[n] \in S THEN Append(f[n - 1], list[n]) ELSE f[n - 1]
  IN f[Len(list)]
Trim(s) ==
  LET used == {k \in DOMAIN s : s[k] # <<>>} IN
    SubSeq(s, 1, CHOOSE n \in 0..Len(s) : (n = 0 \/ n \in used) /\ \A k \in used : k <= n)
PopNode(s, c, w) == Trim([k \in DOMAIN s |-> IF k = w + 1 THEN Kept(s[k], Cols \ {c}) ELSE s[k]])
PushNode(s, c, w) ==
  LET size == IF Len(s) <= w THEN w + 1 ELSE Len(s)
      wide == [k \in 1..size |-> IF k <= Len(s) THEN s[k] ELSE <<>>] IN
    [wide EXCEPT ![w + 1] = <<c>> \o @]
\* Mutant: the heaviest column.
MaxWeightNode(s) == Head(s[Len(s)])
MinWeightNode(s) ==
  Head(s[CHOOSE k \in 2..Len(s) : s[k] # <<>> /\ \A j \in 2..k - 1 : s[j] = <<>>])

\* The rows: whole batches by buildRow32, the items that are left by buildRow.
MainLen(n) == (n \div Batch) * Batch
RowsBuilt(hs) ==
  BuildRow32([i \in 1..MainLen(Len(hs)) |-> hs[i]], mWeight, SparseSize)
    \o [i \in 1..Len(hs) - MainLen(Len(hs)) |-> BuildRow(hs[MainLen(Len(hs)) + i], mWeight, SparseSize)]

\* WeightData::init puts each column at its list's head.
PushAll(w) ==
  LET s[k \in 0..SparseSize] == IF k = 0 THEN <<>> ELSE PushNode(s[k - 1], k - 1, w[k - 1]) IN s[SparseSize]
\* rebuildColumns.
SetInput ==
  /\ pc = "input"
  /\ \E built \in {RowsBuilt(hash)} :
       LET col == [c \in Cols |-> Kept([i \in Items |-> i], {i \in Items : c \in Range(built[i])})] IN
         /\ rows' = built
         /\ cols' = col
         /\ weight' = [c \in Cols |-> Len(col[c])]
         /\ sets' = PushAll([c \in Cols |-> Len(col[c])])
  /\ pc' = "triangulate"
  /\ UNCHANGED <<inputs, triangle, P, p2>>

(***************************************************************************)
(* triangulate, one column at a time: its first row that is not set yet    *)
(* goes on the diagonal, the others go to the gap.                         *)
(***************************************************************************)
Open(c) == Kept(cols[c], Items \ rowSet)
Lower(d, c) ==
  IF d.weight[c] = 0 THEN d
  ELSE [sets |-> PushNode(PopNode(d.sets, c, d.weight[c]), c, d.weight[c] - 1),
        weight |-> [d.weight EXCEPT ![c] = @ - 1]]
LowerRow(start, row) ==
  LET d[j \in 0..Len(row)] == IF j = 0 THEN start ELSE Lower(d[j - 1], row[j]) IN d[Len(row)]
\* Mutant: only the diagonal row's columns get lighter.
LowerRowsFirst(open, start) == LowerRow(start, rows[open[1]])
LowerRows(open, start) ==
  LET d[k \in 0..Len(open)] == IF k = 0 THEN start ELSE LowerRow(d[k - 1], rows[open[k]]) IN d[Len(open)]
\* first, or an equal key in the gap.
Bad(open) == open = <<>> \/ \E k \in 2..Len(open) : dense[open[k]] = dense[open[1]]

TakeColumn ==
  /\ pc = "triangulate" /\ Len(sets) > 1
  /\ LET c == MinWeightNode(sets)
         open == Open(c)
         end == LowerRows(open, [sets |-> PopNode(sets, c, weight[c]), weight |-> [weight EXCEPT ![c] = 0]]) IN
       /\ ~Bad(open)
       /\ sets' = end.sets /\ weight' = end.weight
       /\ rowSet' = rowSet \cup Range(open)
       /\ mainCols' = Append(mainCols, c) /\ mainRows' = Append(mainRows, open[1])
       /\ gapRows' = gapRows \o [k \in 1..Len(open) - 1 |-> <<open[k + 1], open[1]>>]
  /\ UNCHANGED <<inputs, rows, pc, cols, P, p2>>
ThrowColumn ==
  /\ pc = "triangulate" /\ Len(sets) > 1 /\ Bad(Open(MinWeightNode(sets)))
  /\ pc' = "thrown"
  /\ UNCHANGED <<inputs, weights, triangle, P, p2>>

\* encode: the columns that are left are free.
Free == Range(sets[1])
Triangulated ==
  /\ pc = "triangulate" /\ Len(sets) <= 1
  /\ P' \in [Cols -> RandomElems \cup {0}]
  /\ \A c \in Cols : IF prng /\ c \in Free THEN P'[c] \in RandomElems ELSE P'[c] = 0
  /\ pc' = "gap"
  /\ UNCHANGED <<inputs, weights, triangle, p2>>

(***************************************************************************)
(* backfill: the rows in the gap, reduced by rows on the diagonal, are     *)
(* equations in the dense columns alone.                                   *)
(***************************************************************************)
\* f[1] + ... + f[n], as the loops add it up.
SumTo(n, f) == LET sum[k \in 0..n] == IF k = 0 THEN 0 ELSE Add(sum[k - 1], f[k]) IN sum[n]
SumAt(list, f) == SumTo(Len(list), [k \in 1..Len(list) |-> f[list[k]]])
InC(i) == Range(rows[i]) \cap Range(mainCols)
Reduce(d, t) ==
  IF mainCols[t] \notin d.left THEN d
  ELSE [left |-> (d.left \cup InC(mainRows[t])) \ (d.left \cap InC(mainRows[t])),
        used |-> Append(d.used, mainRows[t])]
Reduced(r) ==
  LET d[t \in 0..Len(mainCols)] ==
        IF t = 0 THEN [left |-> InC(r), used |-> <<>>] ELSE Reduce(d[t - 1], t)
  IN d[Len(mainCols)]
\* getFCInv: the diagonal rows to add to the k-th of the gap.
\* Mutant: always the diagonal row of the same column.
FCInvSame(k) == <<gapRows[k][2]>>
FCInv(k) ==
  LET r == gapRows[k][1]  main == gapRows[k][2] IN
    IF rows[r] = rows[main] THEN <<main>> ELSE Reduced(r).used

\* d to the power n + 1.
Power(d, n) == LET pow[k \in 0..n] == IF k = 0 THEN d ELSE Mul(pow[k - 1], d) IN pow[n]
Coef(i, k) == IF type = "Binary" THEN BitOf(dense[i], k) ELSE Power(dense[i], k)
Times(coefs, p) == SumTo(DenseSize, [k \in 1..DenseSize |-> Mul(p[k - 1], coefs[k - 1])])

\* getEPrime and getX2Prime: one equation for each row of the gap.
Equation(list) ==
  [coefs |-> [c \in DenseCols |-> SumAt(list, [i \in Items |-> Coef(i, c)])], value |-> SumAt(list, X)]
GapSystem == [k \in DOMAIN gapRows |-> Equation(<<gapRows[k][1]>> \o FCInv(k))]

\* The dense columns G can carry the gap: E' is invertible on them.
OnGap(G, v, r) == [c \in DenseCols |-> IF c \in G THEN v[c] ELSE r[c]]
Zeros(S) == [c \in S |-> 0]
Invertible(G, E) ==
  \A v \in [G -> Elem] :
     (\A k \in DOMAIN E : Times(E[k].coefs, OnGap(G, v, Zeros(DenseCols))) = 0) => v = Zeros(G)
GapLimit == IF type = "Binary" THEN MaxGap ELSE DenseSize
GapCols(E) ==
  {G \in SUBSET DenseCols : /\ Cardinality(G) = Len(E)
                            /\ (type = "GF128" /\ ~prng) => G = 0..Len(E) - 1
                            /\ Invertible(G, E)}

\* gf128Inv: a zero on the diagonal is swapped only for a one below it.
InverseOf(x) == CHOOSE y \in Elem : Mul(x, y) = 1
Swapped(M, i) ==
  LET ones == {j \in DOMAIN M : j > i /\ M[j][i] = 1}
      row == IF M[i][i] # 0 \/ ones = {} THEN i ELSE CHOOSE j \in ones : \A l \in ones : j <= l
  IN [M EXCEPT ![i] = M[row], ![row] = M[i]]
Cleared(M, i) ==
  LET unit == [k \in DOMAIN M |-> Mul(M[i][k], InverseOf(M[i][i]))] IN
    [j \in DOMAIN M |-> IF j = i THEN unit ELSE [k \in DOMAIN M |-> Add(M[j][k], Mul(unit[k], M[j][i]))]]
Inverts(M) ==
  LET size == Cardinality(DOMAIN M)
      pass[n \in 0..size] ==
        IF n = 0 THEN {M}
        ELSE LET swapped == {Swapped(S, n - 1) : S \in pass[n - 1]} IN
               {Cleared(S, n - 1) : S \in {T \in swapped : T[n - 1][n - 1] # 0}}
  IN pass[size] # {}
\* EE: the gap's equations, with a prng under them as many random rows as
\* make it square.
Squares(E) ==
  LET top == 0..Len(E) - 1 IN
    IF prng THEN {[i \in DenseCols |-> IF i \in top THEN E[i + 1].coefs ELSE R[i]] :
                    R \in [DenseCols \ top -> [DenseCols -> RandomElems]]}
    ELSE {[i \in top |-> E[i + 1].coefs]}

\* getGapCols finds columns or throws; gf128Inv is not called without a gap.
Solvable(E) ==
  IF type = "GF128" /\ E # <<>> THEN \E M \in Squares(E) : Inverts(M) ELSE GapCols(E) # {}
Unsolvable(E) ==
  IF type = "GF128" THEN E # <<>> /\ \E M \in Squares(E) : ~Inverts(M) ELSE GapCols(E) = {}
SolveGap ==
  /\ pc = "gap" /\ Len(gapRows) <= GapLimit
  /\ \E E \in {e \in {GapSystem} : Solvable(e)} : \E G \in GapCols(E) :
       \E v \in [G -> Elem], r \in IF prng THEN [DenseCols \ G -> RandomElems] ELSE {Zeros(DenseCols \ G)} :
         LET p == OnGap(G, v, r) IN
           /\ \A k \in DOMAIN E : Times(E[k].coefs, p) = E[k].value
           /\ p2' = p
  /\ pc' = "back"
  /\ UNCHANGED <<inputs, weights, triangle, P>>
ThrowGap ==
  /\ pc = "gap"
  /\ Len(gapRows) > GapLimit \/ Unsolvable(GapSystem)
  /\ pc' = "thrown"
  /\ UNCHANGED <<inputs, weights, triangle, P, p2>>

\* decode1, and a lane of decode32: item i by its row.
Decode(q, row, i) == Add(SumAt(row, q), Times([k \in DenseCols |-> Coef(i, k)], p2))
\* decode of a sequence of items, hashed again.
DecodeAll(q, is) ==
  LET built == RowsBuilt([k \in DOMAIN is |-> hash[is[k]]]) IN [k \in DOMAIN is |-> Decode(q, built[k], is[k])]

\* The diagonal, from its last row to its first.
FillRow(t, q) == [q EXCEPT ![mainCols[t]] = Add(X[mainRows[t]], Decode(q, rows[mainRows[t]], mainRows[t]))]
Filled(n) ==
  LET q[k \in 0..n] == IF k = 0 THEN P ELSE FillRow(Len(mainRows) + 1 - k, q[k - 1]) IN q[n]
Backfill ==
  /\ pc = "back"
  /\ P' = Filled(Len(mainRows))
  /\ pc' = "done"
  /\ UNCHANGED <<inputs, weights, triangle, p2>>

Ended == pc \in {"done", "thrown"} /\ UNCHANGED vars

Next == SetInput \/ TakeColumn \/ ThrowColumn \/ Triangulated \/ SolveGap \/ ThrowGap \/ Backfill \/ Ended
Spec == Init /\ [][Next]_vars

(***************************************************************************)
(* Properties                                                              *)
(***************************************************************************)

\* The row of an item is one and the same whether the encoder or the decoder
\* meets it in a batch (buildRow32) or in the tail (buildRow): the commented
\* asserts of buildRow32.
RowsAgree ==
  \A i \in Items :
     /\ BuildRow32(hash, mWeight, SparseSize)[i] = BuildRow(hash[i], mWeight, SparseSize)
     /\ rows # Nothing => rows[i] = BuildRow(hash[i], mWeight, SparseSize)

\* It has mWeight distinct columns, all of them sparse: rebuildColumns and
\* triangulate would count a repeated column twice.
RowsApart ==
  rows # Nothing => \A i \in Items : /\ Len(rows[i]) = mWeight /\ IsInjective(rows[i])
                                    /\ Range(rows[i]) \subseteq Cols

\* WeightData is exact (WeightData::validate): a column that is not taken is
\* in one list, that of the number of its rows that are not set; a taken one
\* is in none; and the last list is never empty.
Listed(c) ==
  {e \in (1..Len(sets)) \X (1..SparseSize) : e[2] <= Len(sets[e[1]]) /\ sets[e[1]][e[2]] = c}
WeightsExact ==
  pc = "triangulate" =>
    /\ sets # <<>> /\ sets[Len(sets)] # <<>>
    /\ \A c \in Cols :
         IF c \in Range(mainCols) THEN Listed(c) = {} /\ weight[c] = 0
         ELSE /\ weight[c] = Cardinality({i \in Items \ rowSet : c \in Range(rows[i])})
              /\ Cardinality(Listed(c)) = 1 /\ \A e \in Listed(c) : e[1] = weight[c] + 1

\* There is a gap exactly when some rows have no column of their own (a
\* 2-core): the order triangulate takes the columns in never adds to it.  And
\* only then encode throws, be it for a repeated key, a gap over its limit or
\* a singular E'; so never for a column without a row.
Core(S) == \A i \in S, c \in Cols : c \in Range(rows[i]) => \E j \in S \ {i} : c \in Range(rows[j])
HasCore == \E S \in (SUBSET Items) \ {{}} : Core(S)
GapOnlyOnCore ==
  /\ pc = "gap" => (gapRows # <<>> <=> HasCore)
  /\ pc = "thrown" => HasCore

\* When encode returns, decode gives every item its value, alone or with the
\* others, in another order than encode's: with random free columns too, where
\* the code relies on a gap of rows that repeat a diagonal one ("we assume only
\* duplcate rows in the gap", getX2Prime) and loses the value of the items of
\* the gap that do not.  It loses theirs and no other's.
Lost == IF prng THEN {g[1] : g \in {h \in Range(gapRows) : rows[h[1]] # rows[h[2]]}} ELSE {}
EncodeSolves ==
  pc = "done" =>
     \A is \in {Reverse([i \in Items |-> i])} \cup {<<i>> : i \in Items} :
        LET decoded == DecodeAll(P, is) IN \A k \in DOMAIN is : is[k] \in Lost \/ decoded[k] = X[is[k]]
=============================================================================
