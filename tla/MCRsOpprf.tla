---------------------------- MODULE MCRsOpprf ----------------------------
(***************************************************************************)
(* RsOpprf with three keys, blocks of two one-bit bytes, and tables of     *)
(* three slots of which a key's row is two: rows of the three keys are     *)
(* independent, two by two, under every seed and type.                     *)
(***************************************************************************)
EXTENDS RsOpprf, FiniteSets

CONSTANTS k1, k2, k3, s1, s2

MCKeys == {k1, k2, k3}
MCSeeds == {s1, s2}
MCPrfs == {f \in [MCKeys -> Bytes(2)] : f[k1] # f[k2] /\ f[k2] # f[k3]}
MCCtr(b, w) == [j \in 0..w - 1 |-> IF j = 0 THEN b[1] ELSE (b[0] + b[1] * j) % 2]

\* The slots of a key's row; the dense part of a GF128 row turns them.
Start(s, k) == CASE k = k1 -> 0 [] k = k2 -> IF s = s1 THEN 1 ELSE 2 [] k = k3 -> IF s = s1 THEN 2 ELSE 1
Row(s, t, k) == LET a == (Start(s, k) + (IF t = "GF128" THEN 1 ELSE 0)) % 3 IN {a, (a + 1) % 3}
MCDecode(s, t, k, P) ==
  [j \in DOMAIN P[0] |-> Cardinality({slot \in Row(s, t, k) : P[slot][j] = 1}) % 2]
\* The first slot is the free one solve fills at random.
MCTables(w) == {P \in [0..2 -> Bytes(w)] : \A j \in 0..w - 1 : P[0][j] = P[0][0]}
MCPrograms(w) ==
  {[keys |-> <<a, k2>>, vals |-> <<[j \in 0..w - 1 |-> b], [j \in 0..w - 1 |-> (j + b) % 2]>>] :
     a \in {k1, k3}, b \in 0..1}
MCQueries == {<<k1, k2>>, <<k3, k1, k2>>}
=============================================================================
