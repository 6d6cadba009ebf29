----------------------------- MODULE MCRsOprf -----------------------------
(***************************************************************************)
(* Instances of RsOprf: two values, rows of two slots, the field of four   *)
(* elements (two for the long vector), chunks of two.                      *)
(***************************************************************************)
EXTENDS RsOprf, FiniteSetsExt

CONSTANTS x1, x2, s1, s2, Bits  \* Bits: of a field element

MCF == 0..2^Bits - 1
Add4 == <<<<0, 1, 2, 3>>, <<1, 0, 3, 2>>, <<2, 3, 0, 1>>, <<3, 2, 1, 0>>>>
Mul4 == <<<<0, 0, 0, 0>>, <<0, 1, 2, 3>>, <<0, 2, 3, 1>>, <<0, 3, 1, 2>>>>
MCAdd(x, y) == Add4[x + 1][y + 1]
MCMul(x, y) == Mul4[x + 1][y + 1]

MCItems == {x1, x2}
MCSeeds == {s1, s2}
\* The slots an item's value is the sum of, by seed.
MCRow(s, x) == CASE s = s1 /\ x = x1 -> {0, 1} [] s = s1 /\ x = x2 -> {1, NumSlots - 1}
                 [] s = s2 /\ x = x1 -> {0, 2} [] s = s2 /\ x = x2 -> {0, 1}
MCDecode(s, x, v) == FoldSet(LAMBDA i, acc : MCAdd(v[i], acc), 0, MCRow(s, x))
MCHash(x) == IF x = x1 THEN 1 ELSE 2^Bits - 1

MCCoins == {[seed |-> s, wr |-> 1, ws |-> w, d |-> d, mal |-> m] :
              s \in MCSeeds, w \in {0, 2^Bits - 1}, d \in MCF, m \in BOOLEAN}
MCVoles == {[a |-> [i \in Slots |-> (e + i) % 2^Bits],
             c |-> [i \in Slots |-> IF i = k THEN 0 ELSE 2^Bits - 1]] : e \in MCF, k \in 0..2}
=============================================================================
