------------------------------ MODULE MCPaxos ------------------------------
(***************************************************************************)
(* Paxos with four rows of three or of two in six columns, and the field   *)
(* of eight elements.  The first three items are hashed as a batch.  The   *)
(* rows of three that the hashes give are 012, 013, 230, 034, 135, 245 and *)
(* 210: repeated rows (one of them in another order), a core of three rows *)
(* that are independent and one of four that are not; and those of two     *)
(* close cycles of two, three and four rows.                               *)
(***************************************************************************)
EXTENDS Paxos

MCHashes == {<<0, 5, 8>>, <<6, 0, 1>>, <<8, 7, 4>>, <<0, 2, 6>>, <<1, 2, 3>>, <<2, 3, 7>>, <<14, 6, 0>>}
MCKeys == {<<1, 2, 5, 7>>, <<3, 6, 3, 4>>}
MCValues == {<<1, 6, 2, 4>>}
MCElem == 0..7
MCBitOf(x, k) == (x \div 2^k) % 2
Plus == [x, y \in MCElem |-> ((x + y) % 2) + 2 * ((MCBitOf(x, 1) + MCBitOf(y, 1)) % 2)
                              + 4 * ((MCBitOf(x, 2) + MCBitOf(y, 2)) % 2)]
\* x^3 = x + 1.
Double(x) == IF x < 4 THEN 2 * x ELSE Plus[2 * (x - 4), 3]
If(bit, x) == IF bit = 1 THEN x ELSE 0
Product == [x, y \in MCElem |->
  Plus[If(MCBitOf(y, 0), x), Plus[If(MCBitOf(y, 1), Double(x)), If(MCBitOf(y, 2), Double(Double(x)))]]]
MCAdd(x, y) == Plus[x, y]
MCMul(x, y) == Product[x, y]
=============================================================================
