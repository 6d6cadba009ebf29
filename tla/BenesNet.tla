------------------------------ MODULE BenesNet ------------------------------
(***************************************************************************)
(* The permutation network of PS/benes.cpp for any number of items from    *)
(* two on: its switches in the order the recursions visit them.  Benes     *)
(* routes a permutation through it, PermShare walks values through it.     *)
(*                                                                         *)
(* The code copies values into a bottom and a top half, recurses, and      *)
(* copies them back.  Here the halves are the places they were copied      *)
(* from, so the network is a sequence of switches, each of which may swap  *)
(* two places.  A switch is named by its index in getSwitchesAsBitVec.     *)
(***************************************************************************)
EXTENDS Integers, Sequences

\* 1 << k
Pow2[k \in Nat] == IF k = 0 THEN 1 ELSE 2 * Pow2[k - 1]

\* Sizes: mLogN, mNumColumns, the length of a column.
LogN(n) == CHOOSE k \in 0..n : Pow2[k] >= n /\ \A j \in 0..k - 1 : Pow2[j] < n
NumColumns(n) == 2 * LogN(n) - 1
Rows(n) == n \div 2
SwitchCount(n) == NumColumns(n) * Rows(n)
At(n, column, row) == column * Rows(n) + row

\* Where a column of a network on 2^k places sends place i.
Shuffle(i, k) == ((i % 2) * Pow2[k - 1]) + (i \div 2)
ToBottom(i, k, size) == Shuffle(i, k) < size \div 2

\* Which of the places i and i + 1 of a switch goes to the bottom half.
Lower(i, k, size) == IF ToBottom(i, k, size) THEN 0 ELSE 1

\* The places of the two halves; an odd last place belongs to the top.
BottomOf(wires, k) ==
  LET size == Len(wires) IN
  [x \in 1..size \div 2 |-> wires[2 * x - 1 + Lower(2 * x - 2, k, size)]]
TopOf(wires, k) ==
  LET size == Len(wires) IN
  [x \in 1..size - (size \div 2) |->
     IF x <= size \div 2 THEN wires[2 * x - Lower(2 * x - 2, k, size)] ELSE wires[size]]

\* The row a subnetwork's top half starts at.
\* Mutant: one short for a size that is a multiple of four.
TopRowShort(permIdx, size) == permIdx + ((size - 1) \div 4)
TopRow(permIdx, size) == permIdx + (size \div 4)

\* One switch, and a column of them, one for each two neighbours.
Visit(n, column, row, wires, lo, hi, last) ==
  [at |-> At(n, column, row), lo |-> wires[lo], hi |-> wires[hi], last |-> last]
Column(n, column, permIdx, wires, last) ==
  [x \in 1..Len(wires) \div 2 |-> Visit(n, column, permIdx + x - 1, wires, 2 * x - 1, 2 * x, last)]

(***************************************************************************)
(* The switches the recursion visits on the places wires, in order, where  *)
(* inner is what it visits one level down.  Those of the last column of a  *)
(* subnetwork are marked: there the masks are added after the swap.        *)
(***************************************************************************)
Depth(n, coDepth) == LogN(n) - coDepth
OnTwo(n, coDepth, permIdx, wires) ==
  <<Visit(n, Depth(n, coDepth) + (IF coDepth = 1 THEN 0 ELSE 1), permIdx, wires, 1, 2, FALSE)>>
OnThree(n, coDepth, permIdx, wires) ==
  <<Visit(n, Depth(n, coDepth), permIdx, wires, 1, 2, FALSE),
    Visit(n, Depth(n, coDepth) + 1, permIdx, wires, 2, 3, FALSE),
    Visit(n, Depth(n, coDepth) + 2, permIdx, wires, 1, 2, FALSE)>>
OnMore(n, coDepth, permIdx, wires, inner) ==
  Column(n, Depth(n, coDepth), permIdx, wires, FALSE)
  \o inner[<<permIdx, BottomOf(wires, coDepth)>>]
  \o inner[<<TopRow(permIdx, Len(wires)), TopOf(wires, coDepth)>>]
  \o Column(n, Depth(n, coDepth) + 2 * coDepth - 2, permIdx, wires, TRUE)
Level(n, coDepth, permIdx, wires, inner) ==
  CASE Len(wires) = 2 -> OnTwo(n, coDepth, permIdx, wires)
    [] Len(wires) = 3 -> OnThree(n, coDepth, permIdx, wires)
    [] OTHER -> OnMore(n, coDepth, permIdx, wires, inner)

\* The recursion, for every row to start at and all places; coDepth is at least
\* one where there are two places.
Subnet(n) ==
  LET sub[coDepth \in 0..LogN(n)] ==
        [a \in Nat \X Seq(Nat) |->
           IF coDepth = 0 THEN <<>> ELSE Level(n, coDepth, a[1], a[2], sub[coDepth - 1])]
  IN sub
Network(n) == Subnet(n)[LogN(n)][<<0, [i \in 1..n |-> i - 1]>>]
=============================================================================
