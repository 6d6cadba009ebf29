------------------------------ MODULE MCRsPsi ------------------------------
(***************************************************************************)
(* Instances of RsPsi: four items of the receiver, every way to spread     *)
(* them over three owners up to their order; the sender has all of them or *)
(* all but one, and one more when its set is the larger one.               *)
(***************************************************************************)
EXTENDS RsPsi

MCByte == 0..9
Item(lo, i) == [b \in 0..Block - 1 |-> CASE b = 0 -> lo [] b = 1 -> i [] OTHER -> 6 + b]
Spread == {f \in [0..RecvSize - 1 -> 0..2] : \A i \in 1..RecvSize - 1 : f[i - 1] <= f[i]}
Backwards(mine) ==
  [k \in 0..SendSize - 1 |-> IF k < RecvSize THEN mine[RecvSize - 1 - k] ELSE Item(mine[0][0], 8)]
MCInstances ==
  UNION {LET mine == [i \in 0..RecvSize - 1 |-> Item(f[i], i)] IN
           {[mine |-> mine, theirs |-> Backwards(mine)],
            [mine |-> mine, theirs |-> [Backwards(mine) EXCEPT ![1] = Item(f[0], 9)]]} :
         f \in Spread}
=============================================================================
