---------------------------- MODULE MCPermShare ----------------------------
(***************************************************************************)
(* PermShare on the networks of module Benes: every permutation of two to  *)
(* five items, and rotations and the reversal of larger even and odd       *)
(* sizes.  All inputs, masks and OT messages are unknowns of their own, so *)
(* a result that is right here is right for all their values.              *)
(***************************************************************************)
EXTENDS PermShare, Benes

CONSTANTS AllPermsOf, SomePermsOf  \* the sizes with every permutation, and with some

Perms(n) == {p \in [0..n - 1 -> 0..n - 1] : IsInjective(p)}
Rotations(n) == {[i \in 0..n - 1 |-> (i + d) % n] : d \in {1, n - 2}} \cup {[i \in 0..n - 1 |-> n - 1 - i]}
Routed(n, perms) ==
  LET net == Network(n) IN
  {[n |-> n, perm |-> p, net |-> net, switches |-> Route(n, p)] : p \in perms}
MCInstances == UNION {Routed(n, Perms(n)) : n \in AllPermsOf}
               \cup UNION {Routed(n, Rotations(n)) : n \in SomePermsOf}

Sizes == AllPermsOf \cup SomePermsOf
Largest == CHOOSE n \in Sizes : \A k \in Sizes : k <= n
MCAtoms == ({"in", "mask"} \X (0..Largest))
           \cup ({"ot"} \X (0..Largest * Largest) \X (0..1) \X (0..1))
MCInput(i) == {<<"in", i>>}
MCMask(i) == {<<"mask", i>>}
MCOtMsg(i, c, h) == {<<"ot", i, c, h>>}
MCChoicesOf(k) == {[i \in 0..k - 1 |-> (i + 1) % 2], [i \in 0..k - 1 |-> IF i % 3 = 0 THEN 1 ELSE 0]}
=============================================================================
