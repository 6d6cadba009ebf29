------------------------------- MODULE IsZero -------------------------------
(***************************************************************************)
(* isZeroCircuit(bits): all input bits are inverted, then ANDed in a tree, *)
(* in place, the result on wire 0.  The library keeps an inversion pending *)
(* on the wire and folds it into the first gate that reads the wire.       *)
(***************************************************************************)
EXTENDS Integers, Sequences

\* The tree halves while step < bits; Step[Depth(bits)] is the first step not below.
Step[d \in Nat] == IF d = 0 THEN 1 ELSE 2 * Step[d - 1]
Depth(bits) == CHOOSE d \in 0..bits : Step[d] >= bits /\ \A e \in 0..d - 1 : Step[e] < bits

\* addInvert before any gate: wire i is inverted until a gate writes it.
Pending(bits, step, i) == step = 1 \/ i + 1 >= bits

\* addGate folds pending inversions of its inputs into the gate type.
FoldedAnd(na, nb) == CASE na /\ nb   -> "Nor"
                       [] na /\ ~nb  -> "na_And"
                       [] ~na /\ nb  -> "nb_And"
                       [] ~na /\ ~nb -> "And"

StepGates(bits, step) ==
  [k \in 1 .. (bits - step - 1) \div (2 * step) + 1 |->
     LET i == 2 * step * (k - 1) IN
       [type |-> FoldedAnd(Pending(bits, step, i), Pending(bits, step, i + step)),
        in0 |-> i, in1 |-> i + step, out |-> i]]

\* The gates of the first d steps.
Tree(bits) ==
  LET upTo[d \in 0..Depth(bits)] ==
        IF d = 0 THEN <<>> ELSE upTo[d - 1] \o StepGates(bits, Step[d - 1])
  IN upTo
IsZeroGates(bits) == Tree(bits)[Depth(bits)]

\* Every step of the tree is one level: its gates need the step before it.
IsZeroLevels(bits) == [d \in 1..Depth(bits) |-> Len(Tree(bits)[d])]
=============================================================================
