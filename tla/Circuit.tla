------------------------------ MODULE Circuit ------------------------------
(***************************************************************************)
(* Boolean circuits as GMW evaluates them: a list of gates over reusable   *)
(* wires, cut into levels.  A wire word of the code is a row of bits on    *)
(* which every operation is bitwise, so one bit stands for the row.        *)
(***************************************************************************)
EXTENDS Naturals, Sequences, FiniteSets

CONSTANTS Wires,        \* the wires of the circuit (mCir.mWireCount of them)
          InputWires,   \* the wires setInput writes; the others start at zero
          Gates,        \* mCir.mGates, in the order the levels leave them
          LevelEnd      \* LevelEnd[r]: how many gates the first r levels hold

Bit == {0, 1}
Xor(a, b) == IF a = b THEN 0 ELSE 1
And(a, b) == IF a = 1 /\ b = 1 THEN 1 ELSE 0
Not(a) == Xor(a, 1)

LinearTypes == {"a", "Xor", "Nxor"}
AndTypes == {"And", "Or", "Nor", "na_And", "nb_And"}
Gate == [type : LinearTypes \cup AndTypes, in0 : Wires, in1 : Wires, out : Wires]

NumGates == Len(Gates)
NumRounds == Len(LevelEnd)
End(r) == IF r = 0 THEN 0 ELSE LevelEnd[r]

IsAnd(g) == Gates[g].type \in AndTypes
Reads(g) == IF Gates[g].type = "a" THEN {Gates[g].in0}
                                   ELSE {Gates[g].in0, Gates[g].in1}

\* How many of the first n gates need a triple; mNonlinearGateCount in all.
AndBefore(n) == Cardinality({h \in 1..n : IsAnd(h)})
NumAnd == AndBefore(NumGates)

(***************************************************************************)
(* What roundFunction needs of the levels: inside one level nothing may    *)
(* read the output of an AND gate before it (a dirty wire) or overwrite    *)
(* the input of one (a pinned wire).  roundFunction tests both.  Nor may a *)
(* local gate overwrite what an AND gate before it writes only in the      *)
(* second loop: that is not tested, and taken of the circuit (it holds of  *)
(* isZeroCircuit).                                                         *)
(***************************************************************************)
SameLevel(g, h) == \E r \in 1..NumRounds : {g, h} \subseteq End(r - 1) + 1 .. End(r)

Levelized == \A g, h \in 1..NumGates :
                (g < h /\ IsAnd(g) /\ SameLevel(g, h)) =>
                   /\ Gates[g].out \notin Reads(h)
                   /\ Gates[h].out \notin Reads(g)
                   /\ ~IsAnd(h) => Gates[h].out # Gates[g].out

ASSUME CircuitAssumption ==
  /\ InputWires \subseteq Wires
  /\ Gates \in Seq(Gate)
  /\ LevelEnd \in Seq(0..NumGates)
  /\ \A r \in 1..NumRounds : End(r - 1) <= End(r)
  /\ End(NumRounds) = NumGates

\* The plain meaning of a gate.
EvalGate(type, x, y) ==
  CASE type = "a"      -> x
    [] type = "And"    -> And(x, y)
    [] type = "Or"     -> Not(And(Not(x), Not(y)))
    [] type = "Nor"    -> And(Not(x), Not(y))
    [] type = "nb_And" -> And(x, Not(y))
    [] type = "na_And" -> And(Not(x), y)
    [] type = "Xor"    -> Xor(x, y)
    [] type = "Nxor"   -> Not(Xor(x, y))

\* h is the last of the first n gates that writes w; 0 if none does.
IsLastWriter(h, w, n) == /\ h \in 0..n
                         /\ h # 0 => Gates[h].out = w
                         /\ \A k \in h + 1 .. n : Gates[k].out # w
LastWriter(w, n) == CHOOSE h \in 0..n : IsLastWriter(h, w, n)

\* The value wire w holds after n gates, given the inputs and gate outputs.
ValueAt(inputs, vals, w, n) ==
  LET h == LastWriter(w, n) IN IF h = 0 THEN inputs[w] ELSE vals[h]

\* vals is what the gates evaluate to, one after another, on these inputs.
IsEvaluation(inputs, vals) ==
  \A g \in 1..NumGates :
     vals[g] = EvalGate(Gates[g].type, ValueAt(inputs, vals, Gates[g].in0, g - 1),
                                       ValueAt(inputs, vals, Gates[g].in1, g - 1))

Inputs == {f \in [Wires -> Bit] : \A w \in Wires \ InputWires : f[w] = 0}
=============================================================================
