----------------------------- MODULE PlainEval -----------------------------
(***************************************************************************)
(* What GMW promises: the circuit is evaluated in the clear, one gate      *)
(* after another, on the inputs the two shares add up to.  This is the     *)
(* evaluation roundFunction repeats on mO.mWords when mO.mDebug is set.    *)
(***************************************************************************)
EXTENDS Circuit

VARIABLES secret,   \* the recombined value of every wire before the first gate
          plain     \* the values of the gates evaluated so far

Init == secret \in Inputs /\ plain = <<>>

EvalNext ==
  LET n == Len(plain)
      g == Gates[n + 1]
      in(w) == ValueAt(secret, plain, w, n)
  IN /\ n < NumGates
     /\ plain' = Append(plain, EvalGate(g.type, in(g.in0), in(g.in1)))
     /\ UNCHANGED secret

Spec == Init /\ [][EvalNext]_<<secret, plain>>
=============================================================================
