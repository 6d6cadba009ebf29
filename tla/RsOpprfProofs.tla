--------------------------- MODULE RsOpprfProofs ---------------------------
(***************************************************************************)
(* The programmable PRF, for every width, OPRF, decoder, program and       *)
(* query: the sender's eval of its own keys gives their values, and what   *)
(* the receiver puts out is what the sender's eval gives, for values that  *)
(* are not exactly one block.  And circuit PSI on top of it, for every     *)
(* hashing and placement, sets, values, share type and key length: what    *)
(* both sides put out is a shared join.                                    *)
(***************************************************************************)
EXTENDS RsOpprf, RsCpsi, SequenceTheorems, WellFoundedInduction, TLAPS

(***************************************************************************)
(* The inductive invariant: which messages are under way, which Baxos each *)
(* side has, and what both make of the OPRF.                               *)
(***************************************************************************)
InputInv == m \in Widths /\ prf \in Prfs /\ program \in Programs(m) /\ query \in Queries
Types == {"Binary", "GF128"}
PaxosInv == \E s \in Seeds, t \in Types : sPaxos = [seed |-> s, type |-> t] /\ t = TypeFor(m)
Encoded ==
  /\ mP \in Tables(m)
  /\ \A i \in DOMAIN program.keys : Decode(sPaxos.seed, sPaxos.type, program.keys[i], mP) = Diff(i)
Sum(k) == Xor(Stretch(prf[k]), Decode(sPaxos.seed, sPaxos.type, k, mP))
StageInv ==
  \/ spc = "start" /\ rpc = "seed" /\ toReceiver = <<>>
  \/ spc = "oprf" /\ rpc = "seed" /\ PaxosInv /\ toReceiver = <<sPaxos.seed>>
  \/ spc = "oprf" /\ rpc = "oprf" /\ PaxosInv /\ rPaxos = sPaxos /\ toReceiver = <<>>
  \/ spc = "solve" /\ rpc = "recv" /\ PaxosInv /\ rPaxos = sPaxos /\ toReceiver = <<>>
  \/ spc = "done" /\ rpc = "recv" /\ PaxosInv /\ rPaxos = sPaxos /\ toReceiver = <<mP>> /\ Encoded
  \/ spc = "done" /\ rpc = "done" /\ PaxosInv /\ toReceiver = <<>> /\ Encoded
OutputInv ==
  /\ rpc = "recv" => oprfOutput = [i \in DOMAIN query |-> prf[query[i]]]
  /\ rpc = "done" /\ m # BlockBytes => outputs = [i \in DOMAIN query |-> Sum(query[i])]
OpprfInv == InputInv /\ StageInv /\ OutputInv

(***************************************************************************)
(* Strings of bits.                                                        *)
(***************************************************************************)
LEMMA XorBack ==
  ASSUME NEW n, NEW a \in Bytes(n), NEW b \in Bytes(n)
  PROVE  Xor(Xor(a, b), b) = a
<1>1. \A j \in 0..n - 1 : (((a[j] + b[j]) % 2) + b[j]) % 2 = a[j]
  <2> SUFFICES ASSUME NEW j \in 0..n - 1 PROVE (((a[j] + b[j]) % 2) + b[j]) % 2 = a[j]
    OBVIOUS
  <2>1. a[j] \in 0..1 /\ b[j] \in 0..1
    BY DEF Bytes
  <2> QED BY <2>1
<1>2. DOMAIN a = 0..n - 1 /\ a = [j \in 0..n - 1 |-> a[j]]
  BY DEF Bytes
<1> QED BY <1>1, <1>2 DEF Xor

LEMMA XorSwap ==
  ASSUME NEW n, NEW a \in Bytes(n), NEW b \in Bytes(n)
  PROVE  Xor(a, b) = Xor(b, a)
<1>1. DOMAIN a = 0..n - 1 /\ DOMAIN b = 0..n - 1
  BY DEF Bytes
<1>2. \A j \in 0..n - 1 : (a[j] + b[j]) % 2 = (b[j] + a[j]) % 2
  <2> SUFFICES ASSUME NEW j \in 0..n - 1 PROVE (a[j] + b[j]) % 2 = (b[j] + a[j]) % 2
    OBVIOUS
  <2>1. a[j] \in 0..1 /\ b[j] \in 0..1
    BY DEF Bytes
  <2> QED BY <2>1
<1> QED BY <1>1, <1>2 DEF Xor

\* An OPRF output has the width of the values.
LEMMA StretchIn ==
  ASSUME InputInv, NEW k \in Keys
  PROVE  Stretch(prf[k]) \in Bytes(m)
<1>1. prf[k] \in Bytes(BlockBytes) /\ m \in Nat \ {0} /\ BlockBytes \in Nat \ {0} /\ m \in Widths
  BY OpprfAssumption DEF InputInv
<1>2. CASE m <= BlockBytes
  <2>1. \A j \in 0..m - 1 : prf[k][j] \in 0..1
    BY <1>1, <1>2 DEF Bytes
  <2> QED BY <1>2, <2>1 DEF Stretch, Bytes
<1>3. CASE ~(m <= BlockBytes)
  <2>1. Ctr(prf[k], m) \in Bytes(m)
    BY <1>1, OpprfAssumption
  <2> QED BY <1>3, <2>1 DEF Stretch
<1> QED BY <1>2, <1>3

\* And so has what the table decodes to.
LEMMA DecodeIn ==
  ASSUME InputInv, PaxosInv, mP \in Tables(m), NEW k \in Keys
  PROVE  Decode(sPaxos.seed, sPaxos.type, k, mP) \in Bytes(m)
<1>1. sPaxos.seed \in Seeds /\ sPaxos.type \in Types /\ m \in Widths
  BY DEF PaxosInv, InputInv
<1> QED BY <1>1, OpprfAssumption DEF Types

\* eval of what is decoded: the two places of the OPRF are the same memory.
LEMMA EvalIs ==
  ASSUME NEW k
  PROVE  Eval(k) = Xor(Decode(sPaxos.seed, sPaxos.type, k, mP), Stretch(prf[k]))
  BY DEF Eval, OprfEval, IntoOut

LEMMA DiffIs ==
  ASSUME NEW i
  PROVE  Diff(i) = Xor(program.vals[i], Stretch(prf[program.keys[i]]))
  BY DEF Diff, OprfEval, IntoOut

(***************************************************************************)
(* The steps.                                                              *)
(***************************************************************************)
LEMMA OpprfInit == Init => OpprfInv
  BY DEF Init, OpprfInv, InputInv, StageInv, OutputInv

LEMMA Carried ==
  ASSUME InputInv, UNCHANGED inputs
  PROVE  /\ InputInv' /\ m' = m /\ prf' = prf /\ program' = program /\ query' = query
         /\ TypeFor(m)' = TypeFor(m)
  BY DEF InputInv, inputs, TypeFor

LEMMA StartStep == ASSUME OpprfInv, SStart PROVE OpprfInv'
<1>1. InputInv' /\ m' = m
  BY Carried DEF OpprfInv, SStart
<1>2. PICK s \in Seeds : sPaxos' = [seed |-> s, type |-> TypeFor(m)] /\ toReceiver' = Append(toReceiver, s)
  BY DEF SStart
<1>3. spc' = "oprf" /\ rpc' = "seed" /\ toReceiver' = <<s>>
  BY <1>2 DEF OpprfInv, StageInv, SStart
<1>4. PaxosInv'
  BY <1>1, <1>2 DEF PaxosInv, TypeFor, Types
<1>5. StageInv'
  BY <1>2, <1>3, <1>4 DEF StageInv
<1> QED BY <1>1, <1>3, <1>5 DEF OpprfInv, OutputInv

LEMMA SeedStep == ASSUME OpprfInv, RSeed PROVE OpprfInv'
<1>1. InputInv' /\ m' = m
  BY Carried DEF OpprfInv, RSeed
<1>2. /\ spc = "oprf" /\ PaxosInv /\ toReceiver = <<sPaxos.seed>> /\ sPaxos' = sPaxos /\ spc' = "oprf"
      /\ rpc' = "oprf" /\ toReceiver' = Tail(toReceiver)
      /\ rPaxos' = [seed |-> Head(toReceiver), type |-> TypeFor(m)]
  BY DEF OpprfInv, StageInv, RSeed
<1>3. rPaxos' = sPaxos'
  BY <1>2 DEF PaxosInv
<1>4. PaxosInv'
  BY <1>1, <1>2 DEF PaxosInv, TypeFor
<1>5. toReceiver' = <<>>
  BY <1>2
<1>6. StageInv'
  BY <1>2, <1>3, <1>4, <1>5 DEF StageInv
<1> QED BY <1>1, <1>2, <1>6 DEF OpprfInv, OutputInv

LEMMA OprfStep == ASSUME OpprfInv, Oprf PROVE OpprfInv'
<1>1. InputInv' /\ m' = m /\ prf' = prf /\ query' = query
  BY Carried DEF OpprfInv, Oprf
<1>2. /\ PaxosInv /\ rPaxos = sPaxos /\ toReceiver = <<>> /\ spc' = "solve" /\ rpc' = "recv"
      /\ sPaxos' = sPaxos /\ rPaxos' = rPaxos /\ toReceiver' = toReceiver
      /\ oprfOutput' = [i \in DOMAIN query |-> prf[query[i]]]
  BY DEF OpprfInv, StageInv, Oprf
<1>3. PaxosInv'
  BY <1>1, <1>2 DEF PaxosInv, TypeFor
<1>4. StageInv'
  BY <1>2, <1>3 DEF StageInv
<1> QED BY <1>1, <1>2, <1>4 DEF OpprfInv, OutputInv

LEMMA SolveStep == ASSUME OpprfInv, SSolve PROVE OpprfInv'
<1>1. InputInv' /\ m' = m /\ prf' = prf /\ program' = program /\ query' = query
  BY Carried DEF OpprfInv, SSolve
<1>2. /\ PaxosInv /\ rPaxos = sPaxos /\ rpc = "recv" /\ spc' = "done" /\ rpc' = "recv"
      /\ sPaxos' = sPaxos /\ rPaxos' = rPaxos /\ oprfOutput' = oprfOutput
      /\ toReceiver' = <<mP'>> /\ mP' \in Solutions
  BY DEF OpprfInv, StageInv, SSolve
<1>3. PaxosInv'
  BY <1>1, <1>2 DEF PaxosInv, TypeFor
<1>4. PICK P : P = mP' /\ P \in Tables(m)
               /\ \A i \in DOMAIN program.keys :
                    Decode(sPaxos.seed, sPaxos.type, program.keys[i], P) = Diff(i)
  BY <1>2 DEF Solutions
<1>5. Encoded'
  <2>1. \A i : Diff(i)' = Diff(i)
    BY <1>1 DEF Diff, OprfEval, IntoOut, Stretch
  <2> QED BY <1>1, <1>2, <1>4, <2>1, Zenon DEF Encoded
<1>6. StageInv'
  BY <1>2, <1>3, <1>5 DEF StageInv
<1> QED BY <1>1, <1>2, <1>6 DEF OpprfInv, OutputInv

LEMMA DecodeStep == ASSUME OpprfInv, RDecode PROVE OpprfInv'
<1>1. InputInv' /\ m' = m /\ prf' = prf /\ program' = program /\ query' = query
  BY Carried DEF OpprfInv, RDecode
<1>2. /\ PaxosInv /\ rPaxos = sPaxos /\ rpc = "recv" /\ spc = "done" /\ toReceiver = <<mP>> /\ Encoded
      /\ spc' = "done" /\ rpc' = "done" /\ sPaxos' = sPaxos /\ mP' = mP /\ toReceiver' = Tail(toReceiver)
      /\ outputs' = [i \in DOMAIN query |->
           Xor(Before(i), Decode(rPaxos.seed, rPaxos.type, query[i], Head(toReceiver)))]
      /\ oprfOutput = [i \in DOMAIN query |-> prf[query[i]]]
  BY DEF OpprfInv, StageInv, OutputInv, RDecode
<1>3. PaxosInv' /\ toReceiver' = <<>> /\ Head(toReceiver) = mP
  BY <1>1, <1>2 DEF PaxosInv, TypeFor
<1>4. Encoded'
  BY <1>1, <1>2, Zenon DEF Encoded, Diff, OprfEval, IntoOut, Stretch
<1>5. ASSUME m # BlockBytes PROVE outputs' = [i \in DOMAIN query |-> Sum(query[i])]
  <2>1. \A i \in DOMAIN query : Before(i) = Stretch(prf[query[i]])
    BY <1>2, <1>5 DEF Before
  <2>2. \A i \in DOMAIN query :
          Xor(Before(i), Decode(rPaxos.seed, rPaxos.type, query[i], Head(toReceiver))) = Sum(query[i])
    BY <1>2, <1>3, <2>1, Zenon DEF Sum
  <2> QED BY <1>2, <2>2, Zenon
<1>6. OutputInv'
  <2>1. m # BlockBytes => outputs' = [i \in DOMAIN query |-> Sum(query[i])]'
    <3> SUFFICES ASSUME m # BlockBytes PROVE outputs' = [i \in DOMAIN query |-> Sum(query[i])]'
      OBVIOUS
    <3> QED BY <1>1, <1>2, <1>5, Zenon DEF Sum, Stretch
  <2> QED BY <1>1, <1>2, <2>1 DEF OutputInv
<1>7. StageInv'
  BY <1>2, <1>3, <1>4 DEF StageInv
<1> QED BY <1>1, <1>6, <1>7 DEF OpprfInv

LEMMA OpprfStep == ASSUME OpprfInv, [Next]_vars PROVE OpprfInv'
<1>1. CASE Done \/ UNCHANGED vars
  BY <1>1 DEF Done, vars, OpprfInv, InputInv, StageInv, OutputInv, PaxosInv, Encoded, TypeFor,
     Diff, OprfEval, IntoOut, Stretch, Sum
<1> QED BY <1>1, StartStep, SeedStep, OprfStep, SolveStep, DecodeStep DEF Next

(***************************************************************************)
(* The theorems.                                                           *)
(***************************************************************************)

\* For every width, OPRF, encoding and program: once RsOpprfSender::send is
\* over, eval of a key of the sender gives its value, the three cases of
\* oprfEval with separate and with shared memory included.
THEOREM OpprfProgrammed == Spec => []EvalProgrammed
<1>1. OpprfInv => EvalProgrammed
  <2> SUFFICES ASSUME OpprfInv, spc = "done", NEW i \in DOMAIN program.keys
               PROVE  Eval(program.keys[i]) = program.vals[i]
    BY DEF EvalProgrammed
  <2> DEFINE k == program.keys[i]
             v == program.vals[i]
             d == Decode(sPaxos.seed, sPaxos.type, k, mP)
             s == Stretch(prf[k])
  <2>1. InputInv /\ Encoded
    BY DEF OpprfInv, StageInv
  <2>2. k \in Keys /\ v \in Bytes(m)
    BY <2>1, OpprfAssumption DEF InputInv
  <2>3. s \in Bytes(m)
    BY <2>1, <2>2, StretchIn
  <2>4. d = Xor(v, s)
    BY <2>1, DiffIs, Zenon DEF Encoded
  <2>5. Eval(k) = Xor(d, s)
    BY EvalIs
  <2> HIDE DEF k, v, d, s
  <2>6. Eval(k) = v
    BY <2>2, <2>3, <2>4, <2>5, XorBack
  <2> QED BY <2>6 DEF k, v
<1> QED BY <1>1, OpprfInit, OpprfStep, PTL DEF Spec

\* For every width but one block, OPRF, encoding and query: what
\* RsOpprfReceiver::receive has put out for a key, its own or a common one, is
\* what the sender's eval gives for it.
THEOREM OpprfEvalAgrees == Spec => []EvalAgrees
<1>1. OpprfInv => EvalAgrees
  <2> SUFFICES ASSUME OpprfInv, m # BlockBytes, rpc = "done", NEW i \in DOMAIN query
               PROVE  outputs[i] = Eval(query[i])
    BY DEF EvalAgrees, EvalAgreesAnyWidth
  <2> DEFINE k == query[i]
             d == Decode(sPaxos.seed, sPaxos.type, k, mP)
             s == Stretch(prf[k])
  <2>1. InputInv /\ PaxosInv /\ Encoded
    BY DEF OpprfInv, StageInv
  <2>2. k \in Keys
    BY <2>1, OpprfAssumption DEF InputInv
  <2>3. s \in Bytes(m)
    BY <2>1, <2>2, StretchIn
  <2>4. d \in Bytes(m)
    BY <2>1, <2>2, DecodeIn DEF Encoded
  <2>5. outputs[i] = Xor(s, d)
    BY DEF OpprfInv, OutputInv, Sum
  <2>6. Eval(k) = Xor(d, s)
    BY EvalIs
  <2> HIDE DEF k, d, s
  <2>7. Xor(s, d) = Xor(d, s)
    BY <2>3, <2>4, XorSwap
  <2> QED BY <2>5, <2>6, <2>7 DEF k
<1> QED BY <1>1, OpprfInit, OpprfStep, PTL DEF Spec

(***************************************************************************)
(* Circuit PSI.  First, recursion along the numbers: the doubling steps,   *)
(* the gates, the wires and the sender's table are all built so.           *)
(***************************************************************************)
\* A set of numbers has a least one.
LEMMA Least == ASSUME NEW T \in SUBSET Nat, T # {} PROVE \E x \in T : \A y \in T : x <= y
<1>1. IsWellFoundedOn(OpToRel(<, Nat), Nat)
  BY NatLessThanWellFounded
<1>2. PICK x \in T : \A y \in T : ~(<<y, x>> \in OpToRel(<, Nat))
  BY <1>1, WFMin
<1>3. \A y \in T : ~(y < x)
  BY <1>2 DEF OpToRel
<1> QED BY <1>3

LEMMA Induction ==
  ASSUME NEW S, 0 \in S, \A n \in Nat : n \in S => n + 1 \in S
  PROVE  Nat \subseteq S
<1> SUFFICES ASSUME Nat \ S # {} PROVE FALSE
  OBVIOUS
<1>1. PICK x \in Nat \ S : \A y \in Nat \ S : x <= y
  BY Least
<1>2. x # 0 /\ x - 1 \in Nat
  BY <1>1
<1>3. x - 1 \in S
  BY <1>1, <1>2
<1> QED BY <1>1, <1>2, <1>3

\* A function defined by recursion along 0..n.
Follows(f, n, V, base, step) ==
  f \in [0..n -> V] /\ f[0] = base /\ \A k \in 1..n : f[k] = step[k][f[k - 1]]
LEMMA Recursion ==
  ASSUME NEW n \in Nat, NEW V, NEW base \in V, NEW step \in [1..n -> [V -> V]]
  PROVE  \E f : Follows(f, n, V, base, step)
<1> DEFINE Good(num) == \E f \in [0..num -> V] : f[0] = base /\ \A k \in 1..num : f[k] = step[k][f[k - 1]]
           S == {num \in Nat : num <= n => Good(num)}
<1>1. 0 \in S
  <2> DEFINE f == [k \in 0..0 |-> base]
  <2>1. f \in [0..0 -> V] /\ f[0] = base /\ \A k \in 1..0 : f[k] = step[k][f[k - 1]]
    OBVIOUS
  <2> HIDE DEF f
  <2>2. Good(0)
    BY <2>1
  <2> QED BY <2>2
<1>2. ASSUME NEW num \in Nat, num \in S PROVE num + 1 \in S
  <2> SUFFICES ASSUME num + 1 <= n PROVE Good(num + 1)
    OBVIOUS
  <2>1. PICK f \in [0..num -> V] : f[0] = base /\ \A k \in 1..num : f[k] = step[k][f[k - 1]]
    BY <1>2
  <2> DEFINE g == [k \in 0..num + 1 |-> IF k = num + 1 THEN step[num + 1][f[num]] ELSE f[k]]
  <2>2. f[num] \in V /\ num + 1 \in 1..n
    BY <2>1
  <2>3. step[num + 1][f[num]] \in V
    BY <2>2
  <2>4. g \in [0..num + 1 -> V] /\ g[0] = base
    BY <2>1, <2>3
  <2>5. \A k \in 1..num + 1 : g[k] = step[k][g[k - 1]]
    <3> TAKE k \in 1..num + 1
    <3>1. CASE k = num + 1
      <4>1. k - 1 = num /\ num \in 0..num + 1 /\ num # num + 1 /\ num + 1 \in 0..num + 1
        BY <3>1
      <4>2. g[num] = f[num] /\ g[num + 1] = step[num + 1][f[num]]
        BY <4>1
      <4> HIDE DEF g
      <4> QED BY <3>1, <4>1, <4>2
    <3>2. CASE k # num + 1
      <4>1. k \in 1..num /\ k - 1 \in 0..num /\ g[k] = f[k] /\ g[k - 1] = f[k - 1]
        BY <3>2
      <4> HIDE DEF g
      <4> QED BY <2>1, <4>1
    <3> QED BY <3>1, <3>2
  <2> HIDE DEF g
  <2> QED BY <2>4, <2>5
<1> HIDE DEF S
<1>3. Nat \subseteq S
  BY <1>1, <1>2, Induction
<1>4. n \in S
  BY <1>3
<1> QED BY <1>4 DEF S, Follows


\* Two functions that follow the same steps agree.
LEMMA FollowSame ==
  ASSUME NEW num \in Nat, NEW n \in Nat, NEW V, NEW base, NEW step, NEW f, NEW g, NEW h,
         Follows(f, num, V, base, step), Follows(g, n, V, base, h),
         \A k \in 1..num : k \in 1..n => h[k] = step[k]
  PROVE  \A k \in Nat : k <= num /\ k <= n => f[k] = g[k]
<1> DEFINE S == {k \in Nat : k <= num /\ k <= n => f[k] = g[k]}
<1>1. 0 \in S
  BY DEF Follows
<1>2. ASSUME NEW k \in Nat, k \in S PROVE k + 1 \in S
  <2> SUFFICES ASSUME k + 1 <= num, k + 1 <= n PROVE f[k + 1] = g[k + 1]
    OBVIOUS
  <2>1. f[k] = g[k] /\ k + 1 \in 1..num /\ k + 1 \in 1..n /\ (k + 1) - 1 = k
    BY <1>2
  <2>2. f[k + 1] = step[k + 1][f[k]] /\ g[k + 1] = h[k + 1][g[k]] /\ h[k + 1] = step[k + 1]
    BY <2>1 DEF Follows
  <2> QED BY <2>1, <2>2
<1> HIDE DEF S
<1>3. Nat \subseteq S
  BY <1>1, <1>2, Induction
<1> QED BY <1>3 DEF S

\* The steps double.
LEMMA StepIs ==
  /\ Step \in [Nat -> Nat] /\ Step[0] = 1
  /\ \A k \in Nat : Step[k + 1] = 2 * Step[k]
<1> DEFINE step(num) == [k \in 1..num |-> [v \in Nat |-> 2 * v]]
           F(num) == CHOOSE f : Follows(f, num, Nat, 1, step(num))
           p == [k \in Nat |-> F(k)[k]]
<1>1. ASSUME NEW num \in Nat PROVE Follows(F(num), num, Nat, 1, step(num))
  <2>1. step(num) \in [1..num -> [Nat -> Nat]]
    OBVIOUS
  <2> HIDE DEF step
  <2>2. \E f : Follows(f, num, Nat, 1, step(num))
    BY <2>1, Recursion
  <2> QED BY <2>2
<1> HIDE DEF F
<1>2. ASSUME NEW num \in Nat PROVE F(num) \in [0..num -> Nat] /\ F(num)[0] = 1 /\ F(num)[num] \in Nat
  BY <1>1 DEF Follows
<1>3. ASSUME NEW num \in Nat PROVE F(num + 1)[num + 1] = 2 * F(num)[num]
  <2>1. num + 1 \in Nat /\ num + 1 \in 1..num + 1 /\ (num + 1) - 1 = num /\ num \in 0..num + 1 /\ num <= num + 1
    OBVIOUS
  <2>2. F(num + 1)[num + 1] = step(num + 1)[num + 1][F(num + 1)[num]] /\ F(num + 1)[num] \in Nat
    <3> HIDE DEF step
    <3>1. Follows(F(num + 1), num + 1, Nat, 1, step(num + 1))
      BY <1>1, <2>1
    <3> QED BY <2>1, <3>1 DEF Follows
  <2>3. \A k \in 1..num : k \in 1..num + 1 => step(num + 1)[k] = step(num)[k]
    OBVIOUS
  <2>4. Follows(F(num), num, Nat, 1, step(num)) /\ Follows(F(num + 1), num + 1, Nat, 1, step(num + 1))
    <3> HIDE DEF step
    <3> QED BY <1>1, <2>1
  <2>5. F(num)[num] = F(num + 1)[num]
    <3> HIDE DEF step
    <3>1. \A k \in Nat : k <= num /\ k <= num + 1 => F(num)[k] = F(num + 1)[k]
      BY <2>1, <2>3, <2>4, FollowSame
    <3> QED BY <2>1, <3>1
  <2>6. step(num + 1)[num + 1][F(num + 1)[num]] = 2 * F(num + 1)[num]
    BY <2>1, <2>2
  <2> QED BY <2>2, <2>5, <2>6
<1>4. p \in [Nat -> Nat] /\ p[0] = 1
  BY <1>2
<1>5. \A k \in Nat : p[k + 1] = 2 * p[k]
  BY <1>3
<1> DEFINE Is(g) == g = [k \in Nat |-> IF k = 0 THEN 1 ELSE 2 * g[k - 1]]
<1>6. Is(p)
  <2> HIDE DEF p
  <2>1. ASSUME NEW k \in Nat PROVE p[k] = IF k = 0 THEN 1 ELSE 2 * p[k - 1]
    <3>1. CASE k = 0
      BY <1>4, <3>1
    <3>2. CASE k # 0
      <4>1. k - 1 \in Nat /\ (k - 1) + 1 = k
        BY <3>2
      <4> QED BY <1>5, <3>2, <4>1
    <3> QED BY <3>1, <3>2
  <2>2. p = [k \in Nat |-> p[k]]
    BY <1>4
  <2> QED BY <2>1, <2>2
<1>7. Step = CHOOSE g : Is(g)
  BY DEF Step
<1>8. Is(Step)
  <2> HIDE DEF Is, p
  <2> QED BY <1>6, <1>7
<1>9. Step[0] = 1 /\ \A k \in Nat : Step[k + 1] = 2 * Step[k]
  <2>1. \A k \in Nat : Step[k] = IF k = 0 THEN 1 ELSE 2 * Step[k - 1]
    BY <1>8
  <2>2. \A k \in Nat : k + 1 \in Nat /\ k + 1 # 0 /\ (k + 1) - 1 = k
    OBVIOUS
  <2> QED BY <2>1, <2>2
<1>10. \A k \in Nat : Step[k] \in Nat
  <2> DEFINE S == {k \in Nat : Step[k] \in Nat}
  <2>1. 0 \in S /\ \A k \in Nat : k \in S => k + 1 \in S
    BY <1>9
  <2> HIDE DEF S
  <2>2. Nat \subseteq S
    BY <2>1, Induction
  <2> QED BY <2>2 DEF S
<1>11. Step = [k \in Nat |-> Step[k]]
  BY <1>8
<1> QED BY <1>9, <1>10, <1>11

LEMMA StepGrows == \A k \in Nat : Step[k] \in Nat /\ Step[k] >= k + 1
<1> DEFINE S == {k \in Nat : Step[k] \in Nat /\ Step[k] >= k + 1}
<1>1. 0 \in S /\ \A k \in Nat : k \in S => k + 1 \in S
  BY StepIs
<1> HIDE DEF S
<1>2. Nat \subseteq S
  BY <1>1, Induction
<1> QED BY <1>2 DEF S

\* The tree has a first step that reaches all wires.
LEMMA DepthIs ==
  ASSUME NEW n \in Nat, n > 1
  PROVE  /\ Depth(n) \in Nat /\ Depth(n) >= 1 /\ n <= Step[Depth(n)]
         /\ \A e \in 0..Depth(n) - 1 : Step[e] < n
<1> DEFINE T == {k \in Nat : Step[k] >= n}
<1>1. n \in T
  <2>1. Step[n] >= n + 1 /\ Step[n] \in Nat
    BY StepGrows
  <2> QED BY <2>1
<1>2. PICK k \in T : \A j \in T : k <= j
  <2> HIDE DEF T
  <2>1. T \in SUBSET Nat
    BY DEF T
  <2> QED BY <1>1, <2>1, Least
<1>3. k \in 0..n /\ Step[k] >= n /\ \A j \in 0..k - 1 : Step[j] < n
  <2>1. k \in Nat /\ k <= n
    BY <1>1, <1>2
  <2>2. ASSUME NEW j \in 0..k - 1 PROVE Step[j] < n
    <3>1. j \in Nat /\ ~(k <= j)
      BY <2>1
    <3>2. j \notin T
      BY <1>2, <3>1
    <3>3. Step[j] \in Nat
      BY <3>1, StepIs
    <3> QED BY <3>1, <3>2, <3>3
  <2> QED BY <1>2, <2>1, <2>2
<1>4. Depth(n) \in 0..n /\ Step[Depth(n)] >= n /\ \A e \in 0..Depth(n) - 1 : Step[e] < n
  BY <1>3 DEF Depth
<1>5. Depth(n) # 0
  BY <1>4, StepIs
<1> QED BY <1>4, <1>5

\* The steps the loop takes.
LEMMA StepsTaken ==
  ASSUME NEW n \in Nat, n > 1, NEW e \in 0..Depth(n) - 1
  PROVE  e \in Nat /\ Step[e] \in Nat /\ Step[e] >= 1 /\ Step[e] < n
<1>1. Step[e] < n
  BY DepthIs
<1>2. e \in Nat
  BY DepthIs
<1>3. Step[e] \in Nat /\ Step[e] >= e + 1
  BY <1>2, StepGrows
<1> QED BY <1>1, <1>2, <1>3

(***************************************************************************)
(* The gates of isZeroCircuit.                                             *)
(***************************************************************************)
GateTypes == {"Nor", "na_And", "nb_And", "And"}
TreeGates(n) == [type : GateTypes, in0 : 0..n - 1, in1 : 0..n - 1, out : 0..n - 1]
GatesIn(n, s) == (n - s - 1) \div (2 * s) + 1

\* Quotients.
LEMMA Quotient ==
  ASSUME NEW a \in Nat, NEW b \in Nat, b > 0
  PROVE  /\ a \div b \in Nat /\ b * (a \div b) <= a
         /\ \A k \in Nat : k <= a \div b <=> b * k <= a
<1>1. a \div b \in Nat /\ a = b * (a \div b) + (a % b) /\ a % b \in 0..b - 1
  OBVIOUS
<1>2. ASSUME NEW k \in Nat, k <= a \div b PROVE b * k <= a
  <2>1. PICK e \in Nat : a \div b = k + e
    <3>1. (a \div b) - k \in Nat /\ a \div b = k + ((a \div b) - k)
      BY <1>1, <1>2
    <3> QED BY <3>1
  <2>2. b * (a \div b) = b * k + b * e
    BY <2>1
  <2>3. b * e >= 0
    OBVIOUS
  <2> QED BY <1>1, <2>2, <2>3
<1>3. ASSUME NEW k \in Nat, ~(k <= a \div b) PROVE ~(b * k <= a)
  <2>1. PICK e \in Nat : k = (a \div b) + 1 + e
    <3>1. k - (a \div b) - 1 \in Nat /\ k = (a \div b) + 1 + (k - (a \div b) - 1)
      BY <1>1, <1>3
    <3> QED BY <3>1
  <2>2. b * k = b * (a \div b) + b + b * e
    BY <2>1, <1>1
  <2>3. b * e >= 0
    OBVIOUS
  <2> QED BY <1>1, <2>2, <2>3
<1> QED BY <1>1, <1>2, <1>3

\* The loop over i of one step visits the even multiples of the step that
\* have a partner.
LEMMA StepGatesIs ==
  ASSUME NEW n \in Nat, NEW s \in Nat, s >= 1, s < n
  PROVE  /\ GatesIn(n, s) \in Nat /\ GatesIn(n, s) >= 1
         /\ \A k \in Nat : k <= GatesIn(n, s) - 1 <=> 2 * s * k + s < n
         /\ StepGates(n, s) \in Seq(TreeGates(n)) /\ Len(StepGates(n, s)) = GatesIn(n, s)
         /\ \A k \in 1..GatesIn(n, s) :
              LET i == 2 * s * (k - 1)
                  g == StepGates(n, s)[k]
              IN  /\ i \in 0..n - 1 /\ i + s \in 0..n - 1
                  /\ g.in0 = i /\ g.in1 = i + s /\ g.out = i
                  /\ g.type = FoldedAnd(Pending(n, s, i), Pending(n, s, i + s))
<1> DEFINE a == n - s - 1
           b == 2 * s
           num == GatesIn(n, s)
           gate(k) == LET i == 2 * s * (k - 1) IN
             [type |-> FoldedAnd(Pending(n, s, i), Pending(n, s, i + s)),
              in0 |-> i, in1 |-> i + s, out |-> i]
<1>1. a \in Nat /\ b \in Nat /\ b > 0 /\ num = (a \div b) + 1
  BY DEF GatesIn
<1>2. /\ a \div b \in Nat
      /\ \A k \in Nat : k <= a \div b <=> b * k <= a
  <2> HIDE DEF a, b
  <2> QED BY <1>1, Quotient
<1>3. num \in Nat /\ num >= 1
  <2> HIDE DEF a, b, num
  <2> QED BY <1>1, <1>2
<1>4. ASSUME NEW k \in Nat PROVE k <= num - 1 <=> 2 * s * k + s < n
  <2>1. k <= num - 1 <=> k <= a \div b
    <3> HIDE DEF a, b, num
    <3> QED BY <1>1, <1>2
  <2>2. k <= a \div b <=> b * k <= a
    <3> HIDE DEF a, b, num
    <3> QED BY <1>2
  <2>3. b * k = 2 * s * k /\ b * k \in Nat
    OBVIOUS
  <2> DEFINE c == b * k
  <2>4. c <= a <=> c + s < n
    <3> HIDE DEF c
    <3> QED BY <2>3 DEF c
  <2> QED BY <2>1, <2>2, <2>3, <2>4
<1>5. StepGates(n, s) = [k \in 1..num |-> gate(k)]
  BY DEF StepGates, GatesIn
<1>6. ASSUME NEW k \in 1..num
      PROVE  2 * s * (k - 1) \in 0..n - 1 /\ 2 * s * (k - 1) + s \in 0..n - 1
  <2>1. k - 1 \in Nat /\ k - 1 <= num - 1
    BY <1>3
  <2>2. 2 * s * (k - 1) \in Nat
    BY <2>1
  <2>3. 2 * s * (k - 1) + s < n
    BY <1>4, <2>1
  <2> DEFINE c == 2 * s * (k - 1)
  <2> HIDE DEF c
  <2>4. c \in Nat /\ c + s < n
    BY <2>2, <2>3 DEF c
  <2>5. c \in 0..n - 1 /\ c + s \in 0..n - 1
    BY <2>4
  <2> QED BY <2>5 DEF c
<1>7. ASSUME NEW k \in 1..num PROVE gate(k) \in TreeGates(n)
  BY <1>6 DEF TreeGates, GateTypes, FoldedAnd
<1> HIDE DEF num, a, b
<1>8. StepGates(n, s) \in [1..num -> TreeGates(n)]
  BY <1>5, <1>7
<1>9. StepGates(n, s) \in Seq(TreeGates(n)) /\ Len(StepGates(n, s)) = num
  BY <1>3, <1>8
<1>10. \A k \in 1..num : StepGates(n, s)[k] = gate(k)
  BY <1>5
<1> QED BY <1>3, <1>4, <1>6, <1>9, <1>10 DEF num

\* The tree, step by step.
LEMMA TreeIs ==
  ASSUME NEW n \in Nat, n > 1
  PROVE  /\ Tree(n) \in [0..Depth(n) -> Seq(TreeGates(n))] /\ Tree(n)[0] = <<>>
         /\ \A d \in 1..Depth(n) : Tree(n)[d] = Tree(n)[d - 1] \o StepGates(n, Step[d - 1])
<1> DEFINE V == Seq(TreeGates(n))
           h == Depth(n)
           step == [d \in 1..h |-> [v \in V |-> v \o StepGates(n, Step[d - 1])]]
<1>1. h \in Nat
  BY DepthIs
<1>2. <<>> \in V
  OBVIOUS
<1>3. step \in [1..h -> [V -> V]]
  <2> SUFFICES ASSUME NEW d \in 1..h, NEW v \in V PROVE v \o StepGates(n, Step[d - 1]) \in V
    OBVIOUS
  <2>1. d - 1 \in 0..h - 1 /\ d - 1 \in Nat
    BY <1>1
  <2>2. Step[d - 1] \in Nat /\ Step[d - 1] < n /\ Step[d - 1] >= 1
    BY <2>1, StepsTaken
  <2>3. StepGates(n, Step[d - 1]) \in V
    BY <2>2, StepGatesIs
  <2> HIDE DEF h
  <2> QED BY <2>3
<1> HIDE DEF V, h, step
<1>4. PICK f : Follows(f, h, V, <<>>, step)
  BY <1>1, <1>2, <1>3, Recursion
<1>5. \A d \in 1..h : f[d] = f[d - 1] \o StepGates(n, Step[d - 1])
  <2> SUFFICES ASSUME NEW d \in 1..h PROVE f[d] = f[d - 1] \o StepGates(n, Step[d - 1])
    OBVIOUS
  <2>1. f[d - 1] \in V
    BY <1>1, <1>4 DEF Follows
  <2>2. step[d][f[d - 1]] = f[d - 1] \o StepGates(n, Step[d - 1])
    BY <2>1 DEF step
  <2> QED BY <1>4, <2>2 DEF Follows
<1> DEFINE Is(g) == g = [d \in 0..h |-> IF d = 0 THEN <<>> ELSE g[d - 1] \o StepGates(n, Step[d - 1])]
<1>6. Is(f)
  <2>1. \A d \in 0..h : f[d] = IF d = 0 THEN <<>> ELSE f[d - 1] \o StepGates(n, Step[d - 1])
    <3> TAKE d \in 0..h
    <3>1. CASE d = 0
      BY <1>4, <3>1 DEF Follows
    <3>2. CASE d # 0
      <4>1. d \in 1..h
        BY <1>1, <3>2
      <4> QED BY <1>5, <3>2, <4>1
    <3> QED BY <3>1, <3>2
  <2> QED BY <1>4, <2>1 DEF Follows
<1>7. Tree(n) = CHOOSE g : Is(g)
  BY DEF Tree, h
<1>8. Is(Tree(n))
  <2> HIDE DEF Is
  <2> QED BY <1>6, <1>7
<1>9. \A d \in 0..h : Tree(n)[d] = IF d = 0 THEN <<>> ELSE Tree(n)[d - 1] \o StepGates(n, Step[d - 1])
  BY <1>8
<1>10. \A d \in Nat : d \in 0..h => Tree(n)[d] = f[d]
  <2> DEFINE S == {d \in Nat : d \in 0..h => Tree(n)[d] = f[d]}
  <2>1. 0 \in S
    BY <1>1, <1>4, <1>9 DEF Follows
  <2>2. ASSUME NEW d \in Nat, d \in S PROVE d + 1 \in S
    <3> SUFFICES ASSUME d + 1 \in 0..h PROVE Tree(n)[d + 1] = f[d + 1]
      OBVIOUS
    <3>1. d \in 0..h /\ d + 1 # 0 /\ (d + 1) - 1 = d /\ d + 1 \in 1..h
      BY <1>1
    <3>2. Tree(n)[d] = f[d]
      BY <2>2, <3>1
    <3>3. Tree(n)[d + 1] = Tree(n)[d] \o StepGates(n, Step[d])
      BY <1>9, <3>1
    <3>4. f[d + 1] = f[d] \o StepGates(n, Step[d])
      BY <1>5, <3>1
    <3> QED BY <3>2, <3>3, <3>4
  <2> HIDE DEF S
  <2>3. Nat \subseteq S
    BY <2>1, <2>2, Induction
  <2> QED BY <2>3 DEF S
<1>11. Tree(n) = f
  <2>1. \A d \in 0..h : Tree(n)[d] = f[d]
    BY <1>1, <1>10
  <2>2. Tree(n) = [d \in 0..h |-> Tree(n)[d]] /\ f = [d \in 0..h |-> f[d]]
    BY <1>4, <1>8 DEF Follows
  <2> QED BY <2>1, <2>2
<1> QED BY <1>4, <1>5, <1>11 DEF Follows, V, h

\* What the first steps made of the list stays at its front.
LEMMA TreePrefix ==
  ASSUME NEW n \in Nat, n > 1, NEW d \in 0..Depth(n)
  PROVE  /\ Len(Tree(n)[d]) \in Nat /\ Len(Tree(n)[d]) <= Len(IsZeroGates(n))
         /\ \A k \in 1..Len(Tree(n)[d]) : IsZeroGates(n)[k] = Tree(n)[d][k]
<1> DEFINE T == Tree(n)
           h == Depth(n)
           Front(e) == /\ Len(T[d]) <= Len(T[e])
                       /\ \A k \in 1..Len(T[d]) : T[e][k] = T[d][k]
           S == {e \in Nat : d <= e /\ e <= h => Front(e)}
<1>1. h \in Nat /\ d \in Nat
  BY DepthIs
<1>2. \A e \in 0..h : T[e] \in Seq(TreeGates(n)) /\ Len(T[e]) \in Nat
  <2> TAKE e \in 0..h
  <2>1. T[e] \in Seq(TreeGates(n))
    BY TreeIs
  <2> QED BY <2>1, LenProperties
<1>3. 0 \in S
  BY <1>1, <1>2
<1>4. ASSUME NEW e \in Nat, e \in S PROVE e + 1 \in S
  <2> SUFFICES ASSUME d <= e + 1, e + 1 <= h PROVE Front(e + 1)
    OBVIOUS
  <2>1. CASE d = e + 1
    BY <1>2, <2>1
  <2>2. CASE d # e + 1
    <3>1. d <= e /\ e <= h /\ e \in 0..h /\ e + 1 \in 1..h /\ (e + 1) - 1 = e /\ e \in 0..h - 1
      BY <1>1, <2>2
    <3>2. Front(e)
      BY <1>4, <3>1
    <3>3. T[e + 1] = T[e] \o StepGates(n, Step[e])
      BY <3>1, TreeIs
    <3> DEFINE u == T[e]
               v == StepGates(n, Step[e])
               G == TreeGates(n)
    <3>4. Step[e] \in Nat /\ Step[e] >= 1 /\ Step[e] < n
      BY <3>1, StepsTaken
    <3>5. u \in Seq(G) /\ v \in Seq(G)
      BY <1>2, <3>1, <3>4, StepGatesIs
    <3> HIDE DEF u, v, G
    <3>6. Len(u \o v) = Len(u) + Len(v) /\ \A k \in 1..Len(u) : (u \o v)[k] = u[k]
      BY <3>5
    <3>7. Len(u) \in Nat /\ Len(v) \in Nat /\ Len(T[d]) \in Nat
      BY <1>2, <3>5
    <3>8. T[e] = u /\ T[e + 1] = u \o v
      BY <3>3 DEF u, v
    <3> HIDE DEF T
    <3> QED BY <3>2, <3>6, <3>7, <3>8
  <2> QED BY <2>1, <2>2
<1> HIDE DEF S
<1>5. Nat \subseteq S
  BY <1>3, <1>4, Induction
<1>6. Front(h)
  <2>1. h \in S
    BY <1>1, <1>5
  <2> HIDE DEF Front
  <2> QED BY <1>1, <2>1 DEF S
<1> QED BY <1>2, <1>6 DEF IsZeroGates

\* The wires, gate by gate.
LEMMA GateOutIn ==
  ASSUME NEW n \in Nat, NEW g \in TreeGates(n), NEW w \in [0..n - 1 -> 0..1]
  PROVE  GateOut(g, w) \in 0..1
<1>1. g.type \in GateTypes /\ w[g.in0] \in 0..1 /\ w[g.in1] \in 0..1
  BY DEF TreeGates
<1> QED BY <1>1 DEF GateOut, Zero!EvalGate, Zero!And, Zero!Not, Zero!Xor, GateTypes

Runs(W, n, gates, sum) ==
  /\ W \in [0..Len(gates) -> [0..n - 1 -> 0..1]] /\ W[0] = sum
  /\ \A k \in 1..Len(gates) :
       W[k] = [W[k - 1] EXCEPT ![gates[k].out] = GateOut(gates[k], W[k - 1])]
LEMMA WiresIs ==
  ASSUME NEW n \in Nat, NEW gates \in Seq(TreeGates(n)), NEW sum \in [0..n - 1 -> 0..1]
  PROVE  Runs(WiresAfter(gates, sum), n, gates, sum)
<1> DEFINE V == [0..n - 1 -> 0..1]
           h == Len(gates)
           Run(k, v) == [v EXCEPT ![gates[k].out] = GateOut(gates[k], v)]
           step == [k \in 1..h |-> [v \in V |-> Run(k, v)]]
<1>1. h \in Nat /\ \A k \in 1..h : gates[k] \in TreeGates(n)
  BY LenProperties
<1>2. step \in [1..h -> [V -> V]]
  <2> SUFFICES ASSUME NEW k \in 1..h, NEW v \in V PROVE Run(k, v) \in V
    BY Zenon
  <2>1. GateOut(gates[k], v) \in 0..1
    BY <1>1, GateOutIn
  <2> QED BY <2>1
<1> HIDE DEF V, h, step, Run
<1>3. sum \in V
  BY DEF V
<1>4. PICK f : Follows(f, h, V, sum, step)
  BY <1>1, <1>2, <1>3, Recursion
<1>5. \A k \in 1..h : f[k] = Run(k, f[k - 1])
  <2> SUFFICES ASSUME NEW k \in 1..h PROVE f[k] = Run(k, f[k - 1])
    OBVIOUS
  <2>1. f[k - 1] \in V
    BY <1>1, <1>4 DEF Follows
  <2>2. step[k][f[k - 1]] = Run(k, f[k - 1])
    BY <2>1 DEF step
  <2> QED BY <1>4, <2>2 DEF Follows
<1> DEFINE Is(g) == g = [k \in 0..h |-> IF k = 0 THEN sum ELSE Run(k, g[k - 1])]
<1>6. Is(f)
  <2>1. \A k \in 0..h : f[k] = IF k = 0 THEN sum ELSE Run(k, f[k - 1])
    BY <1>1, <1>4, <1>5 DEF Follows
  <2> QED BY <1>4, <2>1 DEF Follows
<1>7. WiresAfter(gates, sum) = CHOOSE g : Is(g)
  BY DEF WiresAfter, h, Run
<1> DEFINE W == WiresAfter(gates, sum)
<1>8. Is(W)
  <2> HIDE DEF Is
  <2> QED BY <1>6, <1>7
<1> HIDE DEF W
<1>9. \A k \in 0..h : W[k] = IF k = 0 THEN sum ELSE Run(k, W[k - 1])
  BY <1>8
<1>10. \A k \in Nat : k \in 0..h => W[k] = f[k]
  <2> DEFINE S == {k \in Nat : k \in 0..h => W[k] = f[k]}
  <2>1. 0 \in S
    BY <1>1, <1>4, <1>9 DEF Follows
  <2>2. ASSUME NEW k \in Nat, k \in S PROVE k + 1 \in S
    <3> SUFFICES ASSUME k + 1 \in 0..h PROVE W[k + 1] = f[k + 1]
      OBVIOUS
    <3>1. k \in 0..h /\ k + 1 # 0 /\ (k + 1) - 1 = k /\ k + 1 \in 1..h
      BY <1>1
    <3>2. W[k] = f[k]
      BY <2>2, <3>1
    <3>3. W[k + 1] = Run(k + 1, W[k])
      BY <1>9, <3>1
    <3>4. f[k + 1] = Run(k + 1, f[k])
      BY <1>5, <3>1
    <3> QED BY <3>2, <3>3, <3>4
  <2> HIDE DEF S
  <2>3. Nat \subseteq S
    BY <2>1, <2>2, Induction
  <2> QED BY <2>3 DEF S
<1>11. W = f
  <2>1. \A k \in 0..h : W[k] = f[k]
    BY <1>1, <1>10
  <2>2. W = [k \in 0..h |-> W[k]] /\ f = [k \in 0..h |-> f[k]]
    BY <1>4, <1>8 DEF Follows
  <2> QED BY <2>1, <2>2
<1> QED BY <1>4, <1>5, <1>11 DEF Follows, V, h, Run, W, Runs

\* The gates of step d come right after those of the steps before.
LEMMA LevelGates ==
  ASSUME NEW n \in Nat, n > 1, NEW d \in 0..Depth(n) - 1
  PROVE  /\ d \in 0..Depth(n) /\ d + 1 \in 0..Depth(n)
         /\ Len(Tree(n)[d]) \in Nat
         /\ Len(Tree(n)[d + 1]) = Len(Tree(n)[d]) + GatesIn(n, Step[d])
         /\ Len(Tree(n)[d + 1]) <= Len(IsZeroGates(n))
         /\ \A k \in 1..GatesIn(n, Step[d]) :
              IsZeroGates(n)[Len(Tree(n)[d]) + k] = StepGates(n, Step[d])[k]
<1> DEFINE u == Tree(n)[d]
           v == StepGates(n, Step[d])
           G == TreeGates(n)
           num == GatesIn(n, Step[d])
<1>1. d \in 0..Depth(n) /\ d + 1 \in 0..Depth(n) /\ d + 1 \in 1..Depth(n) /\ (d + 1) - 1 = d
  BY DepthIs
<1>2. Step[d] \in Nat /\ Step[d] >= 1 /\ Step[d] < n
  BY StepsTaken
<1>3. u \in Seq(G) /\ v \in Seq(G) /\ Len(v) = num /\ num \in Nat
  BY <1>1, <1>2, TreeIs, StepGatesIs
<1>4. Tree(n)[d + 1] = u \o v
  BY <1>1, TreeIs
<1>5. /\ Len(Tree(n)[d + 1]) <= Len(IsZeroGates(n))
      /\ \A k \in 1..Len(Tree(n)[d + 1]) : IsZeroGates(n)[k] = Tree(n)[d + 1][k]
  BY <1>1, TreePrefix
<1> HIDE DEF u, v, G, num
<1>6. Len(u) \in Nat /\ Len(u \o v) = Len(u) + num /\ \A k \in 1..num : (u \o v)[Len(u) + k] = v[k]
  BY <1>3
<1>7. \A k \in 1..num : Len(u) + k \in 1..Len(u \o v)
  BY <1>3, <1>6
<1> QED BY <1>1, <1>4, <1>5, <1>6, <1>7 DEF u, v, num

\* Even and odd multiples.
LEMMA Multiples ==
  ASSUME NEW s \in Nat, s >= 1, NEW a \in Nat, NEW b \in Nat
  PROVE  (2 * s * a = 2 * s * b => a = b) /\ 2 * s * a + s # 2 * s * b
<1>1. CASE a = b
  BY <1>1
<1>2. CASE a < b
  <2>1. PICK e \in Nat : b = a + 1 + e
    <3>1. b - a - 1 \in Nat /\ b = a + 1 + (b - a - 1)
      BY <1>2
    <3> QED BY <3>1
  <2>2. 2 * s * b = 2 * s * a + 2 * s + 2 * s * e
    BY <2>1
  <2>3. 2 * s * e >= 0
    OBVIOUS
  <2> QED BY <1>2, <2>2, <2>3
<1>3. CASE a > b
  <2>1. PICK e \in Nat : a = b + 1 + e
    <3>1. a - b - 1 \in Nat /\ a = b + 1 + (a - b - 1)
      BY <1>3
    <3> QED BY <3>1
  <2>2. 2 * s * a = 2 * s * b + 2 * s + 2 * s * e
    BY <2>1
  <2>3. 2 * s * e >= 0
    OBVIOUS
  <2> QED BY <1>3, <2>2, <2>3
<1> QED BY <1>1, <1>2, <1>3

\* A gate with inversions folded in is an AND of its inputs, inverted as said.
Flip(inv, x) == IF inv THEN 1 - x ELSE x
LEMMA FoldedIs ==
  ASSUME NEW na \in BOOLEAN, NEW nb \in BOOLEAN, NEW x \in 0..1, NEW y \in 0..1
  PROVE  /\ Zero!EvalGate(FoldedAnd(na, nb), x, y) \in 0..1
         /\ Zero!EvalGate(FoldedAnd(na, nb), x, y) = 1 <=> Flip(na, x) = 1 /\ Flip(nb, y) = 1
<1>1. CASE na /\ nb
  BY <1>1 DEF FoldedAnd, Flip, Zero!EvalGate, Zero!And, Zero!Not, Zero!Xor
<1>2. CASE na /\ ~nb
  BY <1>2 DEF FoldedAnd, Flip, Zero!EvalGate, Zero!And, Zero!Not, Zero!Xor
<1>3. CASE ~na /\ nb
  BY <1>3 DEF FoldedAnd, Flip, Zero!EvalGate, Zero!And, Zero!Not, Zero!Xor
<1>4. CASE ~na /\ ~nb
  BY <1>4 DEF FoldedAnd, Flip, Zero!EvalGate, Zero!And, Zero!Not, Zero!Xor
<1> QED BY <1>1, <1>2, <1>3, <1>4

\* A step ANDs into every even multiple its partner, and leaves the others.
Folded(n, s, w, i) == Zero!EvalGate(FoldedAnd(Pending(n, s, i), Pending(n, s, i + s)), w[i], w[i + s])
Halved(n, s, was, now, i) ==
  /\ was \in [0..n - 1 -> 0..1]
  /\ \A q \in Nat : i = 2 * s * q /\ i + s < n => now[i] = Folded(n, s, was, i)
  /\ (~\E q \in Nat : i = 2 * s * q /\ i + s < n) => now[i] = was[i]
LEMMA LevelWires ==
  ASSUME NEW n \in Nat, n > 1, NEW d \in 0..Depth(n) - 1, NEW sum \in [0..n - 1 -> 0..1],
         NEW i \in 0..n - 1
  PROVE  Halved(n, Step[d], WiresAfter(IsZeroGates(n), sum)[Len(Tree(n)[d])],
                WiresAfter(IsZeroGates(n), sum)[Len(Tree(n)[d + 1])], i)
<1> DEFINE gates == IsZeroGates(n)
           W == WiresAfter(gates, sum)
           s == Step[d]
           num == GatesIn(n, s)
           off == Len(Tree(n)[d])
           was == W[off]
           at(k) == 2 * s * (k - 1)
           L(k) == \A j \in 0..n - 1 :
                     /\ \A e \in 1..k : j = at(e) => W[off + k][j] = Folded(n, s, was, j)
                     /\ (\A e \in 1..k : j # at(e)) => W[off + k][j] = was[j]
<1>1. s \in Nat /\ s >= 1 /\ s < n
  BY StepsTaken
<1>2. /\ off \in Nat /\ Len(Tree(n)[d + 1]) = off + num /\ off + num <= Len(gates)
      /\ \A k \in 1..num : gates[off + k] = StepGates(n, s)[k]
  BY LevelGates
<1>3. /\ num \in Nat /\ num >= 1
      /\ \A k \in Nat : k <= num - 1 <=> 2 * s * k + s < n
      /\ \A k \in 1..num : LET a == at(k)  g == StepGates(n, s)[k] IN
           /\ a \in 0..n - 1 /\ a + s \in 0..n - 1
           /\ g.in0 = a /\ g.in1 = a + s /\ g.out = a
           /\ g.type = FoldedAnd(Pending(n, s, a), Pending(n, s, a + s))
  BY <1>1, StepGatesIs
<1>4. gates \in Seq(TreeGates(n)) /\ Len(gates) \in Nat
  <2>1. Depth(n) \in 0..Depth(n)
    BY DepthIs
  <2>2. gates \in Seq(TreeGates(n))
    BY <2>1, TreeIs DEF IsZeroGates
  <2> QED BY <2>2, LenProperties
<1> HIDE DEF gates, W
<1>5. /\ W \in [0..Len(gates) -> [0..n - 1 -> 0..1]]
      /\ \A k \in 1..Len(gates) : W[k] = [W[k - 1] EXCEPT ![gates[k].out] = GateOut(gates[k], W[k - 1])]
  <2>1. Runs(W, n, gates, sum)
    BY <1>4, WiresIs DEF W
  <2> QED BY <2>1, Zenon DEF Runs
<1> HIDE DEF num, off, s
<1>6. was \in [0..n - 1 -> 0..1]
  <2>1. off \in 0..Len(gates)
    BY <1>2, <1>3, <1>4
  <2> QED BY <1>5, <2>1
<1> DEFINE S == {k \in Nat : k <= num => L(k)}
<1>7. 0 \in S
  BY <1>2
<1>8. ASSUME NEW k \in Nat, k \in S PROVE k + 1 \in S
  <2> SUFFICES ASSUME k + 1 <= num PROVE L(k + 1)
    OBVIOUS
  <2> DEFINE a == at(k + 1)
             g == gates[off + (k + 1)]
             w == W[off + k]
             w1 == W[off + (k + 1)]
  <2>1. k + 1 \in 1..num /\ off + (k + 1) \in 1..Len(gates) /\ (off + (k + 1)) - 1 = off + k /\ off + k \in 0..Len(gates)
    <3>1. PICK l \in Nat, o \in Nat, c \in Nat : l = Len(gates) /\ o = off /\ c = num /\ o + c <= l /\ k + 1 <= c
      BY <1>2, <1>3, <1>4
    <3>2. k + 1 \in 1..c /\ o + (k + 1) \in 1..l /\ (o + (k + 1)) - 1 = o + k /\ o + k \in 0..l
      BY <3>1
    <3> QED BY <3>1, <3>2
  <2>2. /\ a \in 0..n - 1 /\ a + s \in 0..n - 1 /\ g.in0 = a /\ g.in1 = a + s /\ g.out = a
        /\ g.type = FoldedAnd(Pending(n, s, a), Pending(n, s, a + s))
    BY <1>2, <1>3, <2>1
  <2>3. w1 = [w EXCEPT ![a] = GateOut(g, w)] /\ w \in [0..n - 1 -> 0..1]
    BY <1>5, <2>1, <2>2
  <2>4. \A j \in 0..n - 1 : w1[j] = IF j = a THEN GateOut(g, w) ELSE w[j]
    BY <2>2, <2>3
  <2>5. L(k)
    BY <1>8, <1>3
  <2>6. \A e \in 1..k : a # at(e) /\ a + s # at(e)
    <3> TAKE e \in 1..k
    <3>1. e - 1 \in Nat /\ e - 1 # k /\ (k + 1) - 1 = k
      OBVIOUS
    <3>2. 2 * s * k # 2 * s * (e - 1) /\ 2 * s * k + s # 2 * s * (e - 1)
      BY <1>1, <3>1, Multiples
    <3> QED BY <3>1, <3>2
  <2> HIDE DEF a, at
  <2>7. w[a] = was[a] /\ w[a + s] = was[a + s]
    BY <2>2, <2>5, <2>6
  <2>8. GateOut(g, w) = Folded(n, s, was, a)
    BY <2>2, <2>7 DEF GateOut, Folded
  <2> HIDE DEF w, w1, g, was
  <2>9. ASSUME NEW j \in 0..n - 1, NEW e \in 1..k + 1, j = at(e) PROVE w1[j] = Folded(n, s, was, j)
    <3>1. CASE e = k + 1
      BY <2>4, <2>8, <2>9, <3>1 DEF a
    <3>2. CASE e # k + 1
      <4>1. e \in 1..k
        BY <3>2
      <4>2. j # a /\ w[j] = Folded(n, s, was, j)
        BY <2>5, <2>6, <2>9, <4>1 DEF w
      <4> QED BY <2>4, <4>2
    <3> QED BY <3>1, <3>2
  <2>10. ASSUME NEW j \in 0..n - 1, \A e \in 1..k + 1 : j # at(e) PROVE w1[j] = was[j]
    <3>1. j # a /\ \A e \in 1..k : j # at(e)
      BY <2>10 DEF a
    <3>2. w[j] = was[j]
      BY <2>5, <3>1 DEF w
    <3> QED BY <2>4, <3>1, <3>2
  <2> QED BY <2>9, <2>10 DEF w1
<1> HIDE DEF S
<1>9. Nat \subseteq S
  BY <1>7, <1>8, Induction
<1>10. L(num)
  <2>1. num \in S
    BY <1>3, <1>9
  <2> HIDE DEF L
  <2> QED BY <1>3, <2>1 DEF S
<1> DEFINE now == W[off + num]
<1>11. ASSUME NEW q \in Nat, i = 2 * s * q, i + s < n PROVE now[i] = Folded(n, s, was, i)
  <2>1. q <= num - 1
    BY <1>3, <1>11
  <2>2. q + 1 \in 1..num /\ (q + 1) - 1 = q
    BY <1>3, <2>1
  <2>3. i = at(q + 1)
    BY <1>11, <2>2
  <2> HIDE DEF at, was, now
  <2> QED BY <1>10, <2>2, <2>3 DEF now
<1>12. ASSUME ~\E q \in Nat : i = 2 * s * q /\ i + s < n PROVE now[i] = was[i]
  <2>1. \A e \in 1..num : i # at(e)
    <3> SUFFICES ASSUME NEW e \in 1..num, i = at(e) PROVE FALSE
      OBVIOUS
    <3> HIDE DEF at
    <3>1. at(e) + s \in 0..n - 1
      BY <1>3
    <3>2. e - 1 \in Nat /\ i = 2 * s * (e - 1) /\ i + s < n
      BY <1>1, <3>1 DEF at
    <3> QED BY <1>12, <3>1, <3>2
  <2> HIDE DEF at, was, now
  <2> QED BY <1>10, <2>1 DEF now
<1> HIDE DEF was, now
<1> QED BY <1>2, <1>6, <1>11, <1>12 DEF was, now, W, gates, num, off, s, Halved

\* A wire that the first d steps keep, with its pending inversion, tells
\* whether the wires it stands for are all zero.
Literal(n, sum, d, i) ==
  Flip(Pending(n, Step[d], i), WiresAfter(IsZeroGates(n), sum)[Len(Tree(n)[d])][i])
AllZero(n, sum, from, to) == \A j \in 0..n - 1 : from <= j /\ j < to => sum[j] = 0
LEMMA TreeSum ==
  ASSUME NEW n \in Nat, n > 1, NEW sum \in [0..n - 1 -> 0..1]
  PROVE  \A d \in 0..Depth(n) : \A q \in Nat :
           Step[d] * q < n => (Literal(n, sum, d, Step[d] * q) = 1 <=> AllZero(n, sum, Step[d] * q, Step[d] * q + Step[d]))
<1> DEFINE W == WiresAfter(IsZeroGates(n), sum)
           Tells(d) == \A q \in Nat :
             Step[d] * q < n => (Literal(n, sum, d, Step[d] * q) = 1 <=> AllZero(n, sum, Step[d] * q, Step[d] * q + Step[d]))
           S == {d \in Nat : d <= Depth(n) => Tells(d)}
<1>1. 0 \in S
  <2> SUFFICES ASSUME NEW q \in Nat, Step[0] * q < n
               PROVE  Literal(n, sum, 0, Step[0] * q) = 1 <=> AllZero(n, sum, Step[0] * q, Step[0] * q + Step[0])
    OBVIOUS
  <2>1. Step[0] = 1
    BY StepIs
  <2>2. Step[0] * q = q /\ q \in 0..n - 1
    BY <2>1
  <2>3. IsZeroGates(n) \in Seq(TreeGates(n)) /\ Tree(n)[0] = <<>>
    <3>1. Depth(n) \in 0..Depth(n)
      BY DepthIs
    <3> QED BY <3>1, TreeIs DEF IsZeroGates
  <2>4. W[0] = sum
    BY <2>3, WiresIs DEF Runs
  <2>5. Literal(n, sum, 0, q) = 1 - sum[q]
    BY <2>1, <2>3, <2>4 DEF Literal, Flip, Pending
  <2>6. sum[q] \in 0..1
    BY <2>2
  <2>7. AllZero(n, sum, q, q + 1) <=> sum[q] = 0
    BY <2>2 DEF AllZero
  <2> QED BY <2>1, <2>2, <2>5, <2>6, <2>7
<1>2. ASSUME NEW d \in Nat, d \in S PROVE d + 1 \in S
  <2> SUFFICES ASSUME d + 1 <= Depth(n), NEW q \in Nat, Step[d + 1] * q < n
               PROVE  Literal(n, sum, d + 1, Step[d + 1] * q) = 1
                        <=> AllZero(n, sum, Step[d + 1] * q, Step[d + 1] * q + Step[d + 1])
    OBVIOUS
  <2> DEFINE s == Step[d]
             i == 2 * s * q
             was == W[Len(Tree(n)[d])]
             now == W[Len(Tree(n)[d + 1])]
  <2>1. d \in 0..Depth(n) - 1 /\ d <= Depth(n)
    BY DepthIs
  <2>2. s \in Nat /\ s >= 1 /\ Step[d + 1] = 2 * s
    BY <2>1, StepsTaken, StepIs
  <2>3. i \in Nat /\ i < n /\ Step[d + 1] * q = i /\ Step[d] * (2 * q) = i /\ Step[d] * (2 * q + 1) = i + s
    BY <2>2
  <2>4. /\ s * (2 * q) < n => (Literal(n, sum, d, s * (2 * q)) = 1 <=> AllZero(n, sum, s * (2 * q), s * (2 * q) + s))
        /\ s * (2 * q + 1) < n =>
             (Literal(n, sum, d, s * (2 * q + 1)) = 1 <=> AllZero(n, sum, s * (2 * q + 1), s * (2 * q + 1) + s))
    <3>1. Tells(d)
      BY <1>2, <2>1
    <3>2. 2 * q \in Nat /\ 2 * q + 1 \in Nat
      OBVIOUS
    <3> QED BY <3>1, <3>2
  <2>5. /\ Literal(n, sum, d, i) = 1 <=> AllZero(n, sum, i, i + s)
        /\ i + s < n => (Literal(n, sum, d, i + s) = 1 <=> AllZero(n, sum, i + s, i + s + s))
    <3> HIDE DEF i
    <3> QED BY <2>3, <2>4
  <2>6. /\ was \in [0..n - 1 -> 0..1]
        /\ \A p \in Nat : i = 2 * s * p /\ i + s < n => now[i] = Folded(n, s, was, i)
        /\ (~\E p \in Nat : i = 2 * s * p /\ i + s < n) => now[i] = was[i]
    <3>1. i \in 0..n - 1
      BY <2>3
    <3>2. Halved(n, s, was, now, i)
      <4> HIDE DEF i
      <4> QED BY <2>1, <3>1, LevelWires
    <3> HIDE DEF i, s, was, now
    <3> QED BY <3>2, Zenon DEF Halved
  <2>7. /\ Literal(n, sum, d, i) = Flip(Pending(n, s, i), was[i])
        /\ Literal(n, sum, d, i + s) = Flip(Pending(n, s, i + s), was[i + s])
        /\ Literal(n, sum, d + 1, i) = Flip(Pending(n, 2 * s, i), now[i])
    BY <2>2 DEF Literal
  <2>8. i + s < n => now[i] = Folded(n, s, was, i)
    BY <2>6
  <2>9. ~(i + s < n) => now[i] = was[i]
    BY <2>6
  <2> HIDE DEF i, s, was, now
  <2>10. CASE i + s < n
    <3>1. i \in 0..n - 1 /\ i + s \in 0..n - 1
      BY <2>2, <2>3, <2>10
    <3>2. was[i] \in 0..1 /\ was[i + s] \in 0..1
      BY <2>6, <3>1
    <3>3. ~Pending(n, 2 * s, i)
      BY <2>2, <2>3, <2>10 DEF Pending
    <3>4. now[i] = 1 <=> Literal(n, sum, d, i) = 1 /\ Literal(n, sum, d, i + s) = 1
      <4>1. Pending(n, s, i) \in BOOLEAN /\ Pending(n, s, i + s) \in BOOLEAN
        BY DEF Pending
      <4>2. Folded(n, s, was, i) = 1 <=> Flip(Pending(n, s, i), was[i]) = 1 /\ Flip(Pending(n, s, i + s), was[i + s]) = 1
        BY <3>2, <4>1, FoldedIs DEF Folded
      <4> QED BY <2>7, <2>8, <2>10, <4>2
    <3>5. Literal(n, sum, d + 1, i) = now[i]
      BY <2>7, <3>3 DEF Flip
    <3>6. AllZero(n, sum, i, i + 2 * s) <=> AllZero(n, sum, i, i + s) /\ AllZero(n, sum, i + s, i + s + s)
      BY <2>2, <2>3 DEF AllZero
    <3> QED BY <2>2, <2>3, <2>5, <2>10, <3>4, <3>5, <3>6
  <2>11. CASE ~(i + s < n)
    <3>1. Pending(n, s, i) <=> Pending(n, 2 * s, i)
      BY <2>2, <2>3, <2>11 DEF Pending
    <3>2. Literal(n, sum, d + 1, i) = Literal(n, sum, d, i)
      BY <2>7, <2>9, <2>11, <3>1 DEF Flip
    <3>3. AllZero(n, sum, i, i + 2 * s) <=> AllZero(n, sum, i, i + s)
      BY <2>2, <2>3, <2>11 DEF AllZero
    <3> QED BY <2>2, <2>3, <2>5, <3>2, <3>3
  <2> QED BY <2>10, <2>11
<1> HIDE DEF S
<1>3. Nat \subseteq S
  BY <1>1, <1>2, Induction
<1>4. \A d \in 0..Depth(n) : d \in S
  BY <1>3, DepthIs
<1> HIDE DEF Tells
<1>5. \A d \in 0..Depth(n) : Tells(d)
  BY <1>4 DEF S
<1> QED BY <1>5 DEF Tells

\* isZeroCircuit of two wires or more puts out one exactly for all zeros.
THEOREM ZeroTestExact ==
  ASSUME NEW sum \in KeySums
  PROVE  IsZeroOut(sum) = IF sum = NoSum THEN 1 ELSE 0
<1> DEFINE n == KeyBits
           h == Depth(n)
           W == WiresAfter(IsZeroGates(n), sum)
           out == W[Len(IsZeroGates(n))][0]
<1>1. n \in Nat /\ n > 1 /\ sum \in [0..n - 1 -> 0..1]
  BY CpsiAssumption DEF KeySums
<1>2. h \in 0..h /\ h \in Nat /\ h >= 1 /\ n <= Step[h] /\ Step[h] \in Nat
  <2> HIDE DEF n
  <2>1. h \in Nat /\ h >= 1 /\ n <= Step[h]
    BY <1>1, DepthIs
  <2> QED BY <2>1, StepGrows
<1>3. Literal(n, sum, h, 0) = 1 <=> AllZero(n, sum, 0, Step[h])
  <2>1. Step[h] * 0 = 0 /\ 0 + Step[h] = Step[h]
    BY <1>2
  <2> HIDE DEF h, n
  <2>2. \A q \in Nat : Step[h] * q < n =>
          (Literal(n, sum, h, Step[h] * q) = 1 <=> AllZero(n, sum, Step[h] * q, Step[h] * q + Step[h]))
    BY <1>1, <1>2, TreeSum DEF h
  <2> QED BY <1>1, <2>1, <2>2
<1>4. Literal(n, sum, h, 0) = out
  <2>1. ~Pending(n, Step[h], 0)
    BY <1>1, <1>2 DEF Pending
  <2> QED BY <2>1 DEF Literal, Flip, IsZeroGates
<1>5. out \in 0..1
  <2>1. IsZeroGates(n) \in Seq(TreeGates(n))
    BY <1>1, <1>2, TreeIs DEF IsZeroGates
  <2>2. Runs(W, n, IsZeroGates(n), sum) /\ Len(IsZeroGates(n)) \in Nat
    BY <1>1, <2>1, WiresIs, LenProperties
  <2>3. W[Len(IsZeroGates(n))] \in [0..n - 1 -> 0..1]
    BY <2>2 DEF Runs
  <2> QED BY <1>1, <2>3
<1>6. AllZero(n, sum, 0, Step[h]) <=> sum = NoSum
  <2>1. AllZero(n, sum, 0, Step[h]) <=> \A j \in 0..n - 1 : sum[j] = 0
    BY <1>1, <1>2 DEF AllZero
  <2> QED BY <1>1, <2>1 DEF NoSum
<1>7. IsZeroOut(sum) = out
  BY DEF IsZeroOut
<1> HIDE DEF out
<1> QED BY <1>3, <1>4, <1>5, <1>6, <1>7

(***************************************************************************)
(* The sender's table.                                                     *)
(***************************************************************************)
Entries == [idx : DOMAIN Y, hashIdx : HashIdx]
IsTable(t, s) ==
  /\ t \in [Bins -> Seq(Entries)]
  /\ \A b \in Bins : \A p \in DOMAIN t[b] : Home(s, t[b][p]) = b
  /\ \A i \in DOMAIN Y, j \in HashIdx :
       \E p \in DOMAIN t[BinOf(s, Y[i], j)] : t[BinOf(s, Y[i], j)][p] = [idx |-> i, hashIdx |-> j]

LEMMA SendRows ==
  ASSUME Y \in SendSets
  PROVE  /\ Len(Y) \in Nat /\ DOMAIN Y = 1..Len(Y) /\ Y \in Inputs
         /\ \A i, k \in DOMAIN Y : Y[i] = Y[k] => i = k
         /\ \A s \in HashSeeds, i \in DOMAIN Y, j \in HashIdx : BinOf(s, Y[i], j) \in Bins
<1>1. Y \in Inputs
  BY DEF Inputs
<1>2. Y \in Seq({Y[i] : i \in DOMAIN Y}) /\ \A i, k \in DOMAIN Y : Y[i] = Y[k] => i = k
  BY <1>1, CpsiAssumption
<1>3. \A s \in HashSeeds, i \in DOMAIN Y, j \in HashIdx : BinOf(s, Y[i], j) \in Bins
  BY <1>1, CpsiAssumption
<1>4. Len(Y) \in Nat /\ DOMAIN Y = 1..Len(Y)
  BY <1>2, LenProperties
<1> QED BY <1>1, <1>2, <1>3, <1>4

\* The loops of insertItems visit every row and hash function.
LEMMA InsertionIs ==
  ASSUME Y \in SendSets
  PROVE  /\ \A k \in 1..3 * Len(Y) : Insertion(k) \in Entries
         /\ \A i \in DOMAIN Y, j \in HashIdx :
              \E k \in 1..3 * Len(Y) : Insertion(k) = [idx |-> i, hashIdx |-> j]
<1> DEFINE n == Len(Y)
<1>1. n \in Nat /\ DOMAIN Y = 1..n
  BY SendRows
<1> HIDE DEF n
<1>2. ASSUME NEW k \in 1..3 * n
      PROVE  ((k - 1) % n) + 1 \in 1..n /\ (k - 1) \div n \in 0..2
  <2>1. n > 0 /\ k - 1 \in Nat /\ ~(n * 3 <= k - 1)
    BY <1>1
  <2>2. (k - 1) \div n \in Nat /\ ~(3 <= (k - 1) \div n)
    BY <1>1, <2>1, Quotient
  <2>3. (k - 1) % n \in 0..n - 1
    BY <1>1, <2>1
  <2> QED BY <1>1, <2>2, <2>3
<1>3. ASSUME NEW i \in 1..n, NEW j \in 0..2
      PROVE  \E k \in 1..3 * n : ((k - 1) % n) + 1 = i /\ (k - 1) \div n = j
  <2> DEFINE a == n * j + (i - 1)
  <2>1. n > 0 /\ a \in Nat /\ a + 1 \in 1..3 * n /\ n * j <= a /\ ~(n * (j + 1) <= a)
    <3>1. j = 0 \/ j = 1 \/ j = 2
      OBVIOUS
    <3>2. n * 0 = 0 /\ n * 1 = n /\ n * 2 = n + n /\ n * 3 = n + n + n /\ 3 * n = n + n + n
      BY <1>1
    <3> QED BY <1>1, <3>1, <3>2
  <2> HIDE DEF a
  <2>2. a \div n \in Nat /\ j <= a \div n /\ ~(j + 1 <= a \div n)
    BY <1>1, <2>1, Quotient
  <2>3. a \div n = j
    BY <2>2
  <2>4. a = n * (a \div n) + (a % n)
    BY <1>1, <2>1
  <2>5. a % n = i - 1
    <3>1. a % n \in 0..n - 1 /\ a = n * j + (a % n)
      BY <1>1, <2>1, <2>3, <2>4
    <3> DEFINE c == n * j
    <3>2. c \in Nat
      BY <1>1
    <3>3. a = c + (i - 1) /\ a = c + (a % n)
      BY <3>1 DEF a
    <3> HIDE DEF c
    <3> QED BY <3>1, <3>2, <3>3
  <2>6. (a + 1) - 1 = a
    BY <2>1
  <2> QED BY <2>1, <2>3, <2>5, <2>6
<1>4. \A k \in 1..3 * n : Insertion(k) \in Entries
  BY <1>1, <1>2 DEF Insertion, Entries, HashIdx, n
<1>5. ASSUME NEW i \in DOMAIN Y, NEW j \in HashIdx
      PROVE  \E k \in 1..3 * n : Insertion(k) = [idx |-> i, hashIdx |-> j]
  <2>1. PICK k \in 1..3 * n : ((k - 1) % n) + 1 = i /\ (k - 1) \div n = j
    BY <1>1, <1>3 DEF HashIdx
  <2> QED BY <2>1 DEF Insertion, n
<1> QED BY <1>4, <1>5 DEF n

\* Insertion by insertion.
LEMMA FilledIs ==
  ASSUME Y \in SendSets, NEW s \in HashSeeds
  PROVE  /\ Filled(s) \in [0..3 * Len(Y) -> [Bins -> Seq(Entries)]] /\ Filled(s)[0] = [b \in Bins |-> <<>>]
         /\ \A k \in 1..3 * Len(Y) :
              Filled(s)[k] = [Filled(s)[k - 1] EXCEPT ![Home(s, Insertion(k))] = Append(@, Insertion(k))]
<1> DEFINE V == [Bins -> Seq(Entries)]
           h == 3 * Len(Y)
           base == [b \in Bins |-> <<>>]
           Run(k, v) == [v EXCEPT ![Home(s, Insertion(k))] = Append(@, Insertion(k))]
           step == [k \in 1..h |-> [v \in V |-> Run(k, v)]]
<1>1. h \in Nat /\ \A k \in 1..h : Insertion(k) \in Entries
  BY SendRows, InsertionIs
<1>2. step \in [1..h -> [V -> V]]
  <2> SUFFICES ASSUME NEW k \in 1..h, NEW v \in V PROVE Run(k, v) \in V
    BY Zenon
  <2>1. \A e \in Seq(Entries) : Append(e, Insertion(k)) \in Seq(Entries)
    BY <1>1
  <2> QED BY <2>1
<1>3. base \in V
  OBVIOUS
<1> HIDE DEF V, h, step, Run, base
<1>4. PICK f : Follows(f, h, V, base, step)
  BY <1>1, <1>2, <1>3, Recursion
<1>5. \A k \in 1..h : f[k] = Run(k, f[k - 1])
  <2> SUFFICES ASSUME NEW k \in 1..h PROVE f[k] = Run(k, f[k - 1])
    OBVIOUS
  <2>1. f[k - 1] \in V
    BY <1>1, <1>4 DEF Follows
  <2>2. step[k][f[k - 1]] = Run(k, f[k - 1])
    BY <2>1 DEF step
  <2> QED BY <1>4, <2>2 DEF Follows
<1> DEFINE Is(g) == g = [k \in 0..h |-> IF k = 0 THEN base ELSE Run(k, g[k - 1])]
<1>6. Is(f)
  <2>1. \A k \in 0..h : f[k] = IF k = 0 THEN base ELSE Run(k, f[k - 1])
    BY <1>1, <1>4, <1>5 DEF Follows
  <2> QED BY <1>4, <2>1 DEF Follows
<1> DEFINE W == Filled(s)
<1>7. W = CHOOSE g : Is(g)
  BY DEF Filled, h, Run, base
<1>8. Is(W)
  <2> HIDE DEF Is, W
  <2> QED BY <1>6, <1>7
<1> HIDE DEF W
<1>9. \A k \in 0..h : W[k] = IF k = 0 THEN base ELSE Run(k, W[k - 1])
  BY <1>8
<1>10. \A k \in Nat : k \in 0..h => W[k] = f[k]
  <2> DEFINE S == {k \in Nat : k \in 0..h => W[k] = f[k]}
  <2>1. 0 \in S
    BY <1>1, <1>4, <1>9 DEF Follows
  <2>2. ASSUME NEW k \in Nat, k \in S PROVE k + 1 \in S
    <3> SUFFICES ASSUME k + 1 \in 0..h PROVE W[k + 1] = f[k + 1]
      OBVIOUS
    <3>1. k \in 0..h /\ k + 1 # 0 /\ (k + 1) - 1 = k /\ k + 1 \in 1..h
      BY <1>1
    <3>2. W[k] = f[k]
      BY <2>2, <3>1
    <3>3. W[k + 1] = Run(k + 1, W[k])
      BY <1>9, <3>1
    <3>4. f[k + 1] = Run(k + 1, f[k])
      BY <1>5, <3>1
    <3> QED BY <3>2, <3>3, <3>4
  <2> HIDE DEF S
  <2>3. Nat \subseteq S
    BY <2>1, <2>2, Induction
  <2> QED BY <2>3 DEF S
<1>11. W = f
  <2>1. \A k \in 0..h : W[k] = f[k]
    BY <1>1, <1>10
  <2>2. W = [k \in 0..h |-> W[k]] /\ f = [k \in 0..h |-> f[k]]
    BY <1>4, <1>8 DEF Follows
  <2> QED BY <2>1, <2>2
<1> QED BY <1>4, <1>5, <1>11 DEF Follows, V, h, Run, W, base

\* Every bin has exactly the rows and hash functions that lead to it.
LEMMA TableFilled ==
  ASSUME Y \in SendSets, NEW s \in HashSeeds
  PROVE  IsTable(Filled(s)[3 * Len(Y)], s)
<1> DEFINE h == 3 * Len(Y)
           W == Filled(s)
           Holds(t, e) == \E p \in DOMAIN t[Home(s, e)] : t[Home(s, e)][p] = e
           Right(k) == /\ \A b \in Bins : \A p \in DOMAIN W[k][b] : Home(s, W[k][b][p]) = b
                       /\ \A j \in 1..k : Holds(W[k], Insertion(j))
           S == {k \in Nat : k <= h => Right(k)}
<1>1. h \in Nat /\ \A k \in 1..h : Insertion(k) \in Entries /\ Home(s, Insertion(k)) \in Bins
  <2>1. \A e \in Entries : Home(s, e) \in Bins
    BY SendRows DEF Home, Entries
  <2> QED BY <2>1, SendRows, InsertionIs
<1>2. /\ W \in [0..h -> [Bins -> Seq(Entries)]] /\ W[0] = [b \in Bins |-> <<>>]
      /\ \A k \in 1..h :
           W[k] = [W[k - 1] EXCEPT ![Home(s, Insertion(k))] = Append(@, Insertion(k))]
  BY FilledIs
<1> HIDE DEF W, h
<1>3. 0 \in S
  BY <1>2
<1>4. ASSUME NEW k \in Nat, k \in S PROVE k + 1 \in S
  <2> SUFFICES ASSUME k + 1 <= h PROVE Right(k + 1)
    OBVIOUS
  <2> DEFINE t == W[k]
             e == Insertion(k + 1)
             c == Home(s, e)
             t1 == W[k + 1]
  <2>1. k + 1 \in 1..h /\ k \in 0..h /\ k + 1 \in 0..h /\ (k + 1) - 1 = k /\ k <= h
    BY <1>1
  <2>2. t \in [Bins -> Seq(Entries)] /\ t1 = [t EXCEPT ![c] = Append(@, e)] /\ e \in Entries /\ c \in Bins
    BY <1>1, <1>2, <2>1
  <2>3. Right(k)
    BY <1>4, <2>1
  <2>4. \A j \in 1..k + 1 : Insertion(j) \in Entries /\ Home(s, Insertion(j)) \in Bins
    BY <1>1, <2>1
  <2> HIDE DEF t, t1, e, c
  <2>5. t[c] \in Seq(Entries) /\ t1[c] = Append(t[c], e) /\ \A b \in Bins : b # c => t1[b] = t[b]
    BY <2>2
  <2>6. /\ DOMAIN t[c] = 1..Len(t[c]) /\ Len(t[c]) \in Nat
        /\ DOMAIN t1[c] = 1..Len(t[c]) + 1 /\ t1[c][Len(t[c]) + 1] = e
        /\ \A p \in 1..Len(t[c]) : t1[c][p] = t[c][p]
    BY <2>2, <2>5, AppendProperties, LenProperties
  <2>7. \A b \in Bins : \A p \in DOMAIN t1[b] : Home(s, t1[b][p]) = b
    <3> SUFFICES ASSUME NEW b \in Bins, NEW p \in DOMAIN t1[b] PROVE Home(s, t1[b][p]) = b
      OBVIOUS
    <3>1. CASE b # c
      BY <2>3, <2>5, <3>1 DEF t
    <3>2. CASE b = c /\ p = Len(t[c]) + 1
      BY <2>6, <3>2 DEF c
    <3>3. CASE b = c /\ p # Len(t[c]) + 1
      <4>1. p \in 1..Len(t[c])
        BY <2>6, <3>3
      <4>2. t1[b][p] = t[b][p] /\ p \in DOMAIN t[b]
        BY <2>6, <3>3, <4>1
      <4> QED BY <2>3, <4>2 DEF t
    <3> QED BY <3>1, <3>2, <3>3
  <2>8. ASSUME NEW j \in 1..k + 1 PROVE Holds(t1, Insertion(j))
    <3>1. CASE j = k + 1
      <4>1. Insertion(j) = e /\ Home(s, Insertion(j)) = c /\ Len(t[c]) + 1 \in DOMAIN t1[c]
        BY <2>6, <3>1 DEF e, c
      <4> QED BY <2>6, <4>1
    <3>2. CASE j # k + 1
      <4>1. j \in 1..k
        BY <3>2
      <4> DEFINE o == Home(s, Insertion(j))
      <4>2. PICK p \in DOMAIN t[o] : t[o][p] = Insertion(j)
        BY <2>3, <4>1 DEF t
      <4>3. o \in Bins
        BY <2>4
      <4> HIDE DEF o
      <4>4. p \in DOMAIN t1[o] /\ t1[o][p] = t[o][p]
        <5>1. CASE o = c
          <6>1. p \in DOMAIN t[c]
            BY <4>2, <5>1
          <6>2. p \in 1..Len(t[c]) /\ p \in DOMAIN t1[c]
            BY <2>6, <6>1
          <6> QED BY <2>6, <5>1, <6>2
        <5>2. CASE o # c
          BY <2>5, <4>2, <4>3, <5>2
        <5> QED BY <5>1, <5>2
      <4> QED BY <4>2, <4>4 DEF o
    <3> QED BY <3>1, <3>2
  <2> QED BY <2>7, <2>8 DEF t1
<1> HIDE DEF S
<1>5. Nat \subseteq S
  BY <1>3, <1>4, Induction
<1>6. Right(h)
  <2>1. h \in S
    BY <1>1, <1>5
  <2> HIDE DEF Right
  <2> QED BY <1>1, <2>1 DEF S
<1>7. ASSUME NEW i \in DOMAIN Y, NEW j \in HashIdx
      PROVE  \E p \in DOMAIN W[h][BinOf(s, Y[i], j)] : W[h][BinOf(s, Y[i], j)][p] = [idx |-> i, hashIdx |-> j]
  <2>1. PICK k \in 1..h : Insertion(k) = [idx |-> i, hashIdx |-> j]
    BY InsertionIs DEF h
  <2>2. Home(s, Insertion(k)) = BinOf(s, Y[i], j)
    BY <2>1 DEF Home
  <2> QED BY <1>6, <2>1, <2>2
<1>8. W[h] \in [Bins -> Seq(Entries)]
  BY <1>1, <1>2
<1> QED BY <1>6, <1>7, <1>8 DEF IsTable, W, h

(***************************************************************************)
(* The inductive invariant: where both sides are, the receiver's           *)
(* placement, the sender's table, the keys and values the bins have given  *)
(* so far, and what the receiver makes of its lookups.                     *)
(***************************************************************************)
AllRows == UNION {{set[i] : i \in DOMAIN set} : set \in Inputs}
Keys3 == (HashIdx \X AllRows) \cup ({3} \X Nat)
Values == [key : {Secret(b) : b \in Bins}, val : Words \cup {Unset}] \cup {Unset}

InputsIn == X \in RecvSets /\ Y \in SendSets /\ vals \in ValuesOf(Len(Y)) /\ type \in ShareTypes
CpsiStages ==
  \/ recvPc = "hash" /\ sendPc = "hash" /\ toSender = <<>>
  \/ recvPc = "opprf" /\ sendPc = "hash" /\ toSender = <<rSeed>>
  \/ recvPc = "opprf" /\ sendPc \in {"bins", "pad", "opprf"} /\ toSender = <<>>
  \/ recvPc \in {"rows", "gmw"} /\ sendPc = "gmw" /\ toSender = <<>>
  \/ recvPc = "done" /\ sendPc = "done" /\ toSender = <<>>
Placed ==
  /\ rSeed \in HashSeeds
  /\ mapping \in [DOMAIN X -> Bins] /\ DOMAIN Tx = DOMAIN X
  /\ \A i, k \in DOMAIN X : mapping[i] = mapping[k] => i = k
  /\ \A i \in DOMAIN X : \E j \in HashIdx : mapping[i] = BinOf(rSeed, X[i], j) /\ Tx[i] = Tag(j, X[i])
\* The p-th key and value of the sender belong to row i and hash function j.
IsKey(p, i, j) ==
  Ty[p] = Tag(j, Y[i]) /\ Tv[p] = Entry([idx |-> i, hashIdx |-> j], BinOf(rSeed, Y[i], j))
Programmed ==
  /\ Ty \in Seq(Keys3) /\ Tv \in Seq(Values) /\ Len(Ty) = Len(Tv) /\ bin \in 0..NumBins
  /\ \A p \in DOMAIN Ty : Ty[p][1] = 3 \/ \E i \in DOMAIN Y, j \in HashIdx : IsKey(p, i, j)
  /\ \A i \in DOMAIN Y, j \in HashIdx :
       BinOf(rSeed, Y[i], j) < bin => \E p \in DOMAIN Ty : IsKey(p, i, j)
SenderInv ==
  IF sendPc = "hash" THEN bin = 0 /\ Ty = <<>> /\ Tv = <<>>
  ELSE /\ IsTable(table, rSeed) /\ valS \in [Bins -> Words] /\ Programmed
       /\ sendPc # "bins" => bin = NumBins
\* What the receiver has for its i-th row.
IsCommon(i) == J!Has(Y, X[i])
Own(i) == Masked(vals[J!RowOf(Y, X[i])], valS[mapping[i]])
LookedUp(res, i) ==
  /\ res.key = Secret(mapping[i]) <=> IsCommon(i)
  /\ res.val \in Words \cup {Unset}
  /\ vals # Unset /\ IsCommon(i) => res.val = Own(i)
RowsPlaced ==
  /\ \A b \in Bins : /\ rRows[b].key = Secret(b) <=> \E i \in DOMAIN X : mapping[i] = b /\ IsCommon(i)
                     /\ rRows[b].val \in Words \cup {Unset}
  /\ \A i \in DOMAIN X : vals # Unset /\ IsCommon(i) => rRows[mapping[i]].val = Own(i)
CpsiInv ==
  /\ InputsIn /\ CpsiStages /\ SenderInv
  /\ recvPc # "hash" => Placed
  /\ recvPc = "rows" => \A i \in DOMAIN X : LookedUp(prfTx[i], i)
  /\ recvPc = "gmw" => RowsPlaced

LEMMA RecvRows ==
  ASSUME X \in RecvSets
  PROVE  /\ Len(X) \in Nat /\ DOMAIN X = 1..Len(X) /\ X \in Inputs
         /\ \A s \in HashSeeds, i \in DOMAIN X, j \in HashIdx : BinOf(s, X[i], j) \in Bins
<1>1. X \in Inputs
  BY DEF Inputs
<1>2. X \in Seq({X[i] : i \in DOMAIN X})
  BY <1>1, CpsiAssumption
<1>3. \A s \in HashSeeds, i \in DOMAIN X, j \in HashIdx : BinOf(s, X[i], j) \in Bins
  BY <1>1, CpsiAssumption
<1>4. Len(X) \in Nat /\ DOMAIN X = 1..Len(X)
  BY <1>2, LenProperties
<1> QED BY <1>1, <1>3, <1>4

\* Words wrap at Word.
LEMMA Wrap ==
  ASSUME NEW a \in Nat, a < 2 * Word
  PROVE  a % Word \in Words /\ a % Word = IF a < Word THEN a ELSE a - Word
<1> DEFINE q == a \div Word
           w == Word
<1>1. w \in Nat /\ w > 0 /\ w = Word
  BY CpsiAssumption
<1> HIDE DEF w
<1>2. q \in Nat /\ ~(2 <= q) /\ (1 <= q <=> w <= a) /\ a % w \in 0..w - 1 /\ a = w * q + (a % w)
  <2>1. /\ a \div w \in Nat
        /\ \A k \in Nat : k <= a \div w <=> w * k <= a
    BY <1>1, Quotient
  <2>2. w * 2 = 2 * w /\ w * 1 = w
    BY <1>1
  <2>3. a = w * (a \div w) + (a % w) /\ a % w \in 0..w - 1
    BY <1>1
  <2> QED BY <1>1, <2>1, <2>2, <2>3
<1>3. q = 0 \/ q = 1
  BY <1>2
<1>4. w * 0 = 0 /\ w * 1 = w
  BY <1>1
<1> HIDE DEF q
<1> QED BY <1>1, <1>2, <1>3, <1>4 DEF Words

LEMMA MaskedIs ==
  ASSUME type \in ShareTypes, NEW v \in Words, NEW m0 \in Words
  PROVE  Masked(v, m0) \in Words /\ Recombine(type, m0, Masked(v, m0)) = v
<1>1. CASE type = "Xor"
  BY <1>1, CpsiAssumption DEF Masked, Recombine
<1>2. CASE type # "Xor"
  <2>1. Word \in Nat /\ Word > 0 /\ v \in Nat /\ m0 \in Nat /\ v < Word /\ m0 < Word
    BY CpsiAssumption DEF Words
  <2> DEFINE a == v - m0 + Word
             c == a % Word
  <2>2. a \in Nat /\ a < 2 * Word
    BY <2>1
  <2>3. c \in Words /\ c = IF a < Word THEN a ELSE a - Word
    <3> HIDE DEF a
    <3> QED BY <2>2, Wrap
  <2>4. Masked(v, m0) = c
    BY <1>2 DEF Masked
  <2> HIDE DEF c
  <2>5. c \in Nat /\ c < Word
    BY <2>1, <2>3 DEF Words
  <2>6. m0 + c \in Nat /\ m0 + c < 2 * Word /\ (m0 + c < Word => m0 + c = v) /\ (~(m0 + c < Word) => m0 + c - Word = v)
    BY <2>1, <2>3, <2>5
  <2>7. (m0 + c) % Word = v
    <3> DEFINE t == m0 + c
    <3>1. t \in Nat /\ t < 2 * Word /\ (t < Word => t = v) /\ (~(t < Word) => t - Word = v)
      BY <2>1, <2>5, <2>6
    <3> HIDE DEF t
    <3>2. t % Word = v
      BY <3>1, Wrap
    <3> QED BY <3>2 DEF t
  <2> QED BY <1>2, <2>3, <2>4, <2>7 DEF Recombine
<1> QED BY <1>1, <1>2

\* Each row of the sender has a word, where there are values.
LEMMA ValuesIn ==
  ASSUME InputsIn, vals # Unset
  PROVE  \A i \in DOMAIN Y : vals[i] \in Words
<1>1. vals \in {Unset} \cup [DOMAIN Y -> Words]
  BY CpsiAssumption DEF InputsIn
<1> QED BY <1>1

LEMMA EntryIn ==
  ASSUME InputsIn, valS \in [Bins -> Words], NEW e \in Entries, NEW b \in Bins
  PROVE  Entry(e, b) \in Values /\ Entry(e, b).key = Secret(b)
<1>1. vals = Unset \/ Masked(vals[e.idx], valS[b]) \in Words
  <2> SUFFICES ASSUME vals # Unset PROVE Masked(vals[e.idx], valS[b]) \in Words
    OBVIOUS
  <2>1. vals[e.idx] \in Words /\ valS[b] \in Words /\ type \in ShareTypes
    BY ValuesIn DEF Entries, InputsIn
  <2> QED BY <2>1, MaskedIs
<1>2. (IF vals = Unset THEN Unset ELSE Masked(vals[e.idx], valS[b])) \in Words \cup {Unset}
  BY <1>1
<1> QED BY <1>2 DEF Entry, Values

(***************************************************************************)
(* The steps.                                                              *)
(***************************************************************************)
LEMMA CpsiStart == CpsiInit => CpsiInv
<1> SUFFICES ASSUME CpsiInit PROVE CpsiInv
  OBVIOUS
<1> QED BY DEF CpsiInit, CpsiInv, InputsIn, CpsiStages, SenderInv

LEMMA InputsKept ==
  ASSUME InputsIn, UNCHANGED cpsiInputs
  PROVE  InputsIn' /\ X' = X /\ Y' = Y /\ vals' = vals /\ type' = type
  BY DEF InputsIn, cpsiInputs

LEMMA SenderKept ==
  ASSUME SenderInv, UNCHANGED <<cpsiInputs, sendPc, table, bin, Ty, Tv, valS>>,
         sendPc # "hash" => rSeed' = rSeed
  PROVE  SenderInv'
<1>1. CASE sendPc = "hash"
  BY <1>1 DEF SenderInv
<1>2. CASE sendPc # "hash"
  <2>1. /\ sendPc' = sendPc /\ table' = table /\ bin' = bin /\ Ty' = Ty /\ Tv' = Tv /\ valS' = valS
        /\ rSeed' = rSeed /\ Y' = Y /\ vals' = vals /\ type' = type
    BY <1>2 DEF cpsiInputs
  <2>2. IsTable(table, rSeed)' <=> IsTable(table, rSeed)
    BY <2>1 DEF IsTable, Entries, Home
  <2>3. \A p, i, j : IsKey(p, i, j)' <=> IsKey(p, i, j)
    BY <2>1 DEF IsKey, Entry, Masked
  <2>4. Programmed' <=> Programmed
    BY <2>1, <2>3, Zenon DEF Programmed
  <2> QED BY <1>2, <2>1, <2>2, <2>4 DEF SenderInv
<1> QED BY <1>1, <1>2

LEMMA PlacedKept ==
  ASSUME Placed, UNCHANGED <<X, rSeed, mapping, Tx>>
  PROVE  Placed'
  BY DEF Placed

LEMMA RHashStep == ASSUME CpsiInv, RHash PROVE CpsiInv'
<1>1. InputsIn' /\ X' = X
  BY InputsKept DEF CpsiInv, RHash
<1>2. PICK s \in HashSeeds : \E h \in Placements(s) :
        /\ rSeed' = s /\ toSender' = Append(toSender, s)
        /\ mapping' = [i \in DOMAIN X |-> BinOf(s, X[i], h[i])]
        /\ Tx' = [i \in DOMAIN X |-> Tag(h[i], X[i])]
  BY DEF RHash
<1>3. PICK h \in Placements(s) :
        /\ rSeed' = s /\ toSender' = Append(toSender, s)
        /\ mapping' = [i \in DOMAIN X |-> BinOf(s, X[i], h[i])]
        /\ Tx' = [i \in DOMAIN X |-> Tag(h[i], X[i])]
  BY <1>2
<1>4. recvPc = "hash" /\ sendPc = "hash" /\ sendPc' = "hash" /\ toSender = <<>> /\ recvPc' = "opprf"
  BY DEF CpsiInv, CpsiStages, RHash, sendState
<1>5. toSender' = <<rSeed'>>
  BY <1>3, <1>4
<1>6. CpsiStages'
  BY <1>4, <1>5 DEF CpsiStages
<1>7. SenderInv'
  BY <1>4, SenderKept DEF CpsiInv, RHash, sendState
<1>8. Placed'
  <2>1. h \in [DOMAIN X -> HashIdx] /\ \A i, k \in DOMAIN X : BinOf(s, X[i], h[i]) = BinOf(s, X[k], h[k]) => i = k
    BY DEF Placements
  <2>2. \A i \in DOMAIN X : BinOf(s, X[i], h[i]) \in Bins
    BY <2>1, RecvRows DEF CpsiInv, InputsIn
  <2>3. DOMAIN Tx' = DOMAIN X /\ mapping' \in [DOMAIN X -> Bins]
    BY <1>3, <2>2
  <2>4. \A i \in DOMAIN X : h[i] \in HashIdx /\ mapping'[i] = BinOf(rSeed', X[i], h[i]) /\ Tx'[i] = Tag(h[i], X[i])
    BY <1>3, <2>1
  <2>5. \A i, k \in DOMAIN X : mapping'[i] = mapping'[k] => i = k
    BY <1>3, <2>1
  <2> QED BY <1>1, <1>3, <2>3, <2>4, <2>5 DEF Placed
<1> QED BY <1>1, <1>4, <1>6, <1>7, <1>8 DEF CpsiInv

LEMMA SHashStep == ASSUME CpsiInv, SHash PROVE CpsiInv'
<1>1. InputsIn' /\ X' = X /\ Y' = Y /\ InputsIn
  BY InputsKept DEF CpsiInv, SHash
<1>2. /\ recvPc = "opprf" /\ sendPc = "hash" /\ toSender = <<rSeed>> /\ Head(toSender) = rSeed /\ Tail(toSender) = <<>>
      /\ recvPc' = "opprf" /\ sendPc' = "bins" /\ toSender' = <<>> /\ rSeed' = rSeed
      /\ table' = Filled(rSeed)[3 * Len(Y)] /\ valS' \in Masks /\ bin' = 0 /\ Ty' = <<>> /\ Tv' = <<>>
  <2>1. sendPc = "hash" /\ toSender # <<>>
    BY DEF SHash
  <2>2. recvPc = "opprf" /\ toSender = <<rSeed>>
    BY <2>1 DEF CpsiInv, CpsiStages
  <2>3. Head(toSender) = rSeed /\ Tail(toSender) = <<>>
    BY <2>2
  <2>4. bin = 0 /\ Ty = <<>> /\ Tv = <<>>
    BY <2>1 DEF CpsiInv, SenderInv
  <2>5. /\ recvPc' = recvPc /\ rSeed' = rSeed /\ sendPc' = "bins" /\ toSender' = Tail(toSender)
        /\ table' = Filled(Head(toSender))[3 * Len(Y)] /\ valS' \in Masks
        /\ bin' = bin /\ Ty' = Ty /\ Tv' = Tv
    BY DEF SHash, recvState
  <2> QED BY <2>1, <2>2, <2>3, <2>4, <2>5, Zenon
<1>3. Placed /\ Placed'
  BY <1>2, PlacedKept DEF CpsiInv, SHash, recvState, cpsiInputs
<1>4. CpsiStages'
  BY <1>2 DEF CpsiStages
<1>5. IsTable(table, rSeed)'
  <2>1. IsTable(Filled(rSeed)[3 * Len(Y)], rSeed)
    BY <1>1, <1>3, TableFilled DEF InputsIn, Placed
  <2> QED BY <1>1, <1>2, <2>1 DEF IsTable, Entries, Home
<1>6. valS' \in [Bins -> Words]
  BY <1>2, CpsiAssumption
<1>7. Programmed'
  <2>1. 0 \in 0..NumBins /\ \A s \in HashSeeds, i \in DOMAIN Y, j \in HashIdx : ~(BinOf(s, Y[i], j) < 0)
    BY <1>1, SendRows, CpsiAssumption DEF InputsIn, Bins
  <2>2. rSeed \in HashSeeds
    BY <1>3 DEF Placed
  <2> QED BY <1>1, <1>2, <2>1, <2>2 DEF Programmed
<1>8. SenderInv'
  BY <1>2, <1>5, <1>6, <1>7 DEF SenderInv
<1> QED BY <1>1, <1>2, <1>3, <1>4, <1>8 DEF CpsiInv

\* Keys or values put behind those there are.
Extends(w, u, v, T) ==
  /\ w \in Seq(T) /\ Len(w) = Len(u) + Len(v) /\ Len(u) \in Nat /\ Len(v) \in Nat
  /\ DOMAIN u = 1..Len(u) /\ DOMAIN w = 1..Len(u) + Len(v)
  /\ \A p \in 1..Len(u) : w[p] = u[p]
  /\ \A p \in 1..Len(v) : w[Len(u) + p] = v[p]
  /\ \A p \in 1..Len(u) + Len(v) : p \in 1..Len(u) \/ \E o \in 1..Len(v) : p = Len(u) + o
LEMMA Behind ==
  ASSUME NEW T, NEW u \in Seq(T), NEW v \in Seq(T)
  PROVE  Extends(u \o v, u, v, T)
<1>1. /\ u \o v \in Seq(T) /\ Len(u \o v) = Len(u) + Len(v) /\ Len(u) \in Nat /\ Len(v) \in Nat
      /\ DOMAIN u = 1..Len(u)
      /\ DOMAIN (u \o v) = 1..Len(u) + Len(v)
  BY LenProperties, ConcatProperties
<1>2. \A p \in 1..Len(u) : (u \o v)[p] = u[p]
  BY <1>1, ConcatProperties
<1>3. \A p \in 1..Len(v) : (u \o v)[Len(u) + p] = v[p]
  BY <1>1
<1>4. ASSUME NEW p \in 1..Len(u) + Len(v), p \notin 1..Len(u)
      PROVE  \E o \in 1..Len(v) : p = Len(u) + o
  <2>1. p - Len(u) \in 1..Len(v) /\ p = Len(u) + (p - Len(u))
    BY <1>1, <1>4
  <2> QED BY <2>1
<1> QED BY <1>1, <1>2, <1>3, <1>4 DEF Extends

LEMMA SBinStep == ASSUME CpsiInv, SBin PROVE CpsiInv'
<1>0. PICK rows, n : rows = table[bin] /\ n = Len(Ty)
  OBVIOUS
<1> DEFINE keys == [p \in DOMAIN rows |-> Tag(rows[p].hashIdx, Y[rows[p].idx])]
           entries == [p \in DOMAIN rows |-> Entry(rows[p], bin)]
<1>1. InputsIn' /\ X' = X /\ Y' = Y /\ vals' = vals /\ type' = type /\ InputsIn
  BY InputsKept DEF CpsiInv, SBin
<1>2. /\ sendPc = "bins" /\ bin < NumBins /\ bin' = bin + 1 /\ Ty' = Ty \o keys /\ Tv' = Tv \o entries
      /\ recvPc' = recvPc /\ sendPc' = sendPc /\ toSender' = toSender /\ rSeed' = rSeed /\ mapping' = mapping
      /\ Tx' = Tx /\ table' = table /\ valS' = valS
  BY <1>0 DEF SBin, recvState
<1>3. recvPc = "opprf" /\ Placed /\ Placed'
  BY <1>1, <1>2, PlacedKept DEF CpsiInv, CpsiStages
<1>4. CpsiStages'
  BY <1>2 DEF CpsiInv, CpsiStages
<1>5. IsTable(table, rSeed) /\ valS \in [Bins -> Words] /\ Programmed
  BY <1>2 DEF CpsiInv, SenderInv
<1>6. bin \in Bins /\ bin \in Nat /\ bin + 1 \in 0..NumBins
  BY <1>2, <1>5, CpsiAssumption DEF Programmed, Bins
<1>7. /\ rows \in Seq(Entries) /\ DOMAIN rows = 1..Len(rows) /\ Len(rows) \in Nat
      /\ \A p \in DOMAIN rows : rows[p] \in Entries /\ Home(rSeed, rows[p]) = bin
  <2>1. rows \in Seq(Entries)
    BY <1>0, <1>5, <1>6 DEF IsTable
  <2>2. DOMAIN rows = 1..Len(rows) /\ Len(rows) \in Nat /\ \A p \in DOMAIN rows : rows[p] \in Entries
    BY <2>1, LenProperties, ElementOfSeq
  <2>3. \A p \in DOMAIN rows : Home(rSeed, rows[p]) = bin
    BY <1>0, <1>5, <1>6 DEF IsTable
  <2> QED BY <2>1, <2>2, <2>3
<1>8. \A p \in DOMAIN rows : /\ keys[p] = Tag(rows[p].hashIdx, Y[rows[p].idx]) /\ keys[p] \in Keys3
                             /\ entries[p] = Entry(rows[p], bin) /\ entries[p] \in Values
  <2> SUFFICES ASSUME NEW p \in DOMAIN rows
               PROVE  /\ Tag(rows[p].hashIdx, Y[rows[p].idx]) \in Keys3
                      /\ Entry(rows[p], bin) \in Values
    OBVIOUS
  <2>1. rows[p].hashIdx \in HashIdx /\ rows[p].idx \in DOMAIN Y
    BY <1>7 DEF Entries
  <2>2. Y[rows[p].idx] \in AllRows
    BY <1>1, <2>1, SendRows DEF InputsIn, AllRows
  <2>3. Entry(rows[p], bin) \in Values
    BY <1>1, <1>5, <1>6, <1>7, EntryIn
  <2> QED BY <2>1, <2>2, <2>3 DEF Keys3, Tag
<1>9. keys \in Seq(Keys3) /\ entries \in Seq(Values) /\ Len(keys) = Len(rows) /\ Len(entries) = Len(rows)
  <2>1. DOMAIN keys = 1..Len(rows) /\ DOMAIN entries = 1..Len(rows)
    BY <1>7
  <2>2. keys \in [1..Len(rows) -> Keys3] /\ entries \in [1..Len(rows) -> Values]
    BY <1>7, <1>8
  <2> HIDE DEF keys, entries
  <2> QED BY <1>7, <2>2
<1> HIDE DEF keys, entries
<1> DEFINE r == Len(rows)
<1>10. Ty \in Seq(Keys3) /\ Tv \in Seq(Values) /\ Len(Tv) = n
  BY <1>0, <1>5 DEF Programmed
<1>11. /\ Ty' \in Seq(Keys3) /\ Len(Ty') = n + r /\ n \in Nat /\ r \in Nat
       /\ DOMAIN Ty = 1..n /\ DOMAIN Ty' = 1..n + r
       /\ \A p \in 1..n : Ty'[p] = Ty[p]
       /\ \A p \in 1..r : Ty'[n + p] = keys[p]
       /\ \A p \in 1..n + r : p \in 1..n \/ \E o \in 1..r : p = n + o
  <2>1. Extends(Ty', Ty, keys, Keys3)
    BY <1>2, <1>9, <1>10, Behind
  <2> QED BY <1>0, <1>9, <2>1, Zenon DEF Extends
<1>12. /\ Tv' \in Seq(Values) /\ Len(Tv') = n + r
       /\ \A p \in 1..n : Tv'[p] = Tv[p]
       /\ \A p \in 1..r : Tv'[n + p] = entries[p]
  <2>1. Extends(Tv', Tv, entries, Values)
    BY <1>2, <1>9, <1>10, Behind
  <2> QED BY <1>9, <1>10, <2>1, Zenon DEF Extends
<1>13. \A p \in 1..n : \A i \in DOMAIN Y, j \in HashIdx : IsKey(p, i, j) => IsKey(p, i, j)'
  BY <1>1, <1>2, <1>11, <1>12 DEF IsKey, Entry, Masked
<1>14. \A p \in 1..r : IsKey(n + p, rows[p].idx, rows[p].hashIdx)'
  <2> SUFFICES ASSUME NEW p \in 1..r PROVE IsKey(n + p, rows[p].idx, rows[p].hashIdx)'
    OBVIOUS
  <2>1. p \in DOMAIN rows /\ rows[p] \in Entries /\ BinOf(rSeed, Y[rows[p].idx], rows[p].hashIdx) = bin
    BY <1>7 DEF Home
  <2>2. Ty'[n + p] = Tag(rows[p].hashIdx, Y[rows[p].idx]) /\ Tv'[n + p] = Entry(rows[p], bin)
    BY <1>8, <1>11, <1>12, <2>1
  <2>3. rows[p] = [idx |-> rows[p].idx, hashIdx |-> rows[p].hashIdx]
    BY <2>1 DEF Entries
  <2>4. Entry(rows[p], bin) = [key |-> Secret(bin),
                               val |-> IF vals = Unset THEN Unset ELSE Masked(vals[rows[p].idx], valS[bin])]
    BY DEF Entry
  <2>5. \A v, m0 : Masked(v, m0)' = Masked(v, m0)
    BY <1>1, <1>2 DEF Masked
  <2> QED BY <1>1, <1>2, <2>1, <2>2, <2>4, <2>5 DEF IsKey, Entry
<1>15. ASSUME NEW p \in DOMAIN Ty' PROVE Ty'[p][1] = 3 \/ \E i \in DOMAIN Y, j \in HashIdx : IsKey(p, i, j)'
  <2>1. CASE p \in 1..n
    <3>1. Ty[p][1] = 3 \/ \E i \in DOMAIN Y, j \in HashIdx : IsKey(p, i, j)
      BY <1>5, <1>11, <2>1 DEF Programmed
    <3> QED BY <1>11, <1>13, <2>1, <3>1
  <2>2. ASSUME NEW o \in 1..r, p = n + o PROVE \E i \in DOMAIN Y, j \in HashIdx : IsKey(p, i, j)'
    <3>1. rows[o].idx \in DOMAIN Y /\ rows[o].hashIdx \in HashIdx
      BY <1>7 DEF Entries
    <3>2. IsKey(n + o, rows[o].idx, rows[o].hashIdx)'
      BY <1>14
    <3> QED BY <2>2, <3>1, <3>2
  <2> QED BY <1>11, <2>1, <2>2
<1>16. ASSUME NEW i \in DOMAIN Y, NEW j \in HashIdx, BinOf(rSeed, Y[i], j) < bin + 1
       PROVE  \E p \in DOMAIN Ty' : IsKey(p, i, j)'
  <2>1. BinOf(rSeed, Y[i], j) \in Bins
    BY <1>1, <1>3, SendRows DEF InputsIn, Placed
  <2>2. CASE BinOf(rSeed, Y[i], j) < bin
    <3>1. PICK p \in DOMAIN Ty : IsKey(p, i, j)
      BY <1>5, <2>2 DEF Programmed
    <3> QED BY <1>11, <1>13, <3>1
  <2>3. CASE BinOf(rSeed, Y[i], j) = bin
    <3>1. PICK p \in DOMAIN rows : rows[p] = [idx |-> i, hashIdx |-> j]
      BY <1>0, <1>5, <2>3 DEF IsTable
    <3>2. IsKey(n + p, i, j)' /\ n + p \in DOMAIN Ty'
      BY <1>7, <1>11, <1>14, <3>1
    <3> QED BY <3>2
  <2> QED BY <1>6, <1>16, <2>1, <2>2, <2>3 DEF Bins
<1>17. Programmed'
  <2>1. DOMAIN Y' = DOMAIN Y /\ rSeed' = rSeed /\ bin' = bin + 1 /\ Len(Ty') = Len(Tv')
    BY <1>1, <1>2, <1>11, <1>12
  <2> QED BY <1>1, <1>6, <1>11, <1>12, <1>15, <1>16, <2>1, Zenon DEF Programmed
<1>18. SenderInv'
  <2>1. IsTable(table, rSeed)' /\ valS' \in [Bins -> Words]
    BY <1>1, <1>2, <1>5 DEF IsTable, Entries, Home
  <2> QED BY <1>2, <1>17, <2>1 DEF SenderInv
<1> QED BY <1>1, <1>2, <1>3, <1>4, <1>18 DEF CpsiInv

LEMMA SEndStep == ASSUME CpsiInv, SEnd PROVE CpsiInv'
<1>1. InputsIn' /\ X' = X /\ Y' = Y /\ vals' = vals /\ type' = type
  BY InputsKept DEF CpsiInv, SEnd
<1>2. /\ sendPc = "bins" /\ bin = NumBins /\ bin' = bin /\ Ty' = Ty /\ Tv' = Tv /\ sendPc' = "pad"
      /\ recvPc' = recvPc /\ toSender' = toSender /\ rSeed' = rSeed /\ mapping' = mapping
      /\ Tx' = Tx /\ table' = table /\ valS' = valS
  BY DEF SEnd, recvState
<1>3. recvPc = "opprf" /\ Placed /\ Placed'
  BY <1>1, <1>2, PlacedKept DEF CpsiInv, CpsiStages
<1>4. CpsiStages'
  BY <1>2 DEF CpsiInv, CpsiStages
<1>5. IsTable(table, rSeed) /\ valS \in [Bins -> Words] /\ Programmed
  BY <1>2 DEF CpsiInv, SenderInv
<1>6. \A p, i, j : IsKey(p, i, j)' <=> IsKey(p, i, j)
  BY <1>1, <1>2 DEF IsKey, Entry, Masked
<1>7. Programmed' /\ IsTable(table, rSeed)' /\ valS' \in [Bins -> Words]
  <2>1. Programmed'
    BY <1>1, <1>2, <1>5, <1>6, Zenon DEF Programmed
  <2> QED BY <1>1, <1>2, <1>5, <2>1 DEF IsTable, Entries, Home
<1>8. SenderInv'
  BY <1>2, <1>7 DEF SenderInv
<1> QED BY <1>1, <1>2, <1>3, <1>4, <1>8 DEF CpsiInv

LEMMA SPadStep == ASSUME CpsiInv, SPad PROVE CpsiInv'
<1>0. PICK n : n = Len(Ty)
  OBVIOUS
<1> DEFINE missing == 1..3 * Len(Y) - n
           keys == [p \in missing |-> <<3, p>>]
           entries == [p \in missing |-> Unset]
<1>1. InputsIn' /\ X' = X /\ Y' = Y /\ vals' = vals /\ type' = type /\ InputsIn
  BY InputsKept DEF CpsiInv, SPad
<1>2. /\ sendPc = "pad" /\ sendPc' = "opprf" /\ bin' = bin /\ Ty' = Ty \o keys /\ Tv' = Tv \o entries
      /\ recvPc' = recvPc /\ toSender' = toSender /\ rSeed' = rSeed /\ mapping' = mapping
      /\ Tx' = Tx /\ table' = table /\ valS' = valS
  BY <1>0 DEF SPad, recvState
<1>3. recvPc = "opprf" /\ Placed /\ Placed'
  BY <1>1, <1>2, PlacedKept DEF CpsiInv, CpsiStages
<1>4. CpsiStages'
  BY <1>2 DEF CpsiInv, CpsiStages
<1>5. IsTable(table, rSeed) /\ valS \in [Bins -> Words] /\ Programmed /\ bin = NumBins
  BY <1>2 DEF CpsiInv, SenderInv
<1>6. Ty \in Seq(Keys3) /\ Tv \in Seq(Values) /\ Len(Tv) = n /\ n \in Nat
  BY <1>0, <1>5, LenProperties DEF Programmed
<1>7. PICK r \in Nat : missing = 1..r
  <2>1. 3 * Len(Y) \in Nat
    BY <1>1, SendRows DEF InputsIn
  <2> DEFINE d == 3 * Len(Y) - n
  <2>2. d \in Int
    BY <1>6, <2>1
  <2>3. CASE d >= 0
    BY <2>2, <2>3
  <2>4. CASE d < 0
    <3> HIDE DEF d
    <3>1. 1..d = 1..0
      BY <2>2, <2>4
    <3> QED BY <3>1 DEF d
  <2> HIDE DEF d
  <2> QED BY <2>2, <2>3, <2>4
<1>8. keys \in Seq(Keys3) /\ entries \in Seq(Values) /\ Len(keys) = r /\ Len(entries) = r
      /\ \A p \in 1..r : keys[p] = <<3, p>>
  <2> HIDE DEF missing
  <2>1. \A p \in 1..r : <<3, p>> \in Keys3
    BY DEF Keys3
  <2>2. Unset \in Values
    BY DEF Values
  <2>3. keys \in [1..r -> Keys3] /\ entries \in [1..r -> Values]
    BY <1>7, <2>1, <2>2
  <2>4. \A p \in 1..r : keys[p] = <<3, p>>
    BY <1>7
  <2> HIDE DEF keys, entries
  <2> QED BY <2>3, <2>4
<1> HIDE DEF keys, entries, missing
<1>9. /\ Ty' \in Seq(Keys3) /\ Len(Ty') = n + r
      /\ DOMAIN Ty = 1..n /\ DOMAIN Ty' = 1..n + r
      /\ \A p \in 1..n : Ty'[p] = Ty[p]
      /\ \A p \in 1..r : Ty'[n + p] = keys[p]
      /\ \A p \in 1..n + r : p \in 1..n \/ \E o \in 1..r : p = n + o
  <2>1. Extends(Ty', Ty, keys, Keys3)
    BY <1>2, <1>6, <1>8, Behind
  <2> QED BY <1>0, <1>6, <1>8, <2>1, Zenon DEF Extends
<1>10. /\ Tv' \in Seq(Values) /\ Len(Tv') = n + r
       /\ \A p \in 1..n : Tv'[p] = Tv[p]
  <2>1. Extends(Tv', Tv, entries, Values)
    BY <1>2, <1>6, <1>8, Behind
  <2> QED BY <1>6, <1>8, <2>1, Zenon DEF Extends
<1>11. \A p \in 1..n : \A i \in DOMAIN Y, j \in HashIdx : IsKey(p, i, j) => IsKey(p, i, j)'
  BY <1>1, <1>2, <1>9, <1>10 DEF IsKey, Entry, Masked
<1>12. ASSUME NEW p \in DOMAIN Ty' PROVE Ty'[p][1] = 3 \/ \E i \in DOMAIN Y, j \in HashIdx : IsKey(p, i, j)'
  <2>1. CASE p \in 1..n
    <3>1. Ty[p][1] = 3 \/ \E i \in DOMAIN Y, j \in HashIdx : IsKey(p, i, j)
      BY <1>5, <1>9, <2>1 DEF Programmed
    <3> QED BY <1>9, <1>11, <2>1, <3>1
  <2>2. ASSUME NEW o \in 1..r, p = n + o PROVE Ty'[p][1] = 3
    BY <1>8, <1>9, <2>2
  <2> QED BY <1>9, <2>1, <2>2
<1>13. ASSUME NEW i \in DOMAIN Y, NEW j \in HashIdx, BinOf(rSeed, Y[i], j) < bin
       PROVE  \E p \in DOMAIN Ty' : IsKey(p, i, j)'
  <2>1. PICK p \in DOMAIN Ty : IsKey(p, i, j)
    BY <1>5, <1>13 DEF Programmed
  <2>2. p \in 1..n /\ p \in DOMAIN Ty'
    BY <1>6, <1>9
  <2> QED BY <1>11, <2>1, <2>2
<1>14. Programmed'
  <2>1. DOMAIN Y' = DOMAIN Y /\ rSeed' = rSeed /\ bin' = bin /\ Len(Ty') = Len(Tv') /\ bin \in 0..NumBins
    BY <1>1, <1>2, <1>5, <1>9, <1>10 DEF Programmed
  <2> QED BY <1>1, <1>9, <1>10, <1>12, <1>13, <2>1, Zenon DEF Programmed
<1>15. SenderInv'
  <2>1. IsTable(table, rSeed)' /\ valS' \in [Bins -> Words]
    BY <1>1, <1>2, <1>5 DEF IsTable, Entries, Home
  <2> QED BY <1>2, <1>5, <1>14, <2>1 DEF SenderInv
<1> QED BY <1>1, <1>2, <1>3, <1>4, <1>15 DEF CpsiInv

\* What the keys of a row look up to.
LEMMA LookupIs ==
  ASSUME WidthsApart, InputsIn, Placed, Programmed, IsTable(table, rSeed), valS \in [Bins -> Words], bin = NumBins,
         \A p, q \in DOMAIN Ty : Ty[p] = Ty[q] => p = q,
         NEW i \in DOMAIN X
  PROVE  LookedUp(Lookup(Tx[i]), i)
<1>6. ~OneBlock
  BY CpsiAssumption DEF OneBlock, WidthsApart, KeyBytes
<1>1. PICK j \in HashIdx : mapping[i] = BinOf(rSeed, X[i], j) /\ Tx[i] = Tag(j, X[i])
  BY DEF Placed
<1>2. Tx[i] = <<j, X[i]>> /\ j # 3 /\ mapping[i] \in Bins
  BY <1>1 DEF Tag, Placed, HashIdx
<1>3. ASSUME NEW p \in DOMAIN Ty, Ty[p] = Tx[i]
      PROVE  \E k \in DOMAIN Y : Y[k] = X[i] /\ IsKey(p, k, j)
  <2>1. Ty[p][1] # 3
    BY <1>2, <1>3
  <2>2. PICK k \in DOMAIN Y, l \in HashIdx : IsKey(p, k, l)
    BY <2>1 DEF Programmed
  <2>3. <<l, Y[k]>> = <<j, X[i]>>
    BY <1>2, <1>3, <2>2 DEF IsKey, Tag
  <2>4. l = j /\ Y[k] = X[i]
    BY <2>3
  <2> QED BY <2>2, <2>4
<1>4. CASE IsCommon(i)
  <2> DEFINE k == J!RowOf(Y, X[i])
  <2>1. k \in DOMAIN Y /\ Y[k] = X[i] /\ \A o \in DOMAIN Y : Y[o] = X[i] => o = k
    <3>1. \E o \in DOMAIN Y : Y[o] = X[i]
      BY <1>4 DEF IsCommon, J!Has
    <3>2. k \in DOMAIN Y /\ Y[k] = X[i]
      BY <3>1 DEF J!RowOf
    <3> HIDE DEF k
    <3> QED BY <3>2, SendRows DEF InputsIn
  <2> HIDE DEF k
  <2>2. BinOf(rSeed, Y[k], j) < bin
    BY <1>1, <1>2, <2>1, CpsiAssumption DEF Bins
  <2>3. PICK p \in DOMAIN Ty : IsKey(p, k, j)
    BY <2>1, <2>2 DEF Programmed
  <2>4. Ty[p] = Tx[i] /\ Tv[p] = Entry([idx |-> k, hashIdx |-> j], mapping[i])
    BY <1>1, <2>1, <2>3 DEF IsKey
  <2>5. \A q \in DOMAIN Ty : Ty[q] = Tx[i] => q = p
    BY <2>4
  <2>6. (CHOOSE q \in DOMAIN Ty : Ty[q] = Tx[i]) = p
    BY <2>4, <2>5
  <2>7. Lookup(Tx[i]) = Tv[p]
    BY <1>6, <2>4, <2>6 DEF Lookup
  <2> DEFINE e == [idx |-> k, hashIdx |-> j]
             res == Entry(e, mapping[i])
  <2>8. e \in Entries
    BY <2>1 DEF Entries
  <2>9. res \in Values /\ res.key = Secret(mapping[i])
    <3> HIDE DEF e
    <3> QED BY <1>2, <2>8, EntryIn
  <2>10. res.val = IF vals = Unset THEN Unset ELSE Masked(vals[k], valS[mapping[i]])
    BY DEF Entry
  <2>11. res.val \in Words \cup {Unset}
    <3>1. vals # Unset => Masked(vals[k], valS[mapping[i]]) \in Words
      <4> SUFFICES ASSUME vals # Unset PROVE Masked(vals[k], valS[mapping[i]]) \in Words
        OBVIOUS
      <4>1. vals[k] \in Words /\ valS[mapping[i]] \in Words /\ type \in ShareTypes
        BY <1>2, <2>1, ValuesIn DEF InputsIn
      <4> QED BY <4>1, MaskedIs
    <3> QED BY <2>10, <3>1
  <2>12. vals # Unset => res.val = Own(i)
    BY <2>10 DEF Own, k
  <2> HIDE DEF res, e
  <2>13. Lookup(Tx[i]) = res
    BY <2>4, <2>7 DEF res, e
  <2> QED BY <1>4, <2>9, <2>11, <2>12, <2>13 DEF LookedUp
<1>5. CASE ~IsCommon(i)
  <2>1. ~\E p \in DOMAIN Ty : Ty[p] = Tx[i]
    BY <1>3, <1>5 DEF IsCommon, J!Has
  <2> DEFINE res == [key |-> Unprogrammed(Tx[i]), val |-> IF vals = Unset THEN Unset ELSE Noise(Tx[i])]
  <2>2. Lookup(Tx[i]) = res
    BY <2>1 DEF Lookup
  <2>3. res.key # Secret(mapping[i])
    BY DEF Unprogrammed, Secret
  <2>4. Noise(Tx[i]) \in Words
    BY <1>2, RecvRows, CpsiAssumption DEF InputsIn
  <2>5. res.val \in Words \cup {Unset}
    BY <2>4
  <2> HIDE DEF res
  <2> QED BY <1>5, <2>2, <2>3, <2>5 DEF LookedUp
<1> QED BY <1>4, <1>5

LEMMA OpprfSetUp == ASSUME WidthsApart, CpsiInv, Opprf PROVE CpsiInv'
<1>1. InputsIn' /\ X' = X /\ Y' = Y /\ vals' = vals /\ type' = type /\ InputsIn
  BY InputsKept DEF CpsiInv, Opprf
<1>2. /\ sendPc = "opprf" /\ recvPc = "opprf" /\ sendPc' = "gmw" /\ recvPc' = "rows"
      /\ bin' = bin /\ Ty' = Ty /\ Tv' = Tv /\ toSender' = toSender /\ rSeed' = rSeed /\ mapping' = mapping
      /\ Tx' = Tx /\ table' = table /\ valS' = valS
      /\ prfTx' = [i \in DOMAIN X |-> Lookup(Tx[i])]
      /\ \A p, q \in DOMAIN Ty : Ty[p] = Ty[q] => p = q
  BY DEF Opprf
<1>3. Placed /\ Placed'
  BY <1>1, <1>2, PlacedKept DEF CpsiInv
<1>4. CpsiStages'
  BY <1>2 DEF CpsiInv, CpsiStages
<1>5. IsTable(table, rSeed) /\ valS \in [Bins -> Words] /\ Programmed /\ bin = NumBins
  BY <1>2 DEF CpsiInv, SenderInv
<1>6. \A p, i, j : IsKey(p, i, j)' <=> IsKey(p, i, j)
  BY <1>1, <1>2 DEF IsKey, Entry, Masked
<1>7. Programmed' /\ IsTable(table, rSeed)' /\ valS' \in [Bins -> Words]
  <2>1. Programmed'
    BY <1>1, <1>2, <1>5, <1>6, Zenon DEF Programmed
  <2>2. table' = table /\ rSeed' = rSeed /\ Y' = Y /\ valS' = valS
    BY <1>1, <1>2
  <2>3. IsTable(table, rSeed)' <=> IsTable(table, rSeed)
    BY <2>2 DEF IsTable, Entries, Home
  <2> QED BY <1>5, <2>1, <2>2, <2>3
<1>8. SenderInv'
  BY <1>2, <1>5, <1>7 DEF SenderInv
<1>9. ASSUME NEW i \in DOMAIN X PROVE LookedUp(prfTx[i], i)'
  <2>1. LookedUp(Lookup(Tx[i]), i)
    BY <1>1, <1>2, <1>3, <1>5, LookupIs
  <2>2. prfTx'[i] = Lookup(Tx[i])
    BY <1>2
  <2>3. Own(i)' = Own(i) /\ IsCommon(i)' = IsCommon(i)
    BY <1>1, <1>2 DEF Own, IsCommon, Masked, J!RowOf, J!Has
  <2>4. LookedUp(prfTx'[i], i)
    BY <2>1, <2>2
  <2> QED BY <1>1, <1>2, <2>3, <2>4 DEF LookedUp
<1> QED BY <1>1, <1>2, <1>3, <1>4, <1>8, <1>9 DEF CpsiInv

LEMMA RRowsStep == ASSUME CpsiInv, RRows PROVE CpsiInv'
<1>1. InputsIn' /\ X' = X /\ Y' = Y /\ vals' = vals /\ type' = type
  BY InputsKept DEF CpsiInv, RRows
<1>2. /\ recvPc = "rows" /\ recvPc' = "gmw"
      /\ sendPc' = sendPc /\ bin' = bin /\ Ty' = Ty /\ Tv' = Tv /\ toSender' = toSender /\ rSeed' = rSeed
      /\ mapping' = mapping /\ Tx' = Tx /\ table' = table /\ valS' = valS
      /\ rRows' = [b \in Bins |->
           IF \E i \in DOMAIN X : mapping[i] = b
           THEN prfTx[CHOOSE i \in DOMAIN X : mapping[i] = b]
           ELSE [key |-> Random(b), val |-> IF vals = Unset THEN Unset ELSE 0]]
  BY DEF RRows, sendState
<1>3. Placed /\ Placed'
  BY <1>1, <1>2, PlacedKept DEF CpsiInv
<1>4. CpsiStages'
  BY <1>2 DEF CpsiInv, CpsiStages
<1>5. SenderInv'
  BY <1>1, <1>2, SenderKept DEF CpsiInv, cpsiInputs
<1>6. \A i \in DOMAIN X : LookedUp(prfTx[i], i)
  BY <1>2 DEF CpsiInv
<1>7. \A i \in DOMAIN X : mapping[i] \in Bins /\ rRows'[mapping[i]] = prfTx[i]
  <2> SUFFICES ASSUME NEW i \in DOMAIN X PROVE mapping[i] \in Bins /\ rRows'[mapping[i]] = prfTx[i]
    OBVIOUS
  <2>1. mapping[i] \in Bins /\ \A k \in DOMAIN X : mapping[k] = mapping[i] => k = i
    BY <1>3 DEF Placed
  <2>2. (CHOOSE k \in DOMAIN X : mapping[k] = mapping[i]) = i
    BY <2>1
  <2> QED BY <1>2, <2>1, <2>2
<1>8. ASSUME NEW b \in Bins, ~\E i \in DOMAIN X : mapping[i] = b
      PROVE  rRows'[b].key # Secret(b) /\ rRows'[b].val \in Words \cup {Unset}
  <2>1. rRows'[b] = [key |-> Random(b), val |-> IF vals = Unset THEN Unset ELSE 0]
    BY <1>2, <1>8
  <2>2. 0 \in Words
    BY CpsiAssumption DEF Words
  <2> QED BY <2>1, <2>2 DEF Random, Secret
<1>9. \A i \in DOMAIN X : Own(i)' = Own(i) /\ IsCommon(i)' = IsCommon(i)
  BY <1>1, <1>2 DEF Own, IsCommon, Masked, J!RowOf, J!Has
<1>10. RowsPlaced'
  <2>1. ASSUME NEW b \in Bins
        PROVE  /\ rRows'[b].key = Secret(b) <=> \E i \in DOMAIN X : mapping[i] = b /\ IsCommon(i)
               /\ rRows'[b].val \in Words \cup {Unset}
    <3>1. CASE \E i \in DOMAIN X : mapping[i] = b
      <4>1. PICK i \in DOMAIN X : mapping[i] = b
        BY <3>1
      <4>2. \A k \in DOMAIN X : mapping[k] = b => k = i
        BY <1>3, <4>1 DEF Placed
      <4>3. LookedUp(rRows'[b], i)
        BY <1>6, <1>7, <4>1
      <4> QED BY <4>1, <4>2, <4>3 DEF LookedUp
    <3>2. CASE ~\E i \in DOMAIN X : mapping[i] = b
      BY <1>8, <3>2
    <3> QED BY <3>1, <3>2
  <2>2. ASSUME NEW i \in DOMAIN X, vals # Unset, IsCommon(i) PROVE rRows'[mapping[i]].val = Own(i)
    BY <1>6, <1>7, <2>2 DEF LookedUp
  <2>3. \A b \in Bins : Secret(b)' = Secret(b)
    BY DEF Secret
  <2> QED BY <1>1, <1>2, <1>9, <2>1, <2>2, <2>3, Zenon DEF RowsPlaced
<1> QED BY <1>1, <1>2, <1>3, <1>4, <1>5, <1>10 DEF CpsiInv

LEMMA ZeroTestStep == ASSUME CpsiInv, ZeroTest PROVE CpsiInv'
<1>1. InputsIn' /\ X' = X
  BY InputsKept DEF CpsiInv, ZeroTest
<1>2. /\ recvPc = "gmw" /\ sendPc = "gmw" /\ recvPc' = "done" /\ sendPc' = "done" /\ toSender' = toSender
      /\ UNCHANGED <<cpsiInputs, rSeed, mapping, Tx, table, bin, Ty, Tv, valS>>
  BY DEF ZeroTest
<1>3. Placed'
  BY <1>1, <1>2, PlacedKept DEF CpsiInv
<1>4. CpsiStages'
  BY <1>2 DEF CpsiInv, CpsiStages
<1>5. SenderInv'
  <2>1. /\ table' = table /\ bin' = bin /\ Ty' = Ty /\ Tv' = Tv /\ valS' = valS
        /\ rSeed' = rSeed /\ Y' = Y /\ vals' = vals /\ type' = type
    BY <1>2 DEF cpsiInputs
  <2>2. IsTable(table, rSeed)' <=> IsTable(table, rSeed)
    BY <2>1 DEF IsTable, Entries, Home
  <2>3. \A p, i, j : IsKey(p, i, j)' <=> IsKey(p, i, j)
    BY <2>1 DEF IsKey, Entry, Masked
  <2>4. Programmed' <=> Programmed
    BY <2>1, <2>3, Zenon DEF Programmed
  <2> QED BY <1>2, <2>1, <2>2, <2>4 DEF SenderInv, CpsiInv
<1> QED BY <1>1, <1>2, <1>3, <1>4, <1>5 DEF CpsiInv

LEMMA CpsiStutter == ASSUME CpsiInv, UNCHANGED cpsiVars PROVE CpsiInv'
<1>1. /\ InputsIn' /\ X' = X /\ Y' = Y /\ vals' = vals /\ type' = type /\ rSeed' = rSeed /\ mapping' = mapping
      /\ Tx' = Tx /\ recvPc' = recvPc /\ sendPc' = sendPc /\ toSender' = toSender /\ valS' = valS
      /\ prfTx' = prfTx /\ rRows' = rRows
  BY DEF CpsiInv, InputsIn, cpsiVars
<1>2. SenderInv'
  BY SenderKept DEF CpsiInv, cpsiVars, cpsiInputs
<1>3. recvPc # "hash" => Placed'
  BY <1>1, PlacedKept DEF CpsiInv
<1>4. CpsiStages'
  BY <1>1 DEF CpsiInv, CpsiStages
<1>5. \A i : Own(i)' = Own(i) /\ IsCommon(i)' = IsCommon(i)
  BY <1>1 DEF Own, IsCommon, Masked, J!RowOf, J!Has
<1>6. recvPc = "rows" => \A i \in DOMAIN X : LookedUp(prfTx[i], i)'
  <2>1. \A i \in DOMAIN X : prfTx'[i] = prfTx[i]
    BY <1>1
  <2> QED BY <1>1, <1>5, <2>1 DEF CpsiInv, LookedUp, Secret
<1>7. recvPc = "gmw" => RowsPlaced'
  BY <1>1, <1>5, Zenon DEF CpsiInv, RowsPlaced, Secret
<1> QED BY <1>1, <1>2, <1>3, <1>4, <1>6, <1>7 DEF CpsiInv

LEMMA CpsiStep == ASSUME WidthsApart, CpsiInv, [CpsiNext]_cpsiVars PROVE CpsiInv'
<1>1. CASE CpsiDone \/ UNCHANGED cpsiVars
  BY <1>1, CpsiStutter DEF CpsiDone
<1> QED BY <1>1, RHashStep, SHashStep, SBinStep, SEndStep, SPadStep, OpprfSetUp, RRowsStep, ZeroTestStep DEF CpsiNext

(***************************************************************************)
(* The refinement: only the zero test shares anything, and what it shares  *)
(* is the join.                                                            *)
(***************************************************************************)
LEMMA ZeroTestJoins ==
  ASSUME CpsiInv, ZeroTest
  PROVE  Sharing = Unset /\ Sharing' # Unset /\ J!IsJoin(Sharing') /\ UNCHANGED <<X, Y, vals, type>>
<1> DEFINE joined == [mapping |-> mapping, flagS |-> flagS', flagR |-> flagR',
                      valS |-> valS, valR |-> [b \in Bins |-> rRows[b].val]]
<1>1. /\ recvPc = "gmw" /\ sendPc = "gmw" /\ recvPc' = "done" /\ sendPc' = "done"
      /\ mapping' = mapping /\ valS' = valS /\ rRows' = rRows
      /\ X' = X /\ Y' = Y /\ vals' = vals /\ type' = type
  BY DEF ZeroTest, cpsiInputs
<1>2. PICK sum \in KeySums \ {NoSum}, flags \in FlagShares :
        /\ flagS' = flags
        /\ flagR' = [b \in Bins |->
             (flags[b] + (IF rRows[b].key = Secret(b) THEN IsZeroOut(NoSum) ELSE IsZeroOut(sum))) % 2]
  BY DEF ZeroTest
<1>3. IsZeroOut(NoSum) = 1 /\ IsZeroOut(sum) = 0
  <2>1. NoSum \in KeySums
    BY DEF NoSum, KeySums
  <2> QED BY <2>1, ZeroTestExact
<1>4. InputsIn /\ Placed /\ RowsPlaced /\ valS \in [Bins -> Words]
  BY <1>1 DEF CpsiInv, SenderInv
<1>5. Sharing = Unset /\ Sharing' = joined
  BY <1>1 DEF Sharing
<1>6. flags \in [Bins -> 0..1]
  BY CpsiAssumption
<1>7. \A b \in Bins : flagR'[b] = (flags[b] + (IF rRows[b].key = Secret(b) THEN 1 ELSE 0)) % 2
  BY <1>2, <1>3
<1>8. \A b \in Bins : /\ flagR'[b] \in 0..1
                      /\ (flagS'[b] + flagR'[b]) % 2 = (IF rRows[b].key = Secret(b) THEN 1 ELSE 0)
  <2> SUFFICES ASSUME NEW b \in Bins
               PROVE  /\ flagR'[b] \in 0..1
                      /\ (flagS'[b] + flagR'[b]) % 2 = (IF rRows[b].key = Secret(b) THEN 1 ELSE 0)
    OBVIOUS
  <2> DEFINE f == flags[b]
             bit == IF rRows[b].key = Secret(b) THEN 1 ELSE 0
             g == flagR'[b]
  <2>1. f \in 0..1 /\ bit \in 0..1 /\ g = (f + bit) % 2 /\ flagS'[b] = f
    BY <1>2, <1>6, <1>7
  <2> HIDE DEF f, bit, g
  <2>2. g \in 0..1 /\ (f + g) % 2 = bit
    BY <2>1
  <2> QED BY <2>1, <2>2 DEF g, bit
<1>9. /\ mapping \in [DOMAIN X -> Bins]
      /\ \A i, k \in DOMAIN X : mapping[i] = mapping[k] => i = k
  BY <1>4 DEF Placed
<1>10. joined \in [mapping : Seq(Bins), flagS : [Bins -> 0..1], flagR : [Bins -> 0..1],
                   valS : [Bins -> Words], valR : [Bins -> Words \cup {Unset}]]
  <2>1. mapping \in Seq(Bins)
    <3>1. Len(X) \in Nat /\ DOMAIN X = 1..Len(X)
      BY <1>4, RecvRows DEF InputsIn
    <3> QED BY <1>9, <3>1
  <2>2. flagS' \in [Bins -> 0..1]
    BY <1>2, <1>6
  <2>3. flagR' \in [Bins -> 0..1]
    BY <1>2, <1>8
  <2>4. [b \in Bins |-> rRows[b].val] \in [Bins -> Words \cup {Unset}]
    BY <1>4 DEF RowsPlaced
  <2> QED BY <1>4, <2>1, <2>2, <2>3, <2>4
<1>11. Sharing' # Unset
  <2> HIDE DEF joined
  <2> QED BY <1>5, <1>10, CpsiAssumption
<1>12. \A b \in Bins : b \in J!Common(joined) <=> rRows[b].key = Secret(b)
  <2>1. \A b : b \in J!Common(joined) <=> \E i \in DOMAIN X : mapping[i] = b /\ IsCommon(i)
    BY DEF J!Common, IsCommon
  <2> QED BY <1>4, <2>1 DEF RowsPlaced
<1>13. ASSUME vals # Unset, NEW i \in DOMAIN X, J!Has(Y, X[i])
       PROVE  Recombine(type, valS[mapping[i]], [b \in Bins |-> rRows[b].val][mapping[i]]) = vals[J!RowOf(Y, X[i])]
  <2> DEFINE k == J!RowOf(Y, X[i])
  <2>1. k \in DOMAIN Y
    BY <1>13 DEF J!RowOf, J!Has
  <2> HIDE DEF k
  <2>2. vals[k] \in Words /\ valS[mapping[i]] \in Words /\ type \in ShareTypes /\ mapping[i] \in Bins
    BY <1>4, <1>9, <1>13, <2>1, ValuesIn DEF InputsIn
  <2>3. rRows[mapping[i]].val = Masked(vals[k], valS[mapping[i]])
    BY <1>4, <1>13 DEF RowsPlaced, IsCommon, Own, k
  <2>4. Recombine(type, valS[mapping[i]], Masked(vals[k], valS[mapping[i]])) = vals[k]
    BY <2>2, MaskedIs
  <2> QED BY <2>2, <2>3, <2>4 DEF k
<1>14. J!IsJoin(joined)
  <2>1. J!Injective(mapping)
    BY <1>9 DEF J!Injective
  <2>2. \A b \in Bins : (flagS'[b] + flagR'[b]) % 2 = (IF b \in J!Common(joined) THEN 1 ELSE 0)
    BY <1>8, <1>12
  <2>3. /\ joined.mapping = mapping /\ joined.flagS = flagS' /\ joined.flagR = flagR' /\ joined.valS = valS
        /\ joined.valR = [b \in Bins |-> rRows[b].val]
    OBVIOUS
  <2> HIDE DEF joined
  <2> QED BY <1>9, <1>13, <2>1, <2>2, <2>3 DEF J!IsJoin
<1> QED BY <1>1, <1>5, <1>11, <1>14

\* Circuit PSI keeps the promise of Join, for every hashing, placement, set,
\* value, share type and widths whose rows are not exactly one block: once both sides have returned, the flags of
\* a bin add up to one exactly where its row is common, and the values of a
\* common row's bin to the sender's.
THEOREM CpsiImplementsJoin == ASSUME WidthsApart PROVE CpsiSpec => ImplementsJoin
<1>1. CpsiInit => J!Init
  BY DEF CpsiInit, J!Init, Sharing
<1>2. ASSUME CpsiInv, [CpsiNext]_cpsiVars
      PROVE  [J!Next]_<<X, Y, vals, type, Sharing>>
  <2>1. CASE ZeroTest
    <3>1. Sharing = Unset /\ Sharing' # Unset /\ J!IsJoin(Sharing') /\ UNCHANGED <<X, Y, vals, type>>
      BY <1>2, <2>1, ZeroTestJoins
    <3> QED BY <3>1 DEF J!Next
  <2>2. CASE CpsiDone \/ UNCHANGED cpsiVars
    BY <2>2 DEF CpsiDone, cpsiVars, Sharing
  <2>3. ASSUME ~ZeroTest, ~CpsiDone, ~UNCHANGED cpsiVars
        PROVE  Sharing = Unset /\ Sharing' = Unset /\ UNCHANGED <<X, Y, vals, type>>
    <3>1. RHash \/ SHash \/ SBin \/ SEnd \/ SPad \/ Opprf \/ RRows
      BY <1>2, <2>3 DEF CpsiNext
    <3>2. CpsiStages
      BY <1>2 DEF CpsiInv
    <3>3. UNCHANGED <<X, Y, vals, type>>
      BY <3>1 DEF RHash, SHash, SBin, SEnd, SPad, Opprf, RRows, cpsiInputs
    <3>4. (sendPc # "done" /\ sendPc' # "done") \/ (recvPc # "done" /\ recvPc' # "done")
      BY <3>1, <3>2 DEF RHash, SHash, SBin, SEnd, SPad, Opprf, RRows, CpsiStages, recvState, sendState
    <3> QED BY <3>3, <3>4 DEF Sharing
  <2> QED BY <2>1, <2>2, <2>3
<1>3. CpsiInv /\ [CpsiNext]_cpsiVars => CpsiInv'
  BY CpsiStep
<1>4. CpsiInv /\ [CpsiNext]_cpsiVars => [J!Next]_<<X, Y, vals, type, Sharing>>
  BY <1>2
<1> QED BY <1>1, <1>3, <1>4, CpsiStart, PTL DEF CpsiSpec, ImplementsJoin, J!Spec
=============================================================================
