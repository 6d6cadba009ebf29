---------------------------- MODULE BaxosProofs ----------------------------
(***************************************************************************)
(* Baxos::implParSolve and implParDecode, for any inputs and queries, any  *)
(* number of threads and bins and any spread of the keys over the bins:    *)
(* none gathers a bin while another thread still hashes into the shared    *)
(* arrays (the numDone barrier), no two ever encode the same bin, what is  *)
(* encoded as a bin are exactly its items (with the merges in place), and  *)
(* what is decoded in the end is exact.                                    *)
(***************************************************************************)
EXTENDS Baxos, FiniteSetTheorems, FunctionTheorems, SequenceTheorems, WellFoundedInduction, TLAPS

(***************************************************************************)
(* The inductive invariant.  The counter is the number of threads past     *)
(* their hashing, the promise is set when these are all; and the bins of a *)
(* thread are its number and every numThreads-th after it.                 *)
(***************************************************************************)
Solving == phase = "solve" /\ numBins > 1
Arrived == {t \in Threads : tpc[t] # "hash"}
TypeInv ==
  /\ numThreads \in Nat \ {0} /\ DOMAIN tpc = Threads /\ DOMAIN bin = Threads
  /\ Solving => \A t \in Threads : tpc[t] \in {"hash", "wait", "bins", "encode", "done"}
CountInv ==
  Solving => /\ numDone = Cardinality(Arrived)
             /\ promise => Arrived = Threads
             /\ \A t \in Threads : tpc[t] \in {"bins", "encode", "done"} => promise
Steps(t, n) == {b \in Nat : \E q \in Nat : b = n * q + t}
StrideInv == \A t \in Threads : bin[t] \in Steps(t, numThreads)
SolveInv == TypeInv /\ CountInv /\ StrideInv

(***************************************************************************)
(* Arithmetic and sets.                                                    *)
(***************************************************************************)
LEMMA Remainder ==
  ASSUME NEW n \in Nat \ {0}, NEW t \in 0..n - 1, NEW u \in 0..n - 1,
         NEW q \in Nat, NEW r \in Nat, n * q + t = n * r + u
  PROVE  t = u
<1>1. ASSUME NEW x \in Nat, NEW y \in Nat, x < y PROVE n * x + n <= n * y
  <2>1. PICK d \in Nat : y = (x + 1) + d
    <3>1. y - (x + 1) \in Nat /\ y = (x + 1) + (y - (x + 1))
      BY <1>1
    <3> QED BY <3>1
  <2>2. n * y = n * x + n + n * d /\ n * d \in Nat /\ n * x \in Nat
    BY <2>1
  <2> QED BY <2>2
<1>2. CASE q < r
  <2>1. n * q + n <= n * r /\ n * q \in Nat /\ n * r \in Nat
    BY <1>1, <1>2
  <2> QED BY <2>1
<1>3. CASE r < q
  <2>1. n * r + n <= n * q /\ n * q \in Nat /\ n * r \in Nat
    BY <1>1, <1>3
  <2> QED BY <2>1
<1>4. CASE q = r
  <2>1. n * q \in Nat
    OBVIOUS
  <2> QED BY <1>4, <2>1
<1> QED BY <1>2, <1>3, <1>4

LEMMA Strides ==
  ASSUME NEW n \in Nat \ {0}, NEW t \in Nat, NEW b \in Steps(t, n)
  PROVE  b + n \in Steps(t, n)
<1>1. PICK q \in Nat : b \in Nat /\ b = n * q + t
  BY DEF Steps
<1>2. b + n = n * (q + 1) + t
  BY <1>1
<1>3. b + n \in Nat /\ q + 1 \in Nat
  BY <1>1
<1> QED BY <1>2, <1>3 DEF Steps

LEMMA ThreadsFinite ==
  ASSUME numThreads \in Nat \ {0}
  PROVE  /\ IsFiniteSet(Threads) /\ Cardinality(Threads) = numThreads
         /\ IsFiniteSet(Arrived)
         /\ Cardinality(Arrived) = numThreads => Arrived = Threads
<1>1. IsFiniteSet(Threads) /\ Cardinality(Threads) = numThreads
  <2>1. 0 \in Int /\ numThreads - 1 \in Int /\ ~(0 > numThreads - 1) /\ (numThreads - 1) - 0 + 1 = numThreads
    OBVIOUS
  <2> QED BY <2>1, FS_Interval DEF Threads
<1>2. Arrived \subseteq Threads
  BY DEF Arrived
<1> QED BY <1>1, <1>2, FS_Subset

(***************************************************************************)
(* The steps.                                                              *)
(***************************************************************************)
LEMMA SolveInit == Init => SolveInv
<1> SUFFICES ASSUME Init PROVE SolveInv
  OBVIOUS
<1>1. numThreads \in Nat \ {0}
  BY BaxosAssumption DEF Init
<1>2. TypeInv
  BY <1>1 DEF Init, TypeInv
<1>3. CountInv
  <2>1. Arrived = {}
    BY DEF Init, Arrived
  <2>2. Cardinality({}) = 0
    BY FS_EmptySet
  <2>3. numDone = 0 /\ promise = FALSE /\ \A t \in Threads : tpc[t] = "hash"
    BY DEF Init
  <2> QED BY <2>1, <2>2, <2>3 DEF CountInv
<1>4. StrideInv
  <2> SUFFICES ASSUME NEW t \in Threads PROVE bin[t] \in Steps(t, numThreads)
    BY DEF StrideInv
  <2>1. bin[t] = t /\ t \in Nat /\ t = numThreads * 0 + t
    BY <1>1 DEF Init, Threads
  <2> QED BY <2>1 DEF Steps
<1> QED BY <1>2, <1>3, <1>4 DEF SolveInv

\* A step that moves one thread on after the barrier, or leaves it.
LEMMA MoveOn ==
  ASSUME SolveInv, NEW t \in Threads, NEW from \in {"wait", "bins", "encode"},
         NEW to \in {"bins", "encode", "done"}, Go(t, from, to), promise,
         UNCHANGED <<numThreads, numBins, phase, barrier>>,
         bin' = bin \/ bin' = [bin EXCEPT ![t] = @ + numThreads]
  PROVE  SolveInv'
<1>1. numThreads \in Nat \ {0} /\ Threads' = Threads /\ Solving /\ Solving'
  BY DEF SolveInv, TypeInv, Threads, Solving, Go
<1>2. /\ DOMAIN tpc' = Threads /\ tpc'[t] = to /\ \A u \in Threads : u # t => tpc'[u] = tpc[u]
      /\ tpc[t] = from
  BY DEF SolveInv, TypeInv, Go
<1>3. TypeInv'
  BY <1>1, <1>2 DEF SolveInv, TypeInv
<1>4. Arrived' = Arrived
  BY <1>1, <1>2 DEF Arrived
<1>5. CountInv'
  BY <1>1, <1>2, <1>4 DEF SolveInv, CountInv, barrier
<1>6. StrideInv'
  <2> SUFFICES ASSUME NEW u \in Threads PROVE bin'[u] \in Steps(u, numThreads)
    BY <1>1 DEF StrideInv
  <2>1. bin[u] \in Steps(u, numThreads)
    BY DEF SolveInv, StrideInv
  <2>2. bin'[u] = bin[u] \/ bin'[u] = bin[u] + numThreads
    BY DEF SolveInv, TypeInv
  <2>3. u \in Nat
    BY <1>1 DEF Threads
  <2> QED BY <1>1, <2>1, <2>2, <2>3, Strides
<1> QED BY <1>3, <1>5, <1>6 DEF SolveInv

LEMMA HashStep ==
  ASSUME SolveInv, NEW t \in Threads, Hash(t)
  PROVE  SolveInv'
<1>1. /\ numThreads' = numThreads /\ numBins' = numBins /\ phase' = phase /\ bin' = bin
      /\ numDone' = numDone /\ promise' = promise
      /\ DOMAIN tpc' = Threads /\ \A u \in Threads : tpc'[u] = tpc[u]
  BY DEF Hash, inst, barrier, Go, SolveInv, TypeInv
<1>2. Threads' = Threads /\ (Solving' <=> Solving)
  BY <1>1 DEF Threads, Solving
<1>3. Arrived' = Arrived
  BY <1>1, <1>2 DEF Arrived
<1> QED BY <1>1, <1>2, <1>3 DEF SolveInv, TypeInv, CountInv, StrideInv

\* The last to arrive sets the promise.
LEMMA ArriveStep ==
  ASSUME SolveInv, NEW t \in Threads, Arrive(t)
  PROVE  SolveInv'
<1>1. /\ numThreads' = numThreads /\ numBins' = numBins /\ phase' = phase /\ bin' = bin
      /\ numDone' = numDone + 1 /\ tpc[t] = "hash" /\ Solving
      /\ \E to \in {"wait", "bins"} : tpc' = [tpc EXCEPT ![t] = to]
      /\ IF numDone + 1 = numThreads THEN promise' = TRUE ELSE promise' = promise
      /\ numDone + 1 # numThreads => tpc' = [tpc EXCEPT ![t] = "wait"]
  BY DEF Arrive, inst, Go, AllHashed, Solving
<1>2. numThreads \in Nat \ {0} /\ Threads' = Threads /\ Solving'
  BY <1>1 DEF SolveInv, TypeInv, Threads, Solving
<1>3. /\ DOMAIN tpc' = Threads /\ tpc'[t] \in {"wait", "bins"}
      /\ \A u \in Threads : u # t => tpc'[u] = tpc[u]
      /\ numDone + 1 # numThreads => tpc'[t] = "wait"
  BY <1>1 DEF SolveInv, TypeInv
<1>4. TypeInv' /\ StrideInv'
  BY <1>1, <1>2, <1>3 DEF SolveInv, TypeInv, StrideInv
<1>5. Arrived' = Arrived \cup {t} /\ t \notin Arrived
  BY <1>1, <1>2, <1>3 DEF Arrived
<1>6. numDone' = Cardinality(Arrived')
  <2>1. IsFiniteSet(Arrived)
    BY <1>2, ThreadsFinite
  <2>2. Cardinality(Arrived \cup {t}) = Cardinality(Arrived) + 1
    BY <1>5, <2>1, FS_AddElement
  <2> QED BY <1>1, <1>5, <2>2 DEF SolveInv, CountInv
<1>7. promise' => Arrived' = Threads
  <2>1. CASE numDone + 1 = numThreads
    <3> DEFINE A == Arrived \cup {t}
    <3>1. A \subseteq Threads /\ Cardinality(A) = Cardinality(Threads) /\ IsFiniteSet(Threads)
      BY <1>1, <1>2, <1>5, <1>6, <2>1, ThreadsFinite DEF Arrived
    <3>2. A = Threads
      BY <3>1, FS_Subset
    <3> QED BY <1>5, <3>2
  <2>2. CASE numDone + 1 # numThreads
    BY <1>1, <1>5, <2>2 DEF SolveInv, CountInv
  <2> QED BY <2>1, <2>2
<1>8. \A u \in Threads : tpc'[u] \in {"bins", "encode", "done"} => promise'
  BY <1>1, <1>3 DEF SolveInv, CountInv
<1> QED BY <1>2, <1>4, <1>6, <1>7, <1>8 DEF SolveInv, CountInv

LEMMA BinStep ==
  ASSUME SolveInv, NEW t \in Threads, Pass(t) \/ Gather(t) \/ Encode(t) \/ Return(t)
  PROVE  SolveInv'
<1>1. PICK from \in {"wait", "bins", "encode"}, to \in {"bins", "encode", "done"} :
        Go(t, from, to) /\ (from = "wait" => promise)
  BY DEF Pass, Gather, Encode, Return
<1>2. promise
  BY <1>1 DEF SolveInv, CountInv, Go, Solving
<1>3. /\ UNCHANGED <<numThreads, numBins, phase, barrier>>
      /\ bin' = bin \/ bin' = [bin EXCEPT ![t] = @ + numThreads]
  BY DEF Pass, Gather, Encode, Return, inst
<1> QED BY <1>1, <1>2, <1>3, MoveOn

\* Everything else ends the solving or takes place after it.
LEMMA OtherStep ==
  ASSUME SolveInv,
         Main \/ Ended \/ UNCHANGED vars \/ \E t \in Threads : Throw(t) \/ Take(t) \/ TakeRest(t)
  PROVE  SolveInv'
<1>1. CASE UNCHANGED <<numThreads, numBins, phase, tpc, bin, barrier>>
  BY <1>1 DEF SolveInv, TypeInv, CountInv, StrideInv, Solving, Arrived, Threads, barrier
<1>2. CASE /\ UNCHANGED <<numThreads, numBins, bin>> /\ DOMAIN tpc' = Threads
           /\ ~Solving'
  BY <1>2 DEF SolveInv, TypeInv, CountInv, StrideInv, Solving, Threads
<1>3. ASSUME Ended \/ UNCHANGED vars PROVE UNCHANGED <<numThreads, numBins, phase, tpc, bin, barrier>>
  BY <1>3 DEF Ended, vars, barrier
<1>4. ASSUME Main
      PROVE  /\ UNCHANGED <<numThreads, numBins, bin>> /\ DOMAIN tpc' = Threads /\ ~Solving'
  BY <1>4 DEF Main, SolveSingle, ThrowSingle, Joined, DecodeSingle, DecodeJoined, inst, Solving, SolveInv, TypeInv
<1>5. ASSUME NEW t \in Threads, Throw(t) \/ Take(t) \/ TakeRest(t)
      PROVE  /\ UNCHANGED <<numThreads, numBins, bin>> /\ DOMAIN tpc' = Threads /\ ~Solving'
  BY <1>5 DEF Throw, Take, TakeRest, inst, Solving, SolveInv, TypeInv
<1> QED BY <1>1, <1>2, <1>3, <1>4, <1>5

LEMMA SolveStep == ASSUME SolveInv, [Next]_vars PROVE SolveInv'
  BY HashStep, ArriveStep, BinStep, OtherStep DEF Next, Step

(***************************************************************************)
(* The barrier and the strides.                                            *)
(***************************************************************************)

\* While a thread gathers or encodes bins of implParSolve, which it reads from
\* the regions of all threads, no thread hashes into its region any more.
HashedFirst ==
  Solving => \A t, u \in Threads : tpc[t] \in {"bins", "encode", "done"} => tpc[u] # "hash"

\* For any number of threads and every interleaving, the numDone barrier keeps
\* hashing and gathering apart.
THEOREM HashedFirstHolds == Spec => []HashedFirst
<1>1. SolveInv => HashedFirst
  BY DEF SolveInv, CountInv, HashedFirst, Arrived
<1> QED BY <1>1, SolveInit, SolveStep, PTL DEF Spec

\* No two threads of implParSolve are ever at the same bin, so the merges in
\* place and the Paxos objects of two threads never touch.
BinsApart == \A t, u \in Threads : t # u => bin[t] # bin[u]

\* For any number of threads and bins, stepping by numThreads gives each bin to
\* one thread.
THEOREM BinsApartHolds == Spec => []BinsApart
<1>1. SolveInv => BinsApart
  <2> SUFFICES ASSUME SolveInv, NEW t \in Threads, NEW u \in Threads, bin[t] = bin[u]
               PROVE  t = u
    BY DEF BinsApart
  <2>1. numThreads \in Nat \ {0} /\ t \in 0..numThreads - 1 /\ u \in 0..numThreads - 1
    BY DEF SolveInv, TypeInv, Threads
  <2>2. PICK q \in Nat : bin[t] = numThreads * q + t
    BY DEF SolveInv, StrideInv, Steps
  <2>3. PICK r \in Nat : bin[u] = numThreads * r + u
    BY DEF SolveInv, StrideInv, Steps
  <2> QED BY <2>1, <2>2, <2>3, Remainder
<1> QED BY <1>1, SolveInit, SolveStep, PTL DEF Spec

(***************************************************************************)
(* Numbers and functions by recursion.                                     *)
(***************************************************************************)
\* A set of numbers has a least one.
LEMMA Least == ASSUME NEW T \in SUBSET Nat, T # {} PROVE \E x \in T : \A y \in T : x <= y
<1>1. IsWellFoundedOn(OpToRel(<, Nat), Nat)
  BY NatLessThanWellFounded
<1>2. PICK x \in T : \A y \in T : ~(<<y, x>> \in OpToRel(<, Nat))
  BY <1>1, WFMin
<1>3. \A y \in T : ~(y < x)
  BY <1>2 DEF OpToRel
<1> QED BY <1>3

LEMMA Induction ==
  ASSUME NEW S, 0 \in S, \A n \in Nat : n \in S => n + 1 \in S
  PROVE  Nat \subseteq S
<1> SUFFICES ASSUME Nat \ S # {} PROVE FALSE
  OBVIOUS
<1>1. PICK x \in Nat \ S : \A y \in Nat \ S : x <= y
  BY Least
<1>2. x # 0 /\ x - 1 \in Nat
  BY <1>1
<1>3. x - 1 \in S
  BY <1>1, <1>2
<1> QED BY <1>1, <1>2, <1>3

\* A function defined by recursion along 0..n.
Follows(f, n, V, base, step) ==
  f \in [0..n -> V] /\ f[0] = base /\ \A k \in 1..n : f[k] = step[k][f[k - 1]]
LEMMA Recursion ==
  ASSUME NEW n \in Nat, NEW V, NEW base \in V, NEW step \in [1..n -> [V -> V]]
  PROVE  \E f : Follows(f, n, V, base, step)
<1> DEFINE Good(m) == \E f \in [0..m -> V] : f[0] = base /\ \A k \in 1..m : f[k] = step[k][f[k - 1]]
           S == {m \in Nat : m <= n => Good(m)}
<1>1. 0 \in S
  <2> DEFINE f == [k \in 0..0 |-> base]
  <2>1. f \in [0..0 -> V] /\ f[0] = base /\ \A k \in 1..0 : f[k] = step[k][f[k - 1]]
    OBVIOUS
  <2> HIDE DEF f
  <2>2. Good(0)
    BY <2>1
  <2> QED BY <2>2
<1>2. ASSUME NEW m \in Nat, m \in S PROVE m + 1 \in S
  <2> SUFFICES ASSUME m + 1 <= n PROVE Good(m + 1)
    OBVIOUS
  <2>1. PICK f \in [0..m -> V] : f[0] = base /\ \A k \in 1..m : f[k] = step[k][f[k - 1]]
    BY <1>2
  <2> DEFINE g == [k \in 0..m + 1 |-> IF k = m + 1 THEN step[m + 1][f[m]] ELSE f[k]]
  <2>2. f[m] \in V /\ m + 1 \in 1..n
    BY <2>1
  <2>3. step[m + 1][f[m]] \in V
    BY <2>2
  <2>4. g \in [0..m + 1 -> V] /\ g[0] = base
    BY <2>1, <2>3
  <2>5. \A k \in 1..m + 1 : g[k] = step[k][g[k - 1]]
    <3> TAKE k \in 1..m + 1
    <3>1. CASE k = m + 1
      <4>1. k - 1 = m /\ m \in 0..m + 1 /\ m # m + 1 /\ m + 1 \in 0..m + 1
        BY <3>1
      <4>2. g[m] = f[m] /\ g[m + 1] = step[m + 1][f[m]]
        BY <4>1
      <4> HIDE DEF g
      <4> QED BY <3>1, <4>1, <4>2
    <3>2. CASE k # m + 1
      <4>1. k \in 1..m /\ k - 1 \in 0..m /\ g[k] = f[k] /\ g[k - 1] = f[k - 1]
        BY <3>2
      <4> HIDE DEF g
      <4> QED BY <2>1, <4>1
    <3> QED BY <3>1, <3>2
  <2> HIDE DEF g
  <2> QED BY <2>4, <2>5
<1> HIDE DEF S
<1>3. Nat \subseteq S
  BY <1>1, <1>2, Induction
<1>4. n \in S
  BY <1>3
<1> QED BY <1>4 DEF S, Follows
\* A step function passes every number below its last value.
LEMMA Between ==
  ASSUME NEW n \in Nat, NEW F, NEW x \in Int, \A t \in 0..n : F[t] \in Int, F[0] <= x, x < F[n]
  PROVE  \E t \in 0..n - 1 : F[t] <= x /\ x < F[t + 1]
<1> DEFINE T == {t \in 0..n : x < F[t]}
<1>1. T \in SUBSET Nat /\ n \in T
  OBVIOUS
<1>2. PICK u \in T : \A y \in T : u <= y
  BY <1>1, Least
<1>3. u # 0
  BY <1>2
<1>4. u \in 0..n /\ u - 1 \in 0..n - 1 /\ u - 1 \in 0..n /\ u - 1 \notin T /\ (u - 1) + 1 = u /\ x < F[u]
  BY <1>1, <1>2, <1>3
<1>5. ~(x < F[u - 1]) /\ F[u - 1] \in Int
  BY <1>4
<1> QED BY <1>4, <1>5

LEMMA Times ==
  ASSUME NEW k \in Nat, NEW a \in Nat, NEW b \in Nat, a < b
  PROVE  k * a \in Nat /\ k * b \in Nat /\ k * a + k <= k * b
<1>1. PICK d \in Nat : b = (a + 1) + d
  <2>1. b - (a + 1) \in Nat /\ b = (a + 1) + (b - (a + 1))
    OBVIOUS
  <2> QED BY <2>1
<1>2. k * b = k * a + k + k * d
  BY <1>1
<1>3. k * d \in Nat /\ k * a \in Nat
  BY <1>1
<1> QED BY <1>2, <1>3

LEMMA TimesUpTo ==
  ASSUME NEW k \in Nat, NEW a \in Nat, NEW b \in Nat, a <= b
  PROVE  k * a <= k * b
<1>1. CASE a = b
  <2>1. k * a \in Nat
    OBVIOUS
  <2> QED BY <1>1, <2>1
<1>2. CASE a < b
  <2>1. k * a \in Nat /\ k * b \in Nat /\ k * a + k <= k * b
    BY <1>2, Times
  <2> QED BY <2>1
<1> QED BY <1>1, <1>2

LEMMA Div ==
  ASSUME NEW a \in Nat, NEW n \in Nat \ {0}
  PROVE  a \div n \in Nat /\ n * (a \div n) <= a /\ a < n * (a \div n) + n
<1> DEFINE q == a \div n
           r == a % n
<1>1. q \in Int /\ r \in 0..n - 1 /\ a = n * q + r
  OBVIOUS
<1> HIDE DEF q, r
<1>2. ASSUME q < 0 PROVE FALSE
  <2>1. PICK d \in Nat : q = 0 - 1 - d
    <3>1. 0 - 1 - q \in Nat /\ q = 0 - 1 - (0 - 1 - q)
      BY <1>1, <1>2
    <3> QED BY <3>1
  <2>2. n * q = 0 - n - n * d /\ n * d \in Nat
    BY <2>1
  <2> QED BY <1>1, <2>2
<1>3. q \in Nat /\ n * q \in Nat
  BY <1>1, <1>2
<1>4. q \in Nat /\ n * q <= a /\ a < n * q + n
  BY <1>1, <1>3
<1> QED BY <1>4 DEF q

LEMMA DivUp ==
  ASSUME NEW a \in Nat, NEW b \in Nat, NEW n \in Nat \ {0}, a <= b
  PROVE  a \div n <= b \div n
<1> DEFINE p == a \div n
           q == b \div n
<1>1. p \in Nat /\ n * p <= a /\ a < n * p + n /\ q \in Nat /\ n * q <= b /\ b < n * q + n
  BY Div
<1> HIDE DEF p, q
<1>2. ASSUME q < p PROVE FALSE
  <2>1. n * q + n <= n * p /\ n * q \in Nat /\ n * p \in Nat
    BY <1>1, <1>2, Times
  <2> QED BY <1>1, <2>1
<1>3. p <= q
  BY <1>1, <1>2
<1> QED BY <1>3 DEF p, q

LEMMA DivOf ==
  ASSUME NEW a \in Nat, NEW n \in Nat \ {0}
  PROVE  (a * n) \div n = a
<1> DEFINE q == (a * n) \div n
<1>1. a * n \in Nat /\ a * n = n * a
  OBVIOUS
<1>2. q \in Nat /\ n * q <= n * a /\ n * a < n * q + n
  BY <1>1, Div
<1> HIDE DEF q
<1>3. ~(q < a)
  <2> SUFFICES ASSUME q < a PROVE FALSE
    OBVIOUS
  <2>1. n * q + n <= n * a /\ n * q \in Nat /\ n * a \in Nat
    BY <1>2, Times
  <2> QED BY <1>2, <2>1
<1>4. ~(a < q)
  <2> SUFFICES ASSUME a < q PROVE FALSE
    OBVIOUS
  <2>1. n * a + n <= n * q /\ n * q \in Nat /\ n * a \in Nat
    BY <1>2, Times
  <2> QED BY <1>2, <2>1
<1>5. q = a
  BY <1>2, <1>3, <1>4
<1> QED BY <1>5 DEF q

(***************************************************************************)
(* The parts of n inputs that the threads take are apart and cover them.   *)
(***************************************************************************)
LEMMA Parts ==
  ASSUME numThreads \in Nat \ {0}, NEW n \in Nat
  PROVE  /\ \A t \in 0..numThreads : From(t, n) \in Nat
         /\ From(0, n) = 0 /\ From(numThreads, n) = n
         /\ \A t, u \in 0..numThreads : t <= u => From(t, n) <= From(u, n)
<1>1. \A t \in Nat : n * t \in Nat
  OBVIOUS
<1>2. \A t \in 0..numThreads : From(t, n) \in Nat
  BY <1>1, Div DEF From
<1>3. From(0, n) = 0
  <2>1. n * 0 = 0 /\ 0 * numThreads = 0
    OBVIOUS
  <2>2. (0 * numThreads) \div numThreads = 0
    BY DivOf
  <2> QED BY <2>1, <2>2 DEF From
<1>4. From(numThreads, n) = n
  BY DivOf DEF From
<1>5. ASSUME NEW t \in 0..numThreads, NEW u \in 0..numThreads, t <= u
      PROVE  From(t, n) <= From(u, n)
  <2>1. n * t <= n * u /\ n * t \in Nat /\ n * u \in Nat
    BY <1>1, <1>5, TimesUpTo
  <2> QED BY <2>1, DivUp DEF From
<1> QED BY <1>2, <1>3, <1>4, <1>5

LEMMA PartOf ==
  ASSUME numThreads \in Nat \ {0}, NEW n \in Nat, NEW k \in 1..n
  PROVE  \E t \in Threads : From(t, n) < k /\ k <= From(t + 1, n)
<1> DEFINE F == [t \in 0..numThreads |-> From(t, n)]
           x == k - 1
<1>1. \A t \in 0..numThreads : F[t] \in Int
  BY Parts
<1>2. F[0] <= x /\ x < F[numThreads] /\ x \in Int /\ numThreads \in Nat
  BY Parts
<1>3. \A t \in 0..numThreads - 1 : t \in 0..numThreads /\ t + 1 \in 0..numThreads /\ F[t] = From(t, n) /\ F[t + 1] = From(t + 1, n)
  OBVIOUS
<1> HIDE DEF F, x
<1>4. PICK t \in 0..numThreads - 1 : F[t] <= x /\ x < F[t + 1]
  BY <1>1, <1>2, Between
<1>5. From(t, n) < k /\ k <= From(t + 1, n)
  <2>1. F[t] \in Int /\ F[t + 1] \in Int
    BY <1>1, <1>3
  <2> QED BY <1>3, <1>4, <2>1 DEF x
<1> QED BY <1>5 DEF Threads

LEMMA PartsApart ==
  ASSUME numThreads \in Nat \ {0}, NEW n \in Nat, NEW t \in Threads, NEW u \in Threads, NEW k \in Int,
         From(t, n) < k, k <= From(t + 1, n), From(u, n) < k, k <= From(u + 1, n)
  PROVE  t = u
<1>0. t \in 0..numThreads /\ u \in 0..numThreads /\ t + 1 \in 0..numThreads /\ u + 1 \in 0..numThreads
  BY DEF Threads
<1>1. \A v \in 0..numThreads : From(v, n) \in Int
  BY Parts
<1>2. ASSUME t + 1 <= u PROVE FALSE
  BY <1>0, <1>1, <1>2, Parts
<1>3. ASSUME u + 1 <= t PROVE FALSE
  BY <1>0, <1>1, <1>3, Parts
<1> QED BY <1>0, <1>2, <1>3

(***************************************************************************)
(* Before adds up, thread by thread.                                       *)
(***************************************************************************)
LEMMA BeforeIs ==
  ASSUME numThreads \in Nat \ {0}, sizes \in [Threads -> [Bins -> Nat]], NEW b \in Bins
  PROVE  /\ Before(b, 0) = 0
         /\ \A t \in Threads : Before(b, t + 1) = Before(b, t) + sizes[t][b]
         /\ \A t \in 0..numThreads : Before(b, t) \in Nat
<1> DEFINE Is(g, t) == g = [n \in 0..t |-> IF n = 0 THEN 0 ELSE g[n - 1] + sizes[n - 1][b]]
           Sum(t) == CHOOSE g : Is(g, t)
<1>1. ASSUME NEW t \in 0..numThreads PROVE Is(Sum(t), t) /\ Sum(t) \in [0..t -> Nat]
  <2> DEFINE step == [n \in 1..t |-> [v \in Nat |-> v + sizes[n - 1][b]]]
  <2>1. \A n \in 1..t : sizes[n - 1][b] \in Nat
    BY DEF Threads
  <2>2. step \in [1..t -> [Nat -> Nat]] /\ t \in Nat /\ 0 \in Nat
    BY <2>1
  <2>3. PICK g : Follows(g, t, Nat, 0, step)
    <3> HIDE DEF step
    <3> QED BY <2>2, Recursion
  <2>4. g \in [0..t -> Nat] /\ g[0] = 0 /\ \A n \in 1..t : g[n] = g[n - 1] + sizes[n - 1][b]
    <3>1. g \in [0..t -> Nat] /\ g[0] = 0 /\ \A n \in 1..t : g[n] = step[n][g[n - 1]]
      <4> HIDE DEF step
      <4> QED BY <2>3 DEF Follows
    <3>2. \A n \in 1..t : g[n - 1] \in Nat
      BY <3>1
    <3>3. \A n \in 1..t : step[n][g[n - 1]] = g[n - 1] + sizes[n - 1][b]
      BY <3>2
    <3> QED BY <3>1, <3>3
  <2>5. Is(g, t)
    <3>1. \A n \in 0..t : g[n] = IF n = 0 THEN 0 ELSE g[n - 1] + sizes[n - 1][b]
      BY <2>4
    <3> QED BY <2>4, <3>1
  <2>6. Is(Sum(t), t)
    <3> HIDE DEF Is
    <3> QED BY <2>5
  <2>7. \A n \in 0..t : Sum(t)[n] = IF n = 0 THEN 0 ELSE Sum(t)[n - 1] + sizes[n - 1][b]
    BY <2>6
  <2> DEFINE S == {n \in Nat : n \in 0..t => Sum(t)[n] \in Nat}
  <2> HIDE DEF Sum
  <2>8. 0 \in S
    BY <2>7
  <2>9. ASSUME NEW n \in Nat, n \in S PROVE n + 1 \in S
    <3> SUFFICES ASSUME n + 1 \in 0..t PROVE Sum(t)[n + 1] \in Nat
      OBVIOUS
    <3>1. n \in 0..t /\ n + 1 \in 1..t /\ (n + 1) - 1 = n /\ n + 1 # 0
      OBVIOUS
    <3>2. Sum(t)[n] \in Nat /\ sizes[n][b] \in Nat
      BY <2>1, <2>9, <3>1
    <3> QED BY <2>7, <3>1, <3>2
  <2>10. Nat \subseteq S
    <3> HIDE DEF S
    <3> QED BY <2>8, <2>9, Induction
  <2>11. \A n \in 0..t : Sum(t)[n] \in Nat
    BY <2>10
  <2> QED BY <2>6, <2>11
<1>2. \A t : Before(b, t) = Sum(t)[t]
  BY DEF Before
<1>3. ASSUME NEW t \in 0..numThreads
      PROVE  \A n \in 0..t : Sum(t)[n] = IF n = 0 THEN 0 ELSE Sum(t)[n - 1] + sizes[n - 1][b]
  BY <1>1
<1>4. ASSUME NEW t \in Threads PROVE Sum(t + 1)[t] = Sum(t)[t]
  <2>0. t \in 0..numThreads /\ t + 1 \in 0..numThreads
    BY DEF Threads
  <2> DEFINE S == {n \in Nat : n \in 0..t => Sum(t + 1)[n] = Sum(t)[n]}
  <2> HIDE DEF Sum
  <2>1. 0 \in S
    BY <1>3, <2>0
  <2>2. ASSUME NEW n \in Nat, n \in S PROVE n + 1 \in S
    <3> SUFFICES ASSUME n + 1 \in 0..t PROVE Sum(t + 1)[n + 1] = Sum(t)[n + 1]
      OBVIOUS
    <3>1. n \in 0..t /\ n + 1 \in 0..t + 1 /\ (n + 1) - 1 = n /\ n + 1 # 0
      BY <2>0
    <3>2. Sum(t + 1)[n] = Sum(t)[n]
      BY <2>2, <3>1
    <3>3. Sum(t + 1)[n + 1] = Sum(t + 1)[n] + sizes[n][b]
      BY <1>3, <2>0, <3>1
    <3>4. Sum(t)[n + 1] = Sum(t)[n] + sizes[n][b]
      BY <1>3, <2>0, <3>1
    <3> QED BY <3>2, <3>3, <3>4
  <2>3. Nat \subseteq S
    <3> HIDE DEF S
    <3> QED BY <2>1, <2>2, Induction
  <2> QED BY <2>0, <2>3
<1> HIDE DEF Sum
<1>5. Before(b, 0) = 0
  BY <1>2, <1>3
<1>6. ASSUME NEW t \in Threads PROVE Before(b, t + 1) = Before(b, t) + sizes[t][b]
  <2>1. t + 1 \in 0..numThreads /\ t + 1 \in 0..t + 1 /\ t + 1 # 0 /\ (t + 1) - 1 = t
    BY DEF Threads
  <2>2. Sum(t + 1)[t + 1] = Sum(t + 1)[t] + sizes[t][b]
    BY <1>3, <2>1
  <2> QED BY <1>2, <1>4, <2>2
<1>7. \A t \in 0..numThreads : Before(b, t) \in Nat
  BY <1>1, <1>2
<1> QED BY <1>5, <1>6, <1>7

(***************************************************************************)
(* The arrays: every bin has its own cells, and in them every thread a     *)
(* region.                                                                 *)
(***************************************************************************)
Sized ==
  /\ numThreads \in Nat \ {0} /\ numBins \in Nat \ {0} /\ thrdMax \in Nat \ {0}
  /\ sizes \in [Threads -> [Bins -> Nat]]
Memory == [Slots -> Keys \cup {Nothing}]
Width == numThreads * thrdMax
BinCells(b) == Region(b, 0)..Region(b, 0) + Width - 1
Cells(b, t) == Region(b, t)..Region(b, t) + sizes[t][b] - 1

LEMMA RegionIs ==
  ASSUME Sized
  PROVE  /\ Width \in Nat \ {0}
         /\ \A b \in Nat : Region(b, 0) = Width * b /\ Region(b, 0) \in Nat
         /\ \A b \in Nat, t \in Nat :
              /\ Region(b, t) = Region(b, 0) + thrdMax * t
              /\ Region(b, t) \in Nat /\ thrdMax * t \in Nat
         /\ \A t \in Threads : thrdMax * t + thrdMax <= Width
<1>1. numThreads \in Nat \ {0} /\ thrdMax \in Nat \ {0}
  BY DEF Sized
<1>2. Width \in Nat \ {0}
  BY <1>1 DEF Width
<1>3. ASSUME NEW b \in Nat PROVE Region(b, 0) = Width * b /\ Region(b, 0) \in Nat
  <2>1. Region(b, 0) = (b * numThreads) * thrdMax
    BY <1>1 DEF Region
  <2>2. (b * numThreads) * thrdMax = (numThreads * thrdMax) * b
    BY <1>1
  <2>3. Width * b \in Nat
    BY <1>2
  <2> QED BY <2>1, <2>2, <2>3 DEF Width
<1>4. ASSUME NEW b \in Nat, NEW t \in Nat
      PROVE  Region(b, t) = Region(b, 0) + thrdMax * t /\ Region(b, t) \in Nat /\ thrdMax * t \in Nat
  <2>1. b * numThreads \in Nat /\ thrdMax * t \in Nat
    BY <1>1
  <2>2. (b * numThreads + t) * thrdMax = (b * numThreads) * thrdMax + thrdMax * t
    BY <1>1, <2>1
  <2>3. Region(b, 0) = (b * numThreads) * thrdMax
    BY <1>1, <2>1 DEF Region
  <2> QED BY <1>3, <2>1, <2>2, <2>3 DEF Region
<1>5. ASSUME NEW t \in Threads PROVE thrdMax * t + thrdMax <= Width
  <2>1. t \in Nat /\ t < numThreads
    BY <1>1 DEF Threads
  <2>2. thrdMax * t + thrdMax <= thrdMax * numThreads
    BY <1>1, <2>1, Times
  <2>3. Width = thrdMax * numThreads
    BY <1>1 DEF Width
  <2> QED BY <2>2, <2>3
<1> QED BY <1>2, <1>3, <1>4, <1>5

LEMMA CellsOf ==
  ASSUME Sized, NEW b \in Bins
  PROVE  /\ BinCells(b) \subseteq Slots
         /\ \A c \in Bins : c # b => BinCells(b) \cap BinCells(c) = {}
<1>1. numBins \in Nat \ {0} /\ b \in Nat /\ b + 1 \in Nat /\ b < numBins
  BY DEF Sized, Bins
<1>2. Width \in Nat \ {0} /\ \A c \in Nat : Region(c, 0) = Width * c /\ Region(c, 0) \in Nat
  BY RegionIs
<1>3. Slots = 0..Width * numBins - 1
  <2>1. numBins * numThreads * thrdMax = Width * numBins
    BY DEF Sized, Width
  <2> QED BY <2>1 DEF Slots
<1>4. ASSUME NEW c \in Nat, NEW d \in Nat, c < d PROVE Width * c + Width <= Width * d /\ Width * c \in Nat /\ Width * d \in Nat
  BY <1>2, <1>4, Times
<1>5. BinCells(b) \subseteq Slots
  <2>1. Width * b + Width <= Width * numBins /\ Width * b \in Nat /\ Width * numBins \in Nat /\ Region(b, 0) = Width * b
    BY <1>1, <1>2, <1>4
  <2> DEFINE p == Width * b
             q == Width * numBins
  <2>2. p + Width <= q /\ p \in Nat /\ q \in Nat /\ Width \in Nat
    BY <1>2, <2>1
  <2>3. BinCells(b) = p..p + Width - 1 /\ Slots = 0..q - 1
    BY <1>3, <2>1 DEF BinCells
  <2> HIDE DEF p, q
  <2> QED BY <2>2, <2>3
<1>6. ASSUME NEW c \in Bins, c # b PROVE BinCells(b) \cap BinCells(c) = {}
  <2>1. c \in Nat
    BY <1>1 DEF Bins
  <2>2. CASE b < c
    <3>1. Width * b + Width <= Width * c /\ Width * b \in Nat /\ Width * c \in Nat
      BY <1>1, <1>4, <2>1, <2>2
    <3>2. Region(b, 0) = Width * b /\ Region(c, 0) = Width * c
      BY <1>1, <1>2, <2>1
    <3> QED BY <1>2, <3>1, <3>2 DEF BinCells
  <2>3. CASE c < b
    <3>1. Width * c + Width <= Width * b /\ Width * b \in Nat /\ Width * c \in Nat
      BY <1>1, <1>4, <2>1, <2>3
    <3>2. Region(b, 0) = Width * b /\ Region(c, 0) = Width * c
      BY <1>1, <1>2, <2>1
    <3> QED BY <1>2, <3>1, <3>2 DEF BinCells
  <2> QED BY <1>1, <1>6, <2>1, <2>2, <2>3
<1> QED BY <1>5, <1>6

LEMMA CellsApart ==
  ASSUME Sized, Roomy, NEW b \in Bins, NEW t \in Threads
  PROVE  /\ Cells(b, t) \subseteq BinCells(b)
         /\ \A u \in Threads : u # t => Cells(b, t) \cap Cells(b, u) = {}
<1>1. b \in Nat /\ \A u \in Threads : u \in Nat
  BY DEF Sized, Bins, Threads
<1>2. Width \in Nat /\ Region(b, 0) \in Nat /\ thrdMax \in Nat
  BY <1>1, RegionIs DEF Sized
<1>3. ASSUME NEW u \in Threads
      PROVE  /\ Region(b, u) = Region(b, 0) + thrdMax * u /\ thrdMax * u \in Nat
             /\ thrdMax * u + thrdMax <= Width
             /\ sizes[u][b] \in Nat /\ sizes[u][b] <= thrdMax
  BY <1>1, RegionIs DEF Sized, Roomy
<1>4. Cells(b, t) \subseteq BinCells(b)
  BY <1>2, <1>3 DEF Cells, BinCells
<1>5. ASSUME NEW u \in Threads, u # t PROVE Cells(b, t) \cap Cells(b, u) = {}
  <2>1. u \in Nat /\ t \in Nat
    BY <1>1
  <2>2. CASE t < u
    <3>1. thrdMax * t + thrdMax <= thrdMax * u
      BY <1>2, <2>1, <2>2, Times
    <3> QED BY <1>2, <1>3, <3>1 DEF Cells
  <2>3. CASE u < t
    <3>1. thrdMax * u + thrdMax <= thrdMax * t
      BY <1>2, <2>1, <2>3, Times
    <3> QED BY <1>2, <1>3, <3>1 DEF Cells
  <2> QED BY <1>5, <2>1, <2>2, <2>3
<1> QED BY <1>4, <1>5

LEMMA BeforeRoom ==
  ASSUME Sized, Roomy, NEW b \in Bins
  PROVE  /\ \A t \in 0..numThreads : Before(b, t) \in Nat /\ Before(b, t) <= thrdMax * t
         /\ \A t, u \in 0..numThreads : t <= u => Before(b, t) <= Before(b, u)
<1>1. /\ numThreads \in Nat /\ thrdMax \in Nat /\ Before(b, 0) = 0
      /\ \A t \in Threads : Before(b, t + 1) = Before(b, t) + sizes[t][b]
      /\ \A t \in 0..numThreads : Before(b, t) \in Nat
  BY BeforeIs DEF Sized
<1>2. \A t \in Threads : sizes[t][b] \in Nat /\ sizes[t][b] <= thrdMax
  BY DEF Sized, Roomy
<1> DEFINE S == {n \in Nat : n \in 0..numThreads =>
                   Before(b, n) <= thrdMax * n /\ \A t \in 0..n : Before(b, t) <= Before(b, n)}
<1>3. 0 \in S
  <2>1. thrdMax * 0 = 0 /\ \A t \in 0..0 : t = 0
    BY <1>1
  <2> QED BY <1>1, <2>1
<1>4. ASSUME NEW n \in Nat, n \in S PROVE n + 1 \in S
  <2> SUFFICES ASSUME n + 1 \in 0..numThreads
               PROVE  Before(b, n + 1) <= thrdMax * (n + 1) /\ \A t \in 0..n + 1 : Before(b, t) <= Before(b, n + 1)
    OBVIOUS
  <2>1. n \in 0..numThreads /\ n \in Threads
    BY <1>1 DEF Threads
  <2>2. Before(b, n) <= thrdMax * n /\ \A t \in 0..n : Before(b, t) <= Before(b, n)
    BY <1>4, <2>1
  <2>3. thrdMax * (n + 1) = thrdMax * n + thrdMax /\ thrdMax * n \in Nat
    BY <1>1
  <2>4. /\ Before(b, n + 1) = Before(b, n) + sizes[n][b] /\ Before(b, n) \in Nat
        /\ sizes[n][b] \in Nat /\ sizes[n][b] <= thrdMax
    BY <1>1, <1>2, <2>1
  <2>5. Before(b, n + 1) <= thrdMax * (n + 1)
    BY <1>1, <2>2, <2>3, <2>4
  <2>6. ASSUME NEW t \in 0..n + 1 PROVE Before(b, t) <= Before(b, n + 1)
    <3>1. CASE t = n + 1
      BY <2>4, <3>1
    <3>2. CASE t # n + 1
      <4>1. t \in 0..n /\ t \in 0..numThreads
        BY <1>1, <2>1, <3>2
      <4>2. Before(b, t) \in Nat /\ Before(b, t) <= Before(b, n)
        BY <1>1, <2>2, <4>1
      <4> QED BY <2>4, <4>2
    <3> QED BY <3>1, <3>2
  <2> QED BY <2>5, <2>6
<1>5. Nat \subseteq S
  <2> HIDE DEF S
  <2> QED BY <1>3, <1>4, Induction
<1>6. ASSUME NEW n \in 0..numThreads
      PROVE  Before(b, n) <= thrdMax * n /\ \A t \in 0..n : Before(b, t) <= Before(b, n)
  BY <1>5
<1>7. ASSUME NEW t \in 0..numThreads, NEW u \in 0..numThreads, t <= u PROVE Before(b, t) <= Before(b, u)
  <2>1. t \in 0..u
    BY <1>7
  <2> QED BY <1>6, <2>1
<1> QED BY <1>1, <1>6, <1>7

(***************************************************************************)
(* Moving a block of cells down, all at once or one by one.                *)
(***************************************************************************)
LEMMA MoveIs ==
  ASSUME NEW mem \in Memory, NEW to \in Nat, NEW from \in Nat, NEW size \in Nat
  PROVE  Move(mem, to, from, size) \in Memory
<1>1. \A s : ReadAt(mem, s) \in Keys \cup {Nothing}
  BY DEF ReadAt, Memory
<1> QED BY <1>1 DEF Move, Memory

LEMMA AssignMoves ==
  ASSUME NEW mem \in Memory, NEW to \in Nat, NEW from \in Nat, NEW size \in Nat, to <= from,
         \A j \in 0..size - 1 : to + j \in Slots /\ from + j \in Slots
  PROVE  Assign(mem, to, from, size) = Move(mem, to, from, size)
<1> DEFINE Is(g) == g = [j \in 0..size |-> IF j = 0 THEN mem
                                            ELSE Write(g[j - 1], to + j - 1, ReadAt(g[j - 1], from + j - 1))]
           step == [j \in 1..size |-> [v \in Memory |-> Write(v, to + j - 1, ReadAt(v, from + j - 1))]]
<1>1. \A v \in Memory : \A s, x : x \in Keys \cup {Nothing} => Write(v, s, x) \in Memory
  BY DEF Write, Memory
<1>2. \A v \in Memory : \A s : ReadAt(v, s) \in Keys \cup {Nothing}
  BY DEF ReadAt, Memory
<1>3. step \in [1..size -> [Memory -> Memory]]
  BY <1>1, <1>2
<1>4. PICK g : Follows(g, size, Memory, mem, step)
  <2> HIDE DEF step
  <2> QED BY <1>3, Recursion
<1>5. g \in [0..size -> Memory] /\ g[0] = mem
  BY <1>4 DEF Follows
<1>6. \A j \in 1..size : g[j] = Write(g[j - 1], to + j - 1, ReadAt(g[j - 1], from + j - 1))
  <2>1. \A j \in 1..size : g[j] = step[j][g[j - 1]] /\ g[j - 1] \in Memory
    <3> HIDE DEF step
    <3> QED BY <1>4 DEF Follows
  <2> QED BY <2>1
<1>7. Is(g)
  <2>1. \A j \in 0..size : g[j] = IF j = 0 THEN mem ELSE Write(g[j - 1], to + j - 1, ReadAt(g[j - 1], from + j - 1))
    BY <1>5, <1>6
  <2> QED BY <1>5, <2>1
<1> DEFINE h == CHOOSE x : Is(x)
<1>8. Assign(mem, to, from, size) = h[size]
  BY DEF Assign
<1>9. Is(h)
  <2> HIDE DEF Is
  <2> QED BY <1>7
<1>10. \A j \in 0..size : h[j] = IF j = 0 THEN mem ELSE Write(h[j - 1], to + j - 1, ReadAt(h[j - 1], from + j - 1))
  BY <1>9
<1> HIDE DEF h
<1> DEFINE S == {j \in Nat : j \in 0..size => h[j] = Move(mem, to, from, j)}
<1>11. 0 \in S
  <2>1. \A s \in Slots : s \notin to..to + 0 - 1
    OBVIOUS
  <2>2. Move(mem, to, from, 0) = mem
    BY <2>1 DEF Move, Memory
  <2> QED BY <1>10, <2>2
<1>12. ASSUME NEW j \in Nat, j \in S PROVE j + 1 \in S
  <2> SUFFICES ASSUME j + 1 \in 0..size PROVE h[j + 1] = Move(mem, to, from, j + 1)
    OBVIOUS
  <2>1. j \in 0..size /\ j \in 0..size - 1 /\ (j + 1) - 1 = j /\ j + 1 # 0 /\ to + (j + 1) - 1 = to + j /\ from + (j + 1) - 1 = from + j
    OBVIOUS
  <2>2. h[j] = Move(mem, to, from, j) /\ to + j \in Slots /\ from + j \in Slots
    BY <1>12, <2>1
  <2>3. h[j + 1] = Write(h[j], to + j, ReadAt(h[j], from + j))
    BY <1>10, <2>1
  <2>4. h[j] = [s \in Slots |-> IF s \in to..to + j - 1 THEN ReadAt(mem, from + s - to) ELSE mem[s]]
    BY <2>2 DEF Move
  <2>5. from + j \notin to..to + j - 1
    OBVIOUS
  <2>6. ReadAt(h[j], from + j) = mem[from + j]
    BY <2>2, <2>4, <2>5 DEF ReadAt
  <2>7. h[j + 1] = [h[j] EXCEPT ![to + j] = mem[from + j]]
    BY <2>2, <2>3, <2>6 DEF Write
  <2>8. ReadAt(mem, from + (to + j) - to) = mem[from + j]
    <3>1. from + (to + j) - to = from + j
      OBVIOUS
    <3> QED BY <2>2, <3>1 DEF ReadAt
  <2>9. \A s \in Slots : s \in to..to + (j + 1) - 1 <=> s \in to..to + j - 1 \/ s = to + j
    BY DEF Slots
  <2>10. \A s \in Slots : h[j + 1][s] = IF s \in to..to + (j + 1) - 1 THEN ReadAt(mem, from + s - to) ELSE mem[s]
    BY <2>4, <2>7, <2>8, <2>9
  <2>11. h[j + 1] = [s \in Slots |-> h[j + 1][s]]
    BY <2>4, <2>7
  <2> QED BY <2>10, <2>11 DEF Move
<1>13. Nat \subseteq S
  <2> HIDE DEF S
  <2> QED BY <1>11, <1>12, Induction
<1> QED BY <1>8, <1>13

(***************************************************************************)
(* What the merges of a bin make of its cells: the threads' parts, one     *)
(* after the other, and no other bin's cell is touched.                    *)
(***************************************************************************)
MergedTo(out, mem, b) ==
  /\ out \in Memory
  /\ \A s \in Slots \ BinCells(b) : out[s] = mem[s]
  /\ \A t \in Threads : \A j \in 0..sizes[t][b] - 1 :
       out[Region(b, 0) + Before(b, t) + j] = mem[Region(b, t) + j]

\* The numbers of a merge.
LEMMA MergeNumbers ==
  ASSUME Sized, Roomy, NEW b \in Bins, NEW t \in Threads
  PROVE  /\ BinPos(b, t) = Region(b, 0) + Before(b, t)
         /\ BinPos(b, t) \in Nat /\ Region(b, t) \in Nat /\ sizes[t][b] \in Nat
         /\ BinPos(b, t) <= Region(b, t)
         /\ \A j \in 0..sizes[t][b] - 1 :
              /\ BinPos(b, t) + j \in BinCells(b) /\ Region(b, t) + j \in BinCells(b)
              /\ BinPos(b, t) + j \in Slots /\ Region(b, t) + j \in Slots
<1>1. b \in Nat /\ t \in Nat /\ t \in 0..numThreads
  BY DEF Sized, Bins, Threads
<1>2. /\ Region(b, 0) \in Nat /\ Region(b, t) = Region(b, 0) + thrdMax * t /\ Region(b, t) \in Nat
      /\ thrdMax * t \in Nat /\ Width \in Nat
  BY <1>1, RegionIs
<1>3. Before(b, t) \in Nat /\ Before(b, t) <= thrdMax * t
  BY <1>1, BeforeRoom
<1>4. sizes[t][b] \in Nat /\ sizes[t][b] <= thrdMax /\ thrdMax \in Nat /\ thrdMax * t + thrdMax <= Width
  BY RegionIs DEF Sized, Roomy
<1>5. BinPos(b, t) = Region(b, 0) + Before(b, t)
  BY DEF BinPos
<1>6. \A j \in 0..sizes[t][b] - 1 : BinPos(b, t) + j \in BinCells(b) /\ Region(b, t) + j \in BinCells(b)
  BY <1>2, <1>3, <1>4, <1>5 DEF BinCells
<1> QED BY <1>2, <1>3, <1>4, <1>5, <1>6, CellsOf

LEMMA Merge ==
  ASSUME Sized, Roomy, NEW b \in Bins, NEW mem \in Memory, NEW g, g[0] = mem,
         \A t \in Threads : t # 0 => g[t] = Move(g[t - 1], BinPos(b, t), Region(b, t), sizes[t][b])
  PROVE  MergedTo(g[numThreads - 1], mem, b)
<1> DEFINE R == Region(b, 0)
           B(t) == Before(b, t)
           Claim(n) ==
             /\ g[n] \in Memory
             /\ \A s \in Slots : s < R \/ s >= R + B(n + 1) => g[n][s] = mem[s]
             /\ \A t \in 0..n : \A j \in 0..sizes[t][b] - 1 : g[n][R + B(t) + j] = mem[Region(b, t) + j]
           S == {n \in Nat : n \in Threads => Claim(n)}
<1>1. numThreads \in Nat \ {0} /\ R \in Nat /\ b \in Nat /\ R = Region(b, 0)
  <2>1. b \in Nat /\ numThreads \in Nat \ {0}
    BY DEF Sized, Bins
  <2> QED BY <2>1, RegionIs
<1>2. /\ B(0) = 0 /\ \A t \in Threads : B(t + 1) = B(t) + sizes[t][b]
      /\ \A t \in 0..numThreads : B(t) \in Nat
  BY BeforeIs DEF Sized
<1>3. \A t \in 0..numThreads, u \in 0..numThreads : t <= u => B(t) <= B(u)
  BY BeforeRoom
<1>4. \A t \in Threads : /\ BinPos(b, t) = R + B(t) /\ BinPos(b, t) <= Region(b, t)
                         /\ BinPos(b, t) \in Nat /\ Region(b, t) \in Nat /\ sizes[t][b] \in Nat
                         /\ \A j \in 0..sizes[t][b] - 1 : R + B(t) + j \in Slots /\ Region(b, t) + j \in Slots
  BY MergeNumbers
<1>5. Region(b, 0) = R /\ 0 \in Threads
  BY <1>1 DEF Threads
<1> HIDE DEF R, B
<1>6. 0 \in S
  <2>1. \A t \in 0..0 : \A j \in 0..sizes[t][b] - 1 : mem[R + B(t) + j] = mem[Region(b, t) + j]
    <3> SUFFICES ASSUME NEW j \in 0..sizes[0][b] - 1 PROVE mem[R + B(0) + j] = mem[Region(b, 0) + j]
      OBVIOUS
    <3>1. sizes[0][b] \in Nat
      BY <1>4, <1>5
    <3>2. R + B(0) + j = Region(b, 0) + j
      BY <1>1, <1>2, <1>5, <3>1
    <3> QED BY <3>2
  <2>2. Claim(0)
    BY <2>1
  <2> QED BY <2>2
<1>7. ASSUME NEW n \in Nat, n \in S PROVE n + 1 \in S
  <2> SUFFICES ASSUME n + 1 \in Threads PROVE Claim(n + 1)
    OBVIOUS
  <2> DEFINE m == n + 1
             to == R + B(m)
             from == Region(b, m)
             size == sizes[m][b]
  <2>1. n \in Threads /\ m \in Threads /\ m # 0 /\ m - 1 = n /\ m \in 0..numThreads /\ m + 1 \in 0..numThreads /\ n \in 0..numThreads
    BY <1>1 DEF Threads
  <2>2. Claim(n)
    BY <1>7, <2>1
  <2>3. g[m] = Move(g[n], to, from, size) /\ to \in Nat /\ from \in Nat /\ size \in Nat /\ to <= from
    BY <1>4, <2>1
  <2>4. B(m + 1) = B(m) + size /\ B(m) \in Nat /\ B(m + 1) \in Nat
    BY <1>2, <2>1
  <2>5. \A j \in 0..size - 1 : to + j \in Slots /\ from + j \in Slots
    BY <1>4, <2>1
  <2>6. g[m] \in Memory
    BY <2>2, <2>3, MoveIs
  <2>7. \A s \in Slots : g[m][s] = IF s \in to..to + size - 1 THEN ReadAt(g[n], from + s - to) ELSE g[n][s]
    BY <2>3 DEF Move
  <2>8. \A s \in Slots : s < R \/ s >= R + B(n + 1) => g[n][s] = mem[s]
    BY <2>2
  <2>9. \A t \in 0..n : \A j \in 0..sizes[t][b] - 1 : g[n][R + B(t) + j] = mem[Region(b, t) + j]
    BY <2>2
  <2> HIDE DEF Claim
  <2>10. ASSUME NEW s \in Slots, s < R \/ s >= R + B(m + 1) PROVE g[m][s] = mem[s]
    <3>1. s \in Int /\ R \in Nat
      BY <1>1 DEF Slots
    <3>2. s \notin to..to + size - 1 /\ (s < R \/ s >= R + B(n + 1))
      BY <2>3, <2>4, <2>10, <3>1
    <3> QED BY <2>7, <2>8, <3>2
  <2>11. ASSUME NEW t \in 0..m, NEW j \in 0..sizes[t][b] - 1 PROVE g[m][R + B(t) + j] = mem[Region(b, t) + j]
    <3>1. CASE t = m
      <4>1. j \in 0..size - 1 /\ to + j \in Slots /\ from + j \in Slots
        BY <2>5, <3>1
      <4>2. to + j \in to..to + size - 1 /\ from + (to + j) - to = from + j
        BY <2>3, <4>1
      <4>3. g[m][to + j] = g[n][from + j]
        BY <2>7, <4>1, <4>2 DEF ReadAt
      <4>4. from + j >= R + B(n + 1)
        BY <1>1, <2>3, <2>4, <4>1
      <4> QED BY <2>8, <3>1, <4>1, <4>3, <4>4
    <3>2. CASE t # m
      <4>1. t \in 0..n /\ t \in Threads /\ t \in 0..numThreads /\ t + 1 \in 0..numThreads /\ t + 1 <= m
        BY <1>1, <2>1, <3>2 DEF Threads
      <4>2. B(t + 1) = B(t) + sizes[t][b] /\ B(t) \in Nat /\ B(t + 1) <= B(m) /\ B(t + 1) \in Nat /\ sizes[t][b] \in Nat
        BY <1>2, <1>3, <1>4, <2>1, <4>1
      <4>3. R + B(t) + j \in Slots
        BY <1>4, <4>1
      <4>4. R + B(t) + j \notin to..to + size - 1
        BY <1>1, <2>3, <2>4, <4>2
      <4> QED BY <2>7, <2>9, <4>1, <4>3, <4>4
    <3> QED BY <3>1, <3>2
  <2> QED BY <2>6, <2>10, <2>11 DEF Claim
<1>8. Nat \subseteq S
  <2> HIDE DEF S
  <2> QED BY <1>6, <1>7, Induction
<1>9. numThreads - 1 \in Nat /\ numThreads - 1 \in Threads /\ (numThreads - 1) + 1 = numThreads
  BY <1>1 DEF Threads
<1>10. Claim(numThreads - 1)
  BY <1>8, <1>9
<1>11. R + B(numThreads) <= R + Width /\ B(numThreads) \in Nat /\ Width \in Nat
  <2>1. B(numThreads) <= thrdMax * numThreads /\ B(numThreads) \in Nat
    BY <1>1, BeforeRoom DEF B
  <2>2. thrdMax * numThreads = Width /\ Width \in Nat
    BY DEF Sized, Width
  <2> QED BY <1>1, <2>1, <2>2
<1>12. ASSUME NEW s \in Slots \ BinCells(b) PROVE g[numThreads - 1][s] = mem[s]
  <2>1. s \in Int
    BY DEF Slots
  <2>2. s < R \/ s >= R + Width
    BY <1>1, <1>11, <2>1 DEF BinCells
  <2>3. s < R \/ s >= R + B(numThreads)
    BY <1>1, <1>11, <2>1, <2>2
  <2> QED BY <1>9, <1>10, <2>3
<1>13. ASSUME NEW t \in Threads, NEW j \in 0..sizes[t][b] - 1
       PROVE  g[numThreads - 1][Region(b, 0) + Before(b, t) + j] = mem[Region(b, t) + j]
  <2>1. t \in 0..numThreads - 1
    BY DEF Threads
  <2> QED BY <1>1, <1>10, <2>1 DEF B
<1> QED BY <1>10, <1>12, <1>13 DEF MergedTo

LEMMA MergesAre ==
  ASSUME Sized, Roomy, NEW b \in Bins, hashes \in Memory, vals \in Memory
  PROVE  MergedTo(MergeHashes(b), hashes, b) /\ MergedTo(MergeVals(b), vals, b)
<1> DEFINE Mv(v, t) == Move(v, BinPos(b, t), Region(b, t), sizes[t][b])
           As(v, t) == Assign(v, BinPos(b, t), Region(b, t), sizes[t][b])
           step == [t \in 1..numThreads - 1 |-> [v \in Memory |-> Mv(v, t)]]
           IsH(g) == g = [t \in Threads |-> IF t = 0 THEN hashes ELSE Mv(g[t - 1], t)]
           IsV(g) == g = [t \in Threads |-> IF t = 0 THEN vals ELSE As(g[t - 1], t)]
<1>1. numThreads - 1 \in Nat /\ Threads = 0..numThreads - 1 /\ \A t \in 1..numThreads - 1 : t \in Threads
  BY DEF Sized, Threads
<1>2. ASSUME NEW v \in Memory, NEW t \in Threads PROVE Mv(v, t) \in Memory /\ As(v, t) = Mv(v, t)
  BY MergeNumbers, MoveIs, AssignMoves
<1>3. step \in [1..numThreads - 1 -> [Memory -> Memory]]
  <2> HIDE DEF Mv
  <2> QED BY <1>1, <1>2
<1> HIDE DEF Mv, As
<1>4. ASSUME NEW mem \in Memory
      PROVE  \E g \in [Threads -> Memory] : g[0] = mem /\ \A t \in Threads : t # 0 => g[t] = Mv(g[t - 1], t)
  <2>1. PICK g : Follows(g, numThreads - 1, Memory, mem, step)
    <3> HIDE DEF step
    <3> QED BY <1>1, <1>3, Recursion
  <2>2. g \in [Threads -> Memory] /\ g[0] = mem
    BY <1>1, <2>1 DEF Follows
  <2>3. \A t \in 1..numThreads - 1 : g[t] = step[t][g[t - 1]]
    <3> HIDE DEF step
    <3> QED BY <2>1 DEF Follows
  <2>4. ASSUME NEW t \in Threads, t # 0 PROVE g[t] = Mv(g[t - 1], t)
    <3>1. t \in 1..numThreads - 1 /\ t - 1 \in Threads
      BY <1>1, <2>4
    <3>2. g[t - 1] \in Memory
      BY <2>2, <3>1
    <3> QED BY <2>3, <3>1, <3>2
  <2> QED BY <2>2, <2>4
<1>5. MergedTo(MergeHashes(b), hashes, b)
  <2>1. PICK g \in [Threads -> Memory] : g[0] = hashes /\ \A t \in Threads : t # 0 => g[t] = Mv(g[t - 1], t)
    BY <1>4
  <2>2. IsH(g)
    <3>1. \A t \in Threads : g[t] = IF t = 0 THEN hashes ELSE Mv(g[t - 1], t)
      BY <2>1
    <3> QED BY <2>1, <3>1
  <2> DEFINE h == CHOOSE x : IsH(x)
  <2>3. MergeHashes(b) = h[numThreads - 1]
    BY DEF MergeHashes, Mv
  <2>4. IsH(h)
    <3> HIDE DEF IsH
    <3> QED BY <2>2
  <2>5. h[0] = hashes /\ \A t \in Threads : t # 0 => h[t] = Mv(h[t - 1], t)
    <3> HIDE DEF h
    <3>1. \A t \in Threads : h[t] = IF t = 0 THEN hashes ELSE Mv(h[t - 1], t)
      BY <2>4
    <3> HIDE DEF IsH
    <3> QED BY <1>1, <3>1
  <2> HIDE DEF h
  <2>6. MergedTo(h[numThreads - 1], hashes, b)
    BY <2>5, Merge DEF Mv
  <2> QED BY <2>3, <2>6
<1>6. MergedTo(MergeVals(b), vals, b)
  <2>1. PICK g \in [Threads -> Memory] : g[0] = vals /\ \A t \in Threads : t # 0 => g[t] = Mv(g[t - 1], t)
    BY <1>4
  <2>2. \A t \in Threads : t # 0 => g[t] = As(g[t - 1], t)
    <3> SUFFICES ASSUME NEW t \in Threads, t # 0 PROVE g[t] = As(g[t - 1], t)
      OBVIOUS
    <3>1. t - 1 \in Threads
      BY <1>1
    <3>2. g[t - 1] \in Memory
      BY <2>1, <3>1
    <3> QED BY <1>2, <2>1, <3>2
  <2>3. IsV(g)
    <3>1. \A t \in Threads : g[t] = IF t = 0 THEN vals ELSE As(g[t - 1], t)
      BY <2>1, <2>2
    <3> QED BY <2>1, <3>1
  <2> DEFINE h == CHOOSE x : IsV(x)
  <2>4. MergeVals(b) = h[numThreads - 1]
    BY DEF MergeVals, As
  <2>5. IsV(h)
    <3> HIDE DEF IsV
    <3> QED BY <2>3
  <2>6. h[0] = vals /\ \A t \in Threads : t # 0 => h[t] = As(h[t - 1], t)
    <3> HIDE DEF h
    <3>1. \A t \in Threads : h[t] = IF t = 0 THEN vals ELSE As(h[t - 1], t)
      BY <2>5
    <3> HIDE DEF IsV
    <3> QED BY <1>1, <3>1
  <2> HIDE DEF h
  <2> DEFINE S == {n \in Nat : n \in Threads => h[n] = g[n]}
  <2>7. 0 \in S
    BY <2>1, <2>6
  <2>8. ASSUME NEW n \in Nat, n \in S PROVE n + 1 \in S
    <3> SUFFICES ASSUME n + 1 \in Threads PROVE h[n + 1] = g[n + 1]
      OBVIOUS
    <3>1. n \in Threads /\ n + 1 # 0 /\ (n + 1) - 1 = n
      BY <1>1
    <3>2. h[n + 1] = As(h[n], n + 1) /\ g[n + 1] = As(g[n], n + 1) /\ h[n] = g[n]
      BY <2>2, <2>6, <2>8, <3>1
    <3> QED BY <3>2
  <2>9. Nat \subseteq S
    <3> HIDE DEF S
    <3> QED BY <2>7, <2>8, Induction
  <2>10. h[numThreads - 1] = g[numThreads - 1]
    BY <1>1, <2>9
  <2>11. MergedTo(g[numThreads - 1], vals, b)
    BY <2>1, Merge DEF Mv
  <2> QED BY <2>4, <2>10, <2>11
<1> QED BY <1>5, <1>6

(***************************************************************************)
(* The inductive invariant of implParSolve: what each region holds until   *)
(* its bin is gathered, what a gathered bin holds, what a Paxos was given. *)
(***************************************************************************)
Share(t, b) == {i \in From(t, N) + 1..at[t] : binOf[Inputs[i]] = b}
KeysOf(b) == {k \in Range(Inputs) : binOf[k] = b}
Paired(b) == {<<k, k>> : k \in KeysOf(b)}
Holds(t, b) ==
  /\ {hashes[s] : s \in Cells(b, t)} = {Inputs[i] : i \in Share(t, b)}
  /\ \A s \in Cells(b, t) : vals[s] = hashes[s]
Untouched(b) ==
  \A u \in Threads : b \in Steps(u, numThreads) => bin[u] <= b /\ (bin[u] = b => tpc[u] # "encode")
Gathered(b) == Region(b, 0)..Region(b, 0) + Before(b, numThreads) - 1
Whole(b) ==
  /\ {hashes[s] : s \in Gathered(b)} = KeysOf(b)
  /\ \A s \in Gathered(b) : vals[s] = hashes[s]

Kinds == Sized /\ binOf \in [Keys -> Bins] /\ DOMAIN P = Bins /\ DOMAIN at = Threads
HashInv ==
  Solving => \A t \in Threads :
    /\ at[t] \in From(t, N)..From(t + 1, N)
    /\ tpc[t] # "hash" => at[t] = From(t + 1, N)
    /\ \A b \in Bins : sizes[t][b] = Cardinality(Share(t, b))
RegionInv ==
  Solving /\ Roomy =>
    /\ hashes \in Memory /\ vals \in Memory
    /\ \A b \in Bins : Untouched(b) => \A t \in Threads : Holds(t, b)
GatherInv ==
  Solving => \A t \in Threads : tpc[t] = "encode" =>
    bin[t] \in Bins /\ (Roomy => \A b \in Bins : bin[t] = b => Whole(b))
EncodeInv ==
  Solving => \A t \in Threads :
    /\ tpc[t] = "done" => bin[t] >= numBins
    /\ Roomy => \A b \in Bins : b \in Steps(t, numThreads) /\ b < bin[t] => P[b] = Paired(b)
\* With one bin no thread is started.
SingleInv == phase = "solve" /\ ~Solving => \A t \in Threads : tpc[t] = "hash"
BinInv == SolveInv /\ Kinds /\ SingleInv /\ HashInv /\ RegionInv /\ GatherInv /\ EncodeInv

LEMMA InputsAre ==
  /\ N \in Nat /\ DOMAIN Inputs = 1..N
  /\ \A i \in 1..N : Inputs[i] \in Keys
  /\ \A i, j \in 1..N : Inputs[i] = Inputs[j] => i = j
  /\ Range(Inputs) = {Inputs[i] : i \in 1..N}
<1>1. Inputs \in Seq(Keys) /\ IsInjective(Inputs)
  BY BaxosAssumption
<1>2. Len(Inputs) \in Nat /\ DOMAIN Inputs = 1..Len(Inputs)
  BY <1>1, LenProperties
<1>3. \A i \in 1..N : Inputs[i] \in Keys
  BY <1>1, ElementOfSeq DEF N
<1>4. \A i, j \in 1..N : Inputs[i] = Inputs[j] => i = j
  BY <1>1, <1>2 DEF N, IsInjective
<1>5. Range(Inputs) = {Inputs[i] : i \in 1..N}
  BY <1>2 DEF N, Range
<1> QED BY <1>2, <1>3, <1>4, <1>5 DEF N

\* Two threads never share a bin.
LEMMA OneStride ==
  ASSUME numThreads \in Nat \ {0}, NEW t \in Threads, NEW u \in Threads, NEW b,
         b \in Steps(t, numThreads), b \in Steps(u, numThreads)
  PROVE  t = u
<1>1. t \in 0..numThreads - 1 /\ u \in 0..numThreads - 1
  BY DEF Threads
<1>2. PICK q \in Nat : b = numThreads * q + t
  BY DEF Steps
<1>3. PICK r \in Nat : b = numThreads * r + u
  BY DEF Steps
<1> QED BY <1>1, <1>2, <1>3, Remainder

\* When all have hashed, the sizes of a bin add up to its items.
LEMMA BinCount ==
  ASSUME Kinds, HashInv, Solving, \A t \in Threads : tpc[t] # "hash", NEW b \in Bins
  PROVE  IsFiniteSet(KeysOf(b)) /\ Before(b, numThreads) = Cardinality(KeysOf(b))
<1> DEFINE Upto(n) == {i \in 1..n : binOf[Inputs[i]] = b}
           S == {t \in Nat : t \in 0..numThreads =>
                   IsFiniteSet(Upto(From(t, N))) /\ Before(b, t) = Cardinality(Upto(From(t, N)))}
<1>1. numThreads \in Nat \ {0} /\ Sized
  BY DEF Kinds, Sized
<1>2. \A n \in Nat : IsFiniteSet(Upto(n))
  <2> SUFFICES ASSUME NEW n \in Nat PROVE IsFiniteSet(Upto(n))
    OBVIOUS
  <2>1. IsFiniteSet(1..n)
    BY FS_Interval
  <2>2. Upto(n) \subseteq 1..n
    OBVIOUS
  <2> QED BY <2>1, <2>2, FS_Subset
<1>3. /\ \A t \in 0..numThreads : From(t, N) \in Nat
      /\ From(0, N) = 0 /\ From(numThreads, N) = N
      /\ \A t \in Threads : From(t, N) <= From(t + 1, N)
  <2>1. \A t \in Threads : t \in 0..numThreads /\ t + 1 \in 0..numThreads /\ t <= t + 1
    BY <1>1 DEF Threads
  <2> QED BY <1>1, <2>1, Parts, InputsAre
<1>4. Before(b, 0) = 0 /\ \A t \in Threads : Before(b, t + 1) = Before(b, t) + sizes[t][b]
  BY <1>1, BeforeIs DEF Sized
<1>5. 0 \in S
  <2>1. Upto(0) = {}
    OBVIOUS
  <2> QED BY <1>2, <1>3, <1>4, <2>1, FS_EmptySet
<1>6. ASSUME NEW t \in Nat, t \in S PROVE t + 1 \in S
  <2> SUFFICES ASSUME t + 1 \in 0..numThreads
               PROVE  /\ IsFiniteSet(Upto(From(t + 1, N)))
                      /\ Before(b, t + 1) = Cardinality(Upto(From(t + 1, N)))
    OBVIOUS
  <2>1. t \in Threads /\ t \in 0..numThreads
    BY <1>1 DEF Threads
  <2> DEFINE A == Upto(From(t, N))
             B == Share(t, b)
             C == Upto(From(t + 1, N))
  <2>2. From(t, N) \in Nat /\ From(t + 1, N) \in Nat /\ From(t, N) <= From(t + 1, N)
    BY <1>3, <2>1
  <2>3. at[t] = From(t + 1, N) /\ sizes[t][b] = Cardinality(B)
    BY <2>1 DEF HashInv
  <2>4. C = A \cup B /\ A \cap B = {}
    BY <2>2, <2>3 DEF Share
  <2>5. IsFiniteSet(A) /\ IsFiniteSet(C) /\ Before(b, t) = Cardinality(A)
    BY <1>2, <1>6, <2>1, <2>2
  <2> HIDE DEF A, B, C
  <2>6. IsFiniteSet(B)
    <3>1. B \subseteq C
      BY <2>4
    <3> QED BY <2>5, <3>1, FS_Subset
  <2>7. Cardinality(A \cup B) = Cardinality(A) + Cardinality(B) - Cardinality({})
    BY <2>4, <2>5, <2>6, FS_Union
  <2>8. Cardinality({}) = 0 /\ Cardinality(A) \in Nat /\ Cardinality(B) \in Nat
    BY <2>5, <2>6, FS_EmptySet, FS_CardinalityType
  <2>9. Before(b, t + 1) = Cardinality(C)
    BY <1>4, <2>1, <2>3, <2>4, <2>5, <2>7, <2>8
  <2> QED BY <2>5, <2>9 DEF C
<1>7. Nat \subseteq S
  <2> HIDE DEF S
  <2> QED BY <1>5, <1>6, Induction
<1>8. IsFiniteSet(Upto(N)) /\ Before(b, numThreads) = Cardinality(Upto(N))
  BY <1>1, <1>3, <1>7
<1> DEFINE f == [i \in Upto(N) |-> Inputs[i]]
<1>9. f \in Bijection(Upto(N), KeysOf(b))
  <2>1. \A i \in Upto(N) : Inputs[i] \in KeysOf(b)
    BY InputsAre DEF KeysOf
  <2>2. \A i, j \in Upto(N) : f[i] = f[j] => i = j
    BY InputsAre
  <2>3. \A k \in KeysOf(b) : \E i \in Upto(N) : f[i] = k
    BY InputsAre DEF KeysOf
  <2> QED BY <2>1, <2>2, <2>3, Fun_IsBij
<1>10. ExistsBijection(Upto(N), KeysOf(b))
  BY <1>9 DEF ExistsBijection
<1> QED BY <1>8, <1>10, FS_Bijection

\* A merged bin holds its items, each with its value.
LEMMA MergedWhole ==
  ASSUME Kinds, HashInv, Solving, Roomy, \A t \in Threads : tpc[t] # "hash",
         NEW b \in Bins, \A t \in Threads : Holds(t, b), NEW h, NEW v,
         MergedTo(h, hashes, b), MergedTo(v, vals, b)
  PROVE  {h[s] : s \in Gathered(b)} = KeysOf(b) /\ \A s \in Gathered(b) : v[s] = h[s]
<1>1. Sized /\ numThreads \in Nat \ {0} /\ b \in Nat
  BY DEF Kinds, Sized, Bins
<1>2. Region(b, 0) \in Nat /\ \A t \in Threads : Region(b, t) \in Nat /\ sizes[t][b] \in Nat
  <2>1. \A t \in Threads : t \in Nat
    BY DEF Threads
  <2> QED BY <1>1, <2>1, RegionIs DEF Sized
<1>3. /\ Before(b, 0) = 0 /\ \A t \in Threads : Before(b, t + 1) = Before(b, t) + sizes[t][b]
      /\ \A t \in 0..numThreads : Before(b, t) \in Nat
  BY <1>1, BeforeIs DEF Sized
<1>4. \A t, u \in 0..numThreads : t <= u => Before(b, t) <= Before(b, u)
  BY <1>1, BeforeRoom
<1>5. ASSUME NEW s \in Gathered(b)
      PROVE  \E t \in Threads : \E j \in 0..sizes[t][b] - 1 : s = Region(b, 0) + Before(b, t) + j
  <2> DEFINE x == s - Region(b, 0)
             F == [t \in 0..numThreads |-> Before(b, t)]
  <2>1. s \in Int /\ x \in Int /\ 0 <= x /\ x < Before(b, numThreads) /\ numThreads \in Nat
    BY <1>1, <1>2, <1>3 DEF Gathered
  <2>2. /\ \A t \in 0..numThreads : F[t] \in Int
        /\ F[0] <= x /\ x < F[numThreads]
        /\ \A t \in 0..numThreads - 1 : F[t] = Before(b, t) /\ F[t + 1] = Before(b, t + 1)
    BY <1>3, <2>1
  <2> HIDE DEF F
  <2>3. PICK t \in 0..numThreads - 1 : F[t] <= x /\ x < F[t + 1]
    BY <2>1, <2>2, Between
  <2>4. t \in Threads /\ t \in 0..numThreads
    BY <1>1 DEF Threads
  <2>5. Before(b, t) <= x /\ x < Before(b, t) + sizes[t][b] /\ Before(b, t) \in Nat /\ sizes[t][b] \in Nat
    BY <1>2, <1>3, <2>2, <2>3, <2>4
  <2>6. x - Before(b, t) \in 0..sizes[t][b] - 1 /\ s = Region(b, 0) + Before(b, t) + (x - Before(b, t))
    BY <1>2, <2>1, <2>5
  <2> QED BY <2>4, <2>6
<1>6. ASSUME NEW t \in Threads, NEW j \in 0..sizes[t][b] - 1
      PROVE  /\ Region(b, 0) + Before(b, t) + j \in Gathered(b)
             /\ Region(b, t) + j \in Cells(b, t)
             /\ h[Region(b, 0) + Before(b, t) + j] = hashes[Region(b, t) + j]
             /\ v[Region(b, 0) + Before(b, t) + j] = hashes[Region(b, t) + j]
  <2>1. t + 1 \in 0..numThreads /\ t \in 0..numThreads /\ numThreads \in 0..numThreads /\ t + 1 <= numThreads
    BY <1>1 DEF Threads
  <2>2. Before(b, t) + sizes[t][b] <= Before(b, numThreads) /\ Before(b, t) \in Nat /\ Before(b, numThreads) \in Nat
    BY <1>3, <1>4, <2>1
  <2>3. Region(b, 0) + Before(b, t) + j \in Gathered(b)
    BY <1>2, <2>2 DEF Gathered
  <2>4. Region(b, t) + j \in Cells(b, t)
    BY <1>2 DEF Cells
  <2> QED BY <2>3, <2>4 DEF MergedTo, Holds
<1>7. {h[s] : s \in Gathered(b)} \subseteq KeysOf(b)
  <2> SUFFICES ASSUME NEW s \in Gathered(b) PROVE h[s] \in KeysOf(b)
    OBVIOUS
  <2>0. PICK t \in Threads : \E j \in 0..sizes[t][b] - 1 : s = Region(b, 0) + Before(b, t) + j
    BY <1>5
  <2>1. PICK j \in 0..sizes[t][b] - 1 : s = Region(b, 0) + Before(b, t) + j
    BY <2>0
  <2>2. h[s] = hashes[Region(b, t) + j] /\ Region(b, t) + j \in Cells(b, t)
    BY <1>6, <2>1
  <2>3. PICK i \in Share(t, b) : h[s] = Inputs[i]
    BY <2>2 DEF Holds
  <2>4. i \in 1..N /\ binOf[Inputs[i]] = b
    <3>1. From(t, N) \in Nat /\ From(t + 1, N) \in Nat /\ From(t + 1, N) <= N /\ N \in Nat
      <4>1. t \in 0..numThreads /\ t + 1 \in 0..numThreads /\ numThreads \in 0..numThreads /\ t + 1 <= numThreads
        BY <1>1 DEF Threads
      <4>2. N \in Nat
        BY InputsAre
      <4>3. /\ \A u \in 0..numThreads : From(u, N) \in Nat
            /\ From(numThreads, N) = N
            /\ \A u, w \in 0..numThreads : u <= w => From(u, N) <= From(w, N)
        BY <1>1, <4>2, Parts
      <4> QED BY <4>1, <4>2, <4>3
    <3>2. at[t] = From(t + 1, N)
      BY DEF HashInv
    <3> QED BY <3>1, <3>2 DEF Share
  <2> QED BY <2>3, <2>4, InputsAre DEF KeysOf
<1>8. KeysOf(b) \subseteq {h[s] : s \in Gathered(b)}
  <2> SUFFICES ASSUME NEW k \in KeysOf(b) PROVE \E s \in Gathered(b) : h[s] = k
    OBVIOUS
  <2>1. PICK i \in 1..N : Inputs[i] = k /\ binOf[Inputs[i]] = b
    BY InputsAre DEF KeysOf
  <2>2. PICK t \in Threads : From(t, N) < i /\ i <= From(t + 1, N)
    BY <1>1, PartOf, InputsAre
  <2>3. i \in Share(t, b)
    <3>1. at[t] = From(t + 1, N)
      BY DEF HashInv
    <3>2. From(t, N) \in Nat /\ From(t + 1, N) \in Nat
      <4>1. t \in 0..numThreads /\ t + 1 \in 0..numThreads
        BY <1>1 DEF Threads
      <4> QED BY <1>1, <4>1, Parts, InputsAre
    <3> QED BY <2>1, <2>2, <3>1, <3>2 DEF Share
  <2>4. PICK c \in Cells(b, t) : hashes[c] = Inputs[i]
    BY <2>3 DEF Holds
  <2>5. c - Region(b, t) \in 0..sizes[t][b] - 1 /\ c = Region(b, t) + (c - Region(b, t))
    BY <1>2 DEF Cells
  <2> QED BY <1>6, <2>1, <2>4, <2>5
<1>9. ASSUME NEW s \in Gathered(b) PROVE v[s] = h[s]
  <2>0. PICK t \in Threads : \E j \in 0..sizes[t][b] - 1 : s = Region(b, 0) + Before(b, t) + j
    BY <1>5
  <2>1. PICK j \in 0..sizes[t][b] - 1 : s = Region(b, 0) + Before(b, t) + j
    BY <2>0
  <2> QED BY <1>6, <2>1
<1> QED BY <1>7, <1>8, <1>9

\* The cell the next input of a bin goes to is in nobody's region yet.
LEMMA SlotApart ==
  ASSUME Sized, Roomy, NEW b \in Bins, NEW t \in Threads, sizes[t][b] < thrdMax
  PROVE  /\ Region(b, t) + sizes[t][b] \in Slots
         /\ \A c \in Bins, u \in Threads : Region(b, t) + sizes[t][b] \notin Cells(c, u)
<1> DEFINE s == Region(b, t) + sizes[t][b]
<1>1. b \in Nat /\ t \in Nat /\ \A u \in Threads : u \in Nat
  BY DEF Sized, Bins, Threads
<1>2. Width \in Nat /\ Region(b, 0) \in Nat /\ thrdMax \in Nat
  BY <1>1, RegionIs DEF Sized
<1>3. ASSUME NEW u \in Threads
      PROVE  /\ Region(b, u) = Region(b, 0) + thrdMax * u /\ thrdMax * u \in Nat
             /\ thrdMax * u + thrdMax <= Width
             /\ sizes[u][b] \in Nat /\ sizes[u][b] <= thrdMax
  BY <1>1, RegionIs DEF Sized, Roomy
<1>4. s \in BinCells(b)
  BY <1>2, <1>3 DEF BinCells
<1>5. ASSUME NEW u \in Threads PROVE s \notin Cells(b, u)
  <2>1. CASE t < u
    <3>1. thrdMax * t + thrdMax <= thrdMax * u
      BY <1>1, <1>2, <2>1, Times
    <3> QED BY <1>2, <1>3, <3>1 DEF Cells
  <2>2. CASE u < t
    <3>1. thrdMax * u + thrdMax <= thrdMax * t
      BY <1>1, <1>2, <2>2, Times
    <3> QED BY <1>2, <1>3, <3>1 DEF Cells
  <2>3. CASE u = t
    BY <1>2, <1>3, <2>3 DEF Cells
  <2> QED BY <1>1, <2>1, <2>2, <2>3
<1>6. ASSUME NEW c \in Bins, NEW u \in Threads, c # b PROVE s \notin Cells(c, u)
  <2>1. Cells(c, u) \subseteq BinCells(c)
    BY CellsApart
  <2>2. BinCells(b) \cap BinCells(c) = {}
    BY <1>6, CellsOf
  <2> QED BY <1>4, <2>1, <2>2
<1>7. s \in Slots
  BY <1>4, CellsOf
<1> HIDE DEF s
<1> QED BY <1>5, <1>6, <1>7 DEF s

\* Counting a bin reads the sizes only.
LEMMA SameSizes ==
  ASSUME sizes' = sizes, numThreads' = numThreads, thrdMax' = thrdMax, numBins' = numBins
  PROVE  /\ \A b, t : Region(b, t)' = Region(b, t) /\ Before(b, t)' = Before(b, t) /\ Cells(b, t)' = Cells(b, t)
         /\ \A b : Gathered(b)' = Gathered(b)
         /\ Threads' = Threads /\ Bins' = Bins /\ Slots' = Slots /\ (Roomy' <=> Roomy)
<1>1. Threads' = Threads /\ Bins' = Bins /\ Slots' = Slots
  BY DEF Threads, Bins, Slots
<1>2. Roomy' <=> Roomy
  BY <1>1 DEF Roomy
<1>3. \A b, t : Region(b, t)' = Region(b, t)
  BY DEF Region
<1>4. \A b, t : Before(b, t)' = Before(b, t)
  BY Zenon DEF Before
<1>5. \A b, t : Cells(b, t)' = Cells(b, t)
  BY <1>3 DEF Cells
<1>6. \A b : Gathered(b)' = Gathered(b)
  BY <1>3, <1>4 DEF Gathered
<1> QED BY <1>1, <1>2, <1>3, <1>4, <1>5, <1>6

(***************************************************************************)
(* The steps of implParSolve.                                              *)
(***************************************************************************)
LEMMA BinInit == Init => BinInv
<1> SUFFICES ASSUME Init PROVE BinInv
  OBVIOUS
<1>1. /\ numThreads \in Nat \ {0} /\ numBins \in Nat \ {0} /\ thrdMax \in Nat \ {0}
      /\ binOf \in [Keys -> Bins]
      /\ tpc = [t \in Threads |-> "hash"] /\ at = [t \in Threads |-> From(t, N)]
      /\ bin = [t \in Threads |-> t] /\ sizes = [t \in Threads |-> [b \in Bins |-> 0]]
      /\ hashes = [s \in Slots |-> Nothing] /\ vals = [s \in Slots |-> Nothing]
      /\ P = [b \in Bins |-> {}]
  BY BaxosAssumption DEF Init
<1>2. Kinds
  BY <1>1 DEF Kinds, Sized
<1>3. \A t \in Threads : t \in 0..numThreads /\ t + 1 \in 0..numThreads /\ t <= t + 1 /\ t \in Nat
  BY <1>1 DEF Threads
<1>4. \A t \in Threads : From(t, N) \in Nat /\ From(t + 1, N) \in Nat /\ From(t, N) <= From(t + 1, N)
  <2>1. N \in Nat
    BY InputsAre
  <2>2. /\ \A u \in 0..numThreads : From(u, N) \in Nat
        /\ \A u, w \in 0..numThreads : u <= w => From(u, N) <= From(w, N)
    BY <1>1, <2>1, Parts
  <2> QED BY <1>3, <2>2
<1>5. \A t \in Threads, b \in Bins : Share(t, b) = {} /\ sizes[t][b] = 0
  BY <1>1, <1>4 DEF Share
<1>6. HashInv
  <2>1. Cardinality({}) = 0
    BY FS_EmptySet
  <2>2. \A t \in Threads : at[t] \in From(t, N)..From(t + 1, N) /\ tpc[t] = "hash"
    BY <1>1, <1>4
  <2> QED BY <1>5, <2>1, <2>2 DEF HashInv
<1>7. RegionInv
  <2>1. hashes \in Memory /\ vals \in Memory
    BY <1>1 DEF Memory
  <2>2. \A t \in Threads, b \in Bins : Cells(b, t) = {}
    <3> SUFFICES ASSUME NEW t \in Threads, NEW b \in Bins PROVE Cells(b, t) = {}
      OBVIOUS
    <3>1. t \in Nat /\ b \in Nat
      BY <1>1 DEF Threads, Bins
    <3>2. Region(b, t) \in Nat
      BY <1>2, <3>1, RegionIs DEF Kinds
    <3> QED BY <1>5, <3>2 DEF Cells
  <2>3. \A t \in Threads, b \in Bins : Holds(t, b)
    BY <1>5, <2>2 DEF Holds
  <2> QED BY <2>1, <2>3 DEF RegionInv
<1>8. GatherInv
  BY <1>1 DEF GatherInv
<1>9. EncodeInv
  <2> SUFFICES ASSUME NEW t \in Threads, NEW b \in Bins, b \in Steps(t, numThreads), b < t PROVE FALSE
    BY <1>1 DEF EncodeInv
  <2>1. PICK q \in Nat : b = numThreads * q + t
    BY DEF Steps
  <2>2. numThreads * q \in Nat /\ t \in Nat
    BY <1>1, <1>3
  <2> QED BY <2>1, <2>2
<1>10. SingleInv
  BY <1>1 DEF SingleInv
<1> QED BY <1>2, <1>6, <1>7, <1>8, <1>9, <1>10, SolveInit DEF BinInv

\* Once a thread is at its bins all have hashed.
LEMMA AllAreIn ==
  ASSUME SolveInv, Solving, NEW t \in Threads, tpc[t] \in {"bins", "encode", "done"}
  PROVE  \A u \in Threads : tpc[u] # "hash"
  BY DEF SolveInv, CountInv, Arrived

\* A step of a thread that touches neither the arrays nor the output.
LEMMA QuietStep ==
  ASSUME BinInv, SolveInv', NEW t \in Threads, NEW from, NEW to, Go(t, from, to),
         from # "encode", to \notin {"hash", "encode"},
         from = "hash" => at[t] = From(t + 1, N), to = "done" => bin[t] >= numBins,
         UNCHANGED <<inst, phase, at, bin, memory, P>>
  PROVE  BinInv'
<1>1. /\ numThreads' = numThreads /\ numBins' = numBins /\ binOf' = binOf /\ thrdMax' = thrdMax
      /\ phase' = phase /\ at' = at /\ bin' = bin /\ sizes' = sizes /\ hashes' = hashes /\ vals' = vals
      /\ P' = P /\ tpc[t] = from /\ tpc' = [tpc EXCEPT ![t] = to] /\ Solving
  BY DEF inst, memory, Go, Solving
<1>2. /\ \A b, u : Region(b, u)' = Region(b, u) /\ Before(b, u)' = Before(b, u) /\ Cells(b, u)' = Cells(b, u)
      /\ \A b : Gathered(b)' = Gathered(b)
      /\ Threads' = Threads /\ Bins' = Bins /\ Slots' = Slots /\ (Roomy' <=> Roomy)
  BY <1>1, SameSizes
<1>3. DOMAIN tpc = Threads
  BY DEF BinInv, SolveInv, TypeInv
<1>4. tpc'[t] = to /\ \A u \in Threads : u # t => tpc'[u] = tpc[u]
  BY <1>1, <1>3
<1>5. /\ Solving' = Solving /\ \A n, u : From(u, n)' = From(u, n)
      /\ \A u, b : Share(u, b)' = Share(u, b)
      /\ \A b : KeysOf(b)' = KeysOf(b) /\ Paired(b)' = Paired(b)
      /\ Memory' = Memory
  BY <1>1, <1>2 DEF Solving, From, Share, KeysOf, Paired, Memory
<1>6. /\ \A u, b : Holds(u, b)' <=> Holds(u, b)
      /\ \A b : Whole(b)' <=> Whole(b)
  BY <1>1, <1>2, <1>5 DEF Holds, Whole
<1>7. \A b \in Bins : Untouched(b)' => Untouched(b)
  BY <1>1, <1>2, <1>4 DEF Untouched
<1>8. Kinds'
  BY <1>1, <1>2 DEF BinInv, Kinds, Sized
<1>9. HashInv'
  <2> SUFFICES ASSUME NEW u \in Threads
               PROVE  /\ at[u] \in From(u, N)..From(u + 1, N)
                      /\ tpc'[u] # "hash" => at[u] = From(u + 1, N)
                      /\ \A b \in Bins : sizes[u][b] = Cardinality(Share(u, b))
    BY <1>1, <1>2, <1>5 DEF HashInv
  <2>1. /\ at[u] \in From(u, N)..From(u + 1, N)
        /\ tpc[u] # "hash" => at[u] = From(u + 1, N)
        /\ \A b \in Bins : sizes[u][b] = Cardinality(Share(u, b))
    BY <1>1 DEF BinInv, HashInv
  <2> QED BY <1>1, <1>4, <2>1
<1>10. RegionInv'
  BY <1>1, <1>2, <1>5, <1>6, <1>7 DEF BinInv, RegionInv
<1>11. GatherInv'
  BY <1>1, <1>2, <1>4, <1>5, <1>6 DEF BinInv, GatherInv
<1>12. EncodeInv'
  BY <1>1, <1>2, <1>4, <1>5 DEF BinInv, EncodeInv
<1>13. SingleInv'
  BY <1>1, <1>5 DEF SingleInv
<1> QED BY <1>8, <1>9, <1>10, <1>11, <1>12, <1>13 DEF BinInv

LEMMA QuietSteps ==
  ASSUME BinInv, NEW t \in Threads, Arrive(t) \/ Pass(t) \/ Return(t)
  PROVE  BinInv'
<1>1. SolveInv'
  BY ArriveStep, BinStep DEF BinInv
<1>2. UNCHANGED <<inst, phase, at, bin, memory, P>>
  BY DEF Arrive, Pass, Return
<1>3. CASE Arrive(t)
  <2>1. PICK to \in {"wait", "bins"} : Go(t, "hash", to)
    BY <1>3 DEF Arrive
  <2>2. at[t] = From(t + 1, N)
    BY <1>3 DEF Arrive
  <2> QED BY <1>1, <1>2, <2>1, <2>2, QuietStep
<1>4. CASE Pass(t)
  BY <1>1, <1>2, <1>4, QuietStep DEF Pass
<1>5. CASE Return(t)
  BY <1>1, <1>2, <1>5, QuietStep DEF Return
<1> QED BY <1>3, <1>4, <1>5

\* Hashing: the region of the thread's next bin grows by the input.
LEMMA HashKeeps == ASSUME BinInv, NEW t \in Threads, Hash(t) PROVE BinInv'
<1>0. PICK i, k, b, s : i = at[t] + 1 /\ k = Inputs[i] /\ b = binOf[k] /\ s = Region(b, t) + sizes[t][b]
  OBVIOUS
<1>1. /\ numThreads' = numThreads /\ numBins' = numBins /\ binOf' = binOf /\ thrdMax' = thrdMax
      /\ phase' = phase /\ bin' = bin /\ P' = P
      /\ at' = [at EXCEPT ![t] = @ + 1] /\ sizes' = [sizes EXCEPT ![t][b] = @ + 1]
      /\ hashes' = Write(hashes, s, k) /\ vals' = Write(vals, s, k)
      /\ tpc[t] = "hash" /\ tpc' = [tpc EXCEPT ![t] = "hash"] /\ Solving /\ at[t] < From(t + 1, N)
  BY <1>0 DEF Hash, inst, Go, Solving
<1>2. /\ DOMAIN tpc = Threads /\ DOMAIN at = Threads /\ Sized /\ numThreads \in Nat \ {0}
      /\ binOf \in [Keys -> Bins] /\ DOMAIN P = Bins
      /\ sizes \in [Threads -> [Bins -> Nat]]
  BY DEF BinInv, SolveInv, TypeInv, Kinds, Sized
<1>3. /\ Threads' = Threads /\ Bins' = Bins /\ Slots' = Slots /\ Solving' = Solving /\ Memory' = Memory
      /\ \A n, u : From(u, n)' = From(u, n) /\ Region(n, u)' = Region(n, u)
      /\ \A c : KeysOf(c)' = KeysOf(c) /\ Paired(c)' = Paired(c)
      /\ \A u \in Threads : tpc'[u] = tpc[u]
  <2>1. Threads' = Threads /\ Bins' = Bins /\ Slots' = Slots /\ Solving' = Solving
    BY <1>1 DEF Threads, Bins, Slots, Solving
  <2>2. Memory' = Memory
    BY <2>1 DEF Memory
  <2>3. \A n, u : From(u, n)' = From(u, n) /\ Region(n, u)' = Region(n, u)
    BY <1>1 DEF From, Region
  <2>4. \A c : KeysOf(c)' = KeysOf(c) /\ Paired(c)' = Paired(c)
    BY <1>1 DEF KeysOf, Paired
  <2>5. \A u \in Threads : tpc'[u] = tpc[u]
    BY <1>1, <1>2
  <2> QED BY <2>1, <2>2, <2>3, <2>4, <2>5
<1>4. \A u \in Threads : From(u, N) \in Nat /\ From(u + 1, N) \in Nat /\ From(u + 1, N) <= N /\ N \in Nat
  <2>1. N \in Nat
    BY InputsAre
  <2>2. /\ \A u \in 0..numThreads : From(u, N) \in Nat
        /\ From(numThreads, N) = N
        /\ \A u, w \in 0..numThreads : u <= w => From(u, N) <= From(w, N)
    BY <1>2, <2>1, Parts
  <2>3. \A u \in Threads : u \in 0..numThreads /\ u + 1 \in 0..numThreads /\ u + 1 <= numThreads
    BY <1>2 DEF Threads
  <2>4. numThreads \in 0..numThreads
    BY <1>2
  <2> QED BY <2>1, <2>2, <2>3, <2>4
<1>5. /\ \A u \in Threads : at[u] \in From(u, N)..From(u + 1, N)
      /\ \A u \in Threads : tpc[u] # "hash" => at[u] = From(u + 1, N)
      /\ \A u \in Threads, c \in Bins : sizes[u][c] = Cardinality(Share(u, c))
  BY <1>1 DEF BinInv, HashInv
<1>6. i \in From(t, N) + 1..From(t + 1, N) /\ i \in 1..N /\ at'[t] = i /\ at[t] = i - 1 /\ at[t] \in Nat
  <2>1. at[t] \in From(t, N)..From(t + 1, N) /\ at[t] < From(t + 1, N) /\ at'[t] = at[t] + 1
    BY <1>1, <1>2, <1>5
  <2> QED BY <1>0, <1>4, <2>1
<1>7. k \in Keys /\ b \in Bins
  BY <1>0, <1>2, <1>6, InputsAre
<1>8. \A u \in Threads : u # t => at'[u] = at[u]
  BY <1>1, <1>2
<1>9. /\ sizes'[t][b] = sizes[t][b] + 1
      /\ \A u \in Threads, c \in Bins : u # t \/ c # b => sizes'[u][c] = sizes[u][c]
      /\ sizes' \in [Threads -> [Bins -> Nat]]
  <2>1. sizes[t] \in [Bins -> Nat] /\ sizes[t][b] + 1 \in Nat
    BY <1>2, <1>7
  <2>2. sizes' = [sizes EXCEPT ![t] = [sizes[t] EXCEPT ![b] = sizes[t][b] + 1]]
    BY <1>1
  <2> QED BY <1>2, <1>7, <2>1, <2>2
<1>10. /\ Share(t, b)' = Share(t, b) \cup {i} /\ i \notin Share(t, b)
       /\ \A u \in Threads, c \in Bins : u # t \/ c # b => Share(u, c)' = Share(u, c)
  <2>1. Share(t, b)' = Share(t, b) \cup {i} /\ i \notin Share(t, b)
    <3>1. From(t, N)' = From(t, N) /\ From(t, N) \in Nat
      BY <1>3, <1>4
    <3>2. Share(t, b)' = {j \in From(t, N) + 1..i : binOf[Inputs[j]] = b}
      BY <1>1, <1>6, <3>1 DEF Share
    <3>3. Share(t, b) = {j \in From(t, N) + 1..i - 1 : binOf[Inputs[j]] = b}
      BY <1>6 DEF Share
    <3>4. binOf[Inputs[i]] = b
      BY <1>0
    <3> QED BY <1>6, <3>1, <3>2, <3>3, <3>4
  <2>2. ASSUME NEW u \in Threads, NEW c \in Bins, u # t PROVE Share(u, c)' = Share(u, c)
    BY <1>1, <1>3, <1>8, <2>2 DEF Share
  <2>3. ASSUME NEW c \in Bins, c # b PROVE Share(t, c)' = Share(t, c)
    <3>1. From(t, N)' = From(t, N) /\ From(t, N) \in Nat
      BY <1>3, <1>4
    <3>2. Share(t, c)' = {j \in From(t, N) + 1..i : binOf[Inputs[j]] = c}
      BY <1>1, <1>6, <3>1 DEF Share
    <3>3. Share(t, c) = {j \in From(t, N) + 1..i - 1 : binOf[Inputs[j]] = c}
      BY <1>6 DEF Share
    <3>4. binOf[Inputs[i]] # c
      BY <1>0, <2>3
    <3> QED BY <1>6, <3>1, <3>2, <3>3, <3>4
  <2> QED BY <2>1, <2>2, <2>3
<1>11. Kinds'
  BY <1>1, <1>2, <1>3, <1>9 DEF BinInv, Kinds, Sized
<1>12. HashInv'
  <2>1. ASSUME NEW u \in Threads
        PROVE at'[u] \in From(u, N)..From(u + 1, N) /\ (tpc'[u] # "hash" => at'[u] = From(u + 1, N))
    <3>1. CASE u = t
      BY <1>1, <1>3, <1>4, <1>6, <3>1
    <3>2. CASE u # t
      BY <1>3, <1>5, <1>8, <3>2
    <3> QED BY <3>1, <3>2
  <2>2. ASSUME NEW u \in Threads, NEW c \in Bins PROVE sizes'[u][c] = Cardinality(Share(u, c)')
    <3>1. CASE u = t /\ c = b
      <4>1. Share(t, b) \subseteq 1..N
        BY <1>4, <1>5 DEF Share
      <4>2. IsFiniteSet(1..N)
        BY InputsAre, FS_Interval
      <4>3. IsFiniteSet(Share(t, b))
        BY <4>1, <4>2, FS_Subset
      <4>4. Cardinality(Share(t, b) \cup {i}) = Cardinality(Share(t, b)) + 1
        BY <1>10, <4>3, FS_AddElement
      <4> QED BY <1>5, <1>7, <1>9, <1>10, <3>1, <4>4
    <3>2. CASE u # t \/ c # b
      BY <1>5, <1>9, <1>10, <3>2
    <3> QED BY <3>1, <3>2
  <2> QED BY <1>3, <2>1, <2>2 DEF HashInv
<1>13. Roomy' => Roomy /\ sizes[t][b] < thrdMax
  <2> SUFFICES ASSUME Roomy' PROVE Roomy /\ sizes[t][b] < thrdMax
    OBVIOUS
  <2>1. \A u \in Threads, c \in Bins : sizes'[u][c] <= thrdMax
    BY <1>1, <1>3 DEF Roomy
  <2>2. thrdMax \in Nat /\ \A u \in Threads, c \in Bins : sizes[u][c] \in Nat
    BY <1>2 DEF Sized
  <2>3. sizes[t][b] + 1 <= thrdMax /\ sizes[t][b] \in Nat
    BY <1>7, <1>9, <2>1, <2>2
  <2>4. \A u \in Threads, c \in Bins : sizes[u][c] <= thrdMax
    <3> QED BY <1>9, <2>1, <2>2, <2>3
  <2> QED BY <2>2, <2>3, <2>4 DEF Roomy
<1>14. RegionInv'
  <2> SUFFICES ASSUME Roomy'
               PROVE  /\ hashes' \in Memory /\ vals' \in Memory
                      /\ \A c \in Bins : Untouched(c)' => \A u \in Threads : Holds(u, c)'
    BY <1>3 DEF RegionInv
  <2>1. s \in Slots /\ \A c \in Bins, u \in Threads : s \notin Cells(c, u)
    BY <1>0, <1>2, <1>7, <1>13, SlotApart
  <2>2. hashes \in Memory /\ vals \in Memory
    BY <1>1, <1>13 DEF BinInv, RegionInv
  <2>3. hashes' = [hashes EXCEPT ![s] = k] /\ vals' = [vals EXCEPT ![s] = k]
    BY <1>1, <2>1 DEF Write
  <2>4. /\ hashes' \in Memory /\ vals' \in Memory /\ hashes'[s] = k /\ vals'[s] = k
        /\ \A x : x # s => hashes'[x] = hashes[x] /\ vals'[x] = vals[x]
    BY <1>7, <2>1, <2>2, <2>3 DEF Memory
  <2>5. \A c \in Bins : Untouched(c)' => Untouched(c)
    BY <1>1, <1>3 DEF Untouched
  <2>6. ASSUME NEW c \in Bins, NEW u \in Threads, Holds(u, c) PROVE Holds(u, c)'
    <3>1. /\ {hashes[x] : x \in Cells(c, u)} = {Inputs[j] : j \in Share(u, c)}
          /\ \A x \in Cells(c, u) : vals[x] = hashes[x]
          /\ s \notin Cells(c, u)
      BY <2>1, <2>6 DEF Holds
    <3>2. CASE u = t /\ c = b
      <4>1. Cells(b, t)' = Cells(b, t) \cup {s}
        <5>1. Region(b, t)' = Region(b, t)
          BY <1>3
        <5>2. b \in Nat /\ t \in Nat
          BY <1>2, <1>7 DEF Bins, Threads
        <5>3. Region(b, t) \in Nat /\ sizes[t][b] \in Nat
          BY <1>2, <1>7, <5>2, RegionIs
        <5>4. Cells(b, t)' = Region(b, t)..Region(b, t) + (sizes[t][b] + 1) - 1
          BY <1>9, <5>1 DEF Cells
        <5>5. \A r, n \in Nat : r..r + (n + 1) - 1 = (r..r + n - 1) \cup {r + n}
          OBVIOUS
        <5>6. Cells(b, t) = Region(b, t)..Region(b, t) + sizes[t][b] - 1
          BY DEF Cells
        <5> QED BY <1>0, <5>3, <5>4, <5>5, <5>6
      <4>2. {hashes'[x] : x \in Cells(b, t)'} = {hashes[x] : x \in Cells(b, t)} \cup {k}
        BY <2>4, <3>1, <3>2, <4>1
      <4>3. {Inputs[j] : j \in Share(t, b)'} = {Inputs[j] : j \in Share(t, b)} \cup {k}
        BY <1>0, <1>10
      <4>4. \A x \in Cells(b, t)' : vals'[x] = hashes'[x]
        BY <2>4, <3>1, <3>2, <4>1
      <4>5. Holds(t, b)'
        <5> QED BY <3>1, <3>2, <4>2, <4>3, <4>4 DEF Holds
      <4> QED BY <3>2, <4>5
    <3>3. CASE u # t \/ c # b
      <4>1. Cells(c, u)' = Cells(c, u)
        BY <1>3, <1>9, <3>3 DEF Cells
      <4>2. {hashes'[x] : x \in Cells(c, u)} = {hashes[x] : x \in Cells(c, u)}
        BY <2>4, <3>1
      <4>3. Share(u, c)' = Share(u, c)
        BY <1>10, <3>3
      <4>4. \A x \in Cells(c, u) : vals'[x] = hashes'[x]
        BY <2>4, <3>1
      <4> QED BY <3>1, <4>1, <4>2, <4>3, <4>4 DEF Holds
    <3> QED BY <3>2, <3>3
  <2>7. \A c \in Bins : Untouched(c) => \A u \in Threads : Holds(u, c)
    BY <1>1, <1>13 DEF BinInv, RegionInv
  <2> QED BY <2>4, <2>5, <2>6, <2>7
<1>15. \A u \in Threads : tpc[u] \notin {"bins", "encode", "done"}
  BY <1>1, AllAreIn DEF BinInv
<1>16. GatherInv'
  BY <1>3, <1>15 DEF GatherInv
<1>17. EncodeInv'
  <2> SUFFICES ASSUME NEW u \in Threads, NEW c \in Bins, Roomy', c \in Steps(u, numThreads), c < bin[u]
               PROVE  P[c] = Paired(c)
    BY <1>1, <1>3, <1>15 DEF EncodeInv
  <2> QED BY <1>1, <1>13 DEF BinInv, EncodeInv
<1>18. SolveInv'
  BY HashStep DEF BinInv
<1>19. SingleInv'
  BY <1>1, <1>3 DEF SingleInv
<1> QED BY <1>11, <1>12, <1>14, <1>16, <1>17, <1>18, <1>19 DEF BinInv

LEMMA GatheredIn ==
  ASSUME Sized, Roomy, NEW b \in Bins
  PROVE  Gathered(b) \subseteq BinCells(b)
<1>1. b \in Nat /\ numThreads \in Nat /\ thrdMax \in Nat
  BY DEF Sized, Bins
<1>2. Region(b, 0) \in Nat /\ Width \in Nat
  BY <1>1, RegionIs
<1>3. Before(b, numThreads) \in Nat /\ Before(b, numThreads) <= thrdMax * numThreads
  BY <1>1, BeforeRoom
<1>4. thrdMax * numThreads = Width
  BY <1>1 DEF Width
<1> QED BY <1>2, <1>3, <1>4 DEF Gathered, BinCells

\* The bin after b of the same thread is numThreads further.
LEMMA NextStride ==
  ASSUME NEW n \in Nat \ {0}, NEW t \in Nat, NEW b \in Steps(t, n), NEW c \in Steps(t, n),
         c < b + n, c # b
  PROVE  c < b
<1>1. PICK q \in Nat : b = n * q + t
  BY DEF Steps
<1>2. PICK r \in Nat : c = n * r + t
  BY DEF Steps
<1>3. n * q \in Nat /\ n * r \in Nat
  BY <1>1, <1>2
<1>4. CASE q < r
  <2>1. n * q + n <= n * r
    BY <1>4, Times
  <2> QED BY <1>1, <1>2, <1>3, <2>1
<1>5. CASE r < q
  <2>1. n * r + n <= n * q
    BY <1>5, Times
  <2> QED BY <1>1, <1>2, <1>3, <2>1
<1>6. CASE q = r
  BY <1>1, <1>2, <1>6
<1> QED BY <1>4, <1>5, <1>6


\* Gathering: the bin's cells become the merged items, the other bins keep theirs.
LEMMA GatherKeeps == ASSUME BinInv, NEW t \in Threads, Gather(t) PROVE BinInv'
<1>0. PICK b : b = bin[t]
  OBVIOUS
<1>1. /\ numThreads' = numThreads /\ numBins' = numBins /\ binOf' = binOf /\ thrdMax' = thrdMax
      /\ phase' = phase /\ bin' = bin /\ P' = P /\ at' = at /\ sizes' = sizes
      /\ hashes' = MergeHashes(b) /\ vals' = MergeVals(b)
      /\ tpc[t] = "bins" /\ tpc' = [tpc EXCEPT ![t] = "encode"] /\ Solving /\ b < numBins
  BY <1>0 DEF Gather, inst, Go, Solving
<1>2. /\ DOMAIN tpc = Threads /\ Sized /\ numThreads \in Nat \ {0} /\ numBins \in Nat
      /\ b \in Steps(t, numThreads) /\ b \in Bins
  <2>1. DOMAIN tpc = Threads /\ Sized /\ numThreads \in Nat \ {0} /\ numBins \in Nat /\ b \in Steps(t, numThreads)
    BY <1>0 DEF BinInv, SolveInv, TypeInv, StrideInv, Kinds, Sized
  <2>2. b \in Nat
    BY <2>1 DEF Steps
  <2> QED BY <1>1, <2>1, <2>2 DEF Bins
<1>3. /\ \A c, u : Region(c, u)' = Region(c, u) /\ Before(c, u)' = Before(c, u) /\ Cells(c, u)' = Cells(c, u)
      /\ \A c : Gathered(c)' = Gathered(c)
      /\ Threads' = Threads /\ Bins' = Bins /\ Slots' = Slots /\ (Roomy' <=> Roomy)
  BY <1>1, SameSizes
<1>4. /\ Solving' = Solving /\ \A n, u : From(u, n)' = From(u, n)
      /\ \A u, c : Share(u, c)' = Share(u, c)
      /\ \A c : KeysOf(c)' = KeysOf(c) /\ Paired(c)' = Paired(c)
      /\ Memory' = Memory
  BY <1>1, <1>3 DEF Solving, From, Share, KeysOf, Paired, Memory
<1>5. tpc'[t] = "encode" /\ \A u \in Threads : u # t => tpc'[u] = tpc[u]
  BY <1>1, <1>2
<1>6. \A u \in Threads : tpc[u] # "hash"
  BY <1>1, AllAreIn DEF BinInv
<1>7. \A u \in Threads, c \in Bins : c \in Steps(u, numThreads) /\ c \in Steps(t, numThreads) => u = t
  BY <1>2, OneStride
<1>8. Untouched(b)
  <2> SUFFICES ASSUME NEW u \in Threads, b \in Steps(u, numThreads) PROVE bin[u] <= b /\ (bin[u] = b => tpc[u] # "encode")
    BY DEF Untouched
  <2>1. u = t /\ b \in Nat
    BY <1>2, <1>7 DEF Bins
  <2> QED BY <1>0, <1>1, <2>1
<1>9. ASSUME NEW c \in Bins, c # b, Roomy, NEW s \in BinCells(c)
      PROVE  hashes'[s] = hashes[s] /\ vals'[s] = vals[s]
  <2>1. hashes \in Memory /\ vals \in Memory
    BY <1>1, <1>9 DEF BinInv, RegionInv
  <2>2. MergedTo(MergeHashes(b), hashes, b) /\ MergedTo(MergeVals(b), vals, b)
    BY <1>2, <1>9, <2>1, MergesAre
  <2>3. s \in Slots \ BinCells(b)
    BY <1>2, <1>9, CellsOf
  <2> QED BY <1>1, <2>2, <2>3 DEF MergedTo
<1>10. Kinds'
  BY <1>1, <1>3 DEF BinInv, Kinds, Sized
<1>11. HashInv'
  <2> SUFFICES ASSUME NEW u \in Threads
               PROVE  /\ at[u] \in From(u, N)..From(u + 1, N)
                      /\ tpc'[u] # "hash" => at[u] = From(u + 1, N)
                      /\ \A c \in Bins : sizes[u][c] = Cardinality(Share(u, c))
    BY <1>1, <1>3, <1>4 DEF HashInv
  <2> QED BY <1>1, <1>6 DEF BinInv, HashInv
<1>12. RegionInv'
  <2> SUFFICES ASSUME Roomy
               PROVE  /\ hashes' \in Memory /\ vals' \in Memory
                      /\ \A c \in Bins : Untouched(c)' => \A u \in Threads : Holds(u, c)'
    BY <1>3, <1>4 DEF RegionInv
  <2>1. hashes \in Memory /\ vals \in Memory /\ \A c \in Bins : Untouched(c) => \A u \in Threads : Holds(u, c)
    BY <1>1 DEF BinInv, RegionInv
  <2>2. hashes' \in Memory /\ vals' \in Memory
    BY <1>1, <1>2, <2>1, MergesAre DEF MergedTo
  <2>3. ASSUME NEW c \in Bins, Untouched(c)' PROVE c # b /\ Untouched(c)
    <3>1. \A u \in Threads : c \in Steps(u, numThreads) => bin[u] <= c /\ (bin[u] = c => tpc'[u] # "encode")
      BY <1>1, <1>3, <2>3 DEF Untouched
    <3>2. c # b
      BY <1>0, <1>2, <1>5, <3>1
    <3>3. \A u \in Threads : u # t => tpc'[u] = tpc[u]
      BY <1>5
    <3> QED BY <1>1, <3>1, <3>2, <3>3 DEF Untouched
  <2>4. ASSUME NEW c \in Bins, NEW u \in Threads, c # b, Holds(u, c) PROVE Holds(u, c)'
    <3>1. Cells(c, u) \subseteq BinCells(c)
      BY <1>2, CellsApart
    <3>2. \A s \in Cells(c, u) : hashes'[s] = hashes[s] /\ vals'[s] = vals[s]
      BY <1>9, <2>4, <3>1
    <3>3. {hashes'[s] : s \in Cells(c, u)} = {hashes[s] : s \in Cells(c, u)}
      BY <3>2
    <3>4. Cells(c, u)' = Cells(c, u) /\ Share(u, c)' = Share(u, c)
      BY <1>3, <1>4
    <3>5. {hashes[s] : s \in Cells(c, u)} = {Inputs[j] : j \in Share(u, c)} /\ \A s \in Cells(c, u) : vals[s] = hashes[s]
      BY <2>4 DEF Holds
    <3> QED BY <3>2, <3>3, <3>4, <3>5 DEF Holds
  <2> QED BY <2>1, <2>2, <2>3, <2>4
<1>13. GatherInv'
  <2>1. ASSUME NEW u \in Threads, tpc'[u] = "encode" PROVE bin[u] \in Bins
    BY <1>0, <1>1, <1>2, <1>5, <2>1 DEF BinInv, GatherInv
  <2>2. ASSUME Roomy PROVE Whole(b)'
    <3>1. hashes \in Memory /\ vals \in Memory /\ \A u \in Threads : Holds(u, b)
      BY <1>1, <1>2, <1>8, <2>2 DEF BinInv, RegionInv
    <3>2. MergedTo(hashes', hashes, b) /\ MergedTo(vals', vals, b)
      BY <1>1, <1>2, <2>2, <3>1, MergesAre
    <3>3. Kinds /\ HashInv /\ Solving
      BY <1>1 DEF BinInv
    <3>4. {hashes'[s] : s \in Gathered(b)} = KeysOf(b) /\ \A s \in Gathered(b) : vals'[s] = hashes'[s]
      BY <1>2, <1>6, <2>2, <3>1, <3>2, <3>3, MergedWhole
    <3> QED BY <1>3, <1>4, <3>4 DEF Whole
  <2>3. ASSUME NEW u \in Threads, u # t, tpc'[u] = "encode", Roomy, NEW c \in Bins, bin[u] = c PROVE Whole(c)'
    <3>1. c \in Steps(u, numThreads) /\ Whole(c)
      BY <1>1, <1>5, <2>3 DEF BinInv, GatherInv, SolveInv, StrideInv
    <3>2. c # b
      BY <1>2, <1>7, <2>3, <3>1
    <3>3. Gathered(c) \subseteq BinCells(c)
      BY <1>2, <2>3, <3>1, GatheredIn
    <3>4. \A s \in Gathered(c) : hashes'[s] = hashes[s] /\ vals'[s] = vals[s]
      BY <1>9, <2>3, <3>1, <3>2, <3>3
    <3>5. {hashes'[s] : s \in Gathered(c)} = {hashes[s] : s \in Gathered(c)}
      BY <3>4
    <3>6. {hashes'[s] : s \in Gathered(c)} = KeysOf(c) /\ \A s \in Gathered(c) : vals'[s] = hashes'[s]
      BY <3>1, <3>4, <3>5 DEF Whole
    <3> QED BY <1>3, <1>4, <3>6 DEF Whole
  <2> QED BY <1>0, <1>1, <1>3, <1>4, <2>1, <2>2, <2>3 DEF GatherInv
<1>14. EncodeInv'
  BY <1>1, <1>3, <1>4, <1>5 DEF BinInv, EncodeInv
<1>15. SolveInv'
  BY BinStep DEF BinInv
<1>16. SingleInv'
  BY <1>1, <1>4 DEF SingleInv
<1> QED BY <1>10, <1>11, <1>12, <1>13, <1>14, <1>15, <1>16 DEF BinInv

\* Encoding: the bin's Paxos is given what was gathered, and the thread goes on
\* to its next bin.
LEMMA EncodeKeeps == ASSUME BinInv, NEW t \in Threads, Encode(t) PROVE BinInv'
<1>0. PICK b : b = bin[t]
  OBVIOUS
<1>1. /\ numThreads' = numThreads /\ numBins' = numBins /\ binOf' = binOf /\ thrdMax' = thrdMax
      /\ phase' = phase /\ bin' = [bin EXCEPT ![t] = @ + numThreads] /\ at' = at /\ sizes' = sizes
      /\ hashes' = hashes /\ vals' = vals
      /\ P' = [P EXCEPT ![b] = {<<ReadAt(hashes, s), ReadAt(vals, s)>> : s \in Gathered(b)}]
      /\ tpc[t] = "encode" /\ tpc' = [tpc EXCEPT ![t] = "bins"] /\ Solving
  BY <1>0 DEF Encode, inst, memory, Go, Solving, Gathered
<1>2. /\ DOMAIN tpc = Threads /\ DOMAIN bin = Threads /\ DOMAIN P = Bins /\ Sized /\ numThreads \in Nat \ {0}
      /\ b \in Steps(t, numThreads) /\ b \in Bins
  BY <1>0, <1>1 DEF BinInv, SolveInv, TypeInv, StrideInv, Kinds, Sized, GatherInv
<1>3. /\ \A c, u : Region(c, u)' = Region(c, u) /\ Before(c, u)' = Before(c, u) /\ Cells(c, u)' = Cells(c, u)
      /\ \A c : Gathered(c)' = Gathered(c)
      /\ Threads' = Threads /\ Bins' = Bins /\ Slots' = Slots /\ (Roomy' <=> Roomy)
  BY <1>1, SameSizes
<1>4. /\ Solving' = Solving /\ \A n, u : From(u, n)' = From(u, n)
      /\ \A u, c : Share(u, c)' = Share(u, c)
      /\ \A c : KeysOf(c)' = KeysOf(c) /\ Paired(c)' = Paired(c)
      /\ Memory' = Memory
  BY <1>1, <1>3 DEF Solving, From, Share, KeysOf, Paired, Memory
<1>5. /\ \A u, c : Holds(u, c)' <=> Holds(u, c)
      /\ \A c : Whole(c)' <=> Whole(c)
  BY <1>1, <1>3, <1>4 DEF Holds, Whole
<1>6. /\ tpc'[t] = "bins" /\ bin'[t] = b + numThreads
      /\ \A u \in Threads : u # t => tpc'[u] = tpc[u] /\ bin'[u] = bin[u]
  BY <1>0, <1>1, <1>2
<1>7. \A u \in Threads : tpc[u] # "hash"
  BY <1>1, AllAreIn DEF BinInv
<1>8. \A u \in Threads, c \in Bins : c \in Steps(u, numThreads) /\ c \in Steps(t, numThreads) => u = t
  BY <1>2, OneStride
<1>9. b \in Nat /\ \A c \in Bins : c \in Nat
  BY <1>2 DEF Bins
<1>10. Kinds'
  BY <1>1, <1>2, <1>3 DEF BinInv, Kinds, Sized
<1>11. HashInv'
  <2> SUFFICES ASSUME NEW u \in Threads
               PROVE  /\ at[u] \in From(u, N)..From(u + 1, N)
                      /\ tpc'[u] # "hash" => at[u] = From(u + 1, N)
                      /\ \A c \in Bins : sizes[u][c] = Cardinality(Share(u, c))
    BY <1>1, <1>3, <1>4 DEF HashInv
  <2> QED BY <1>1, <1>7 DEF BinInv, HashInv
<1>12. RegionInv'
  <2>1. ASSUME NEW c \in Bins, Untouched(c)' PROVE Untouched(c)
    <3>1. \A u \in Threads : c \in Steps(u, numThreads) => bin'[u] <= c /\ (bin'[u] = c => tpc'[u] # "encode")
      BY <1>1, <1>3, <2>1 DEF Untouched
    <3>2. ASSUME NEW u \in Threads, c \in Steps(u, numThreads) PROVE bin[u] <= c /\ (bin[u] = c => tpc[u] # "encode")
      <4>1. CASE u = t
        <5>1. b + numThreads <= c
          BY <1>6, <3>1, <3>2, <4>1
        <5>2. b < c
          BY <1>2, <1>9, <5>1
        <5> QED BY <1>0, <1>9, <4>1, <5>2
      <4>2. CASE u # t
        BY <1>6, <3>1, <3>2, <4>2
      <4> QED BY <4>1, <4>2
    <3> QED BY <3>2 DEF Untouched
  <2> QED BY <1>1, <1>3, <1>4, <1>5, <2>1 DEF BinInv, RegionInv
<1>13. GatherInv'
  <2> SUFFICES ASSUME NEW u \in Threads, tpc'[u] = "encode"
               PROVE  bin'[u] \in Bins /\ (Roomy => \A c \in Bins : bin'[u] = c => Whole(c))
    BY <1>3, <1>4, <1>5 DEF GatherInv
  <2>1. bin'[u] = bin[u] /\ tpc[u] = "encode"
    BY <1>6
  <2> QED BY <1>1, <2>1 DEF BinInv, GatherInv
<1>14. ASSUME Roomy PROVE P'[b] = Paired(b)
  <2>1. Gathered(b) \subseteq Slots
    BY <1>2, <1>14, GatheredIn, CellsOf
  <2>2. Whole(b)
    BY <1>0, <1>1, <1>2, <1>14 DEF BinInv, GatherInv
  <2>3. \A s \in Gathered(b) : ReadAt(hashes, s) = hashes[s] /\ ReadAt(vals, s) = hashes[s]
    BY <2>1, <2>2 DEF ReadAt, Whole
  <2>4. P'[b] = {<<ReadAt(hashes, s), ReadAt(vals, s)>> : s \in Gathered(b)}
    BY <1>1, <1>2
  <2>5. P'[b] = {<<hashes[s], hashes[s]>> : s \in Gathered(b)}
    BY <2>3, <2>4
  <2>6. {hashes[s] : s \in Gathered(b)} = KeysOf(b)
    BY <2>2 DEF Whole
  <2> QED BY <2>5, <2>6 DEF Paired
<1>15. EncodeInv'
  <2>1. ASSUME NEW u \in Threads, tpc'[u] = "done" PROVE bin'[u] >= numBins
    <3>1. u # t /\ tpc[u] = "done" /\ bin'[u] = bin[u]
      BY <1>6, <2>1
    <3> QED BY <1>1, <3>1 DEF BinInv, EncodeInv
  <2>2. ASSUME NEW u \in Threads, Roomy, NEW c \in Bins, c \in Steps(u, numThreads), c < bin'[u]
        PROVE  P'[c] = Paired(c)
    <3>1. \A d \in Bins : d \in Steps(u, numThreads) /\ d < bin[u] => P[d] = Paired(d)
      BY <1>1, <2>2 DEF BinInv, EncodeInv
    <3>2. c # b => P'[c] = P[c]
      BY <1>1, <1>2
    <3>3. CASE u # t
      <4>1. c # b
        BY <1>2, <1>8, <2>2, <3>3
      <4> QED BY <1>6, <2>2, <3>1, <3>2, <3>3, <4>1
    <3>4. CASE u = t /\ c = b
      BY <1>14, <2>2, <3>4
    <3>5. CASE u = t /\ c # b
      <4>1. c < b + numThreads /\ bin[t] = b
        BY <1>0, <1>6, <2>2, <3>5
      <4>2. c < b
        <5>1. t \in Nat /\ c \in Steps(t, numThreads)
          BY <1>2, <2>2, <3>5 DEF Threads
        <5> QED BY <1>2, <3>5, <4>1, <5>1, NextStride
      <4> QED BY <2>2, <3>1, <3>2, <3>5, <4>1, <4>2
    <3> QED BY <3>3, <3>4, <3>5
  <2> QED BY <1>1, <1>3, <1>4, <2>1, <2>2 DEF EncodeInv
<1>16. SolveInv'
  BY BinStep DEF BinInv
<1>17. SingleInv'
  BY <1>1, <1>4 DEF SingleInv
<1> QED BY <1>10, <1>11, <1>12, <1>13, <1>15, <1>16, <1>17 DEF BinInv

\* What neither hashes, gathers nor encodes ends the solving or is after it.
LEMMA OtherKeeps ==
  ASSUME BinInv, Main \/ Ended \/ UNCHANGED vars \/ \E t \in Threads : Throw(t) \/ Take(t) \/ TakeRest(t)
  PROVE  BinInv'
<1>1. SolveInv'
  BY OtherStep DEF BinInv
<1>2. CASE UNCHANGED vars
  <2>1. /\ numThreads' = numThreads /\ numBins' = numBins /\ binOf' = binOf /\ thrdMax' = thrdMax
        /\ phase' = phase /\ bin' = bin /\ at' = at /\ sizes' = sizes /\ tpc' = tpc
        /\ hashes' = hashes /\ vals' = vals /\ P' = P
    BY <1>2 DEF vars
  <2>2. /\ \A c, u : Region(c, u)' = Region(c, u) /\ Before(c, u)' = Before(c, u) /\ Cells(c, u)' = Cells(c, u)
        /\ \A c : Gathered(c)' = Gathered(c)
        /\ Threads' = Threads /\ Bins' = Bins /\ Slots' = Slots /\ (Roomy' <=> Roomy)
    BY <2>1, SameSizes
  <2>3. /\ Solving' = Solving /\ \A n, u : From(u, n)' = From(u, n)
        /\ \A u, c : Share(u, c)' = Share(u, c)
        /\ \A c : KeysOf(c)' = KeysOf(c) /\ Paired(c)' = Paired(c)
        /\ Memory' = Memory
    BY <2>1, <2>2 DEF Solving, From, Share, KeysOf, Paired, Memory
  <2>4. /\ \A u, c : Holds(u, c)' <=> Holds(u, c)
        /\ \A c : (Whole(c)' <=> Whole(c)) /\ (Untouched(c)' <=> Untouched(c))
    BY <2>1, <2>2, <2>3 DEF Holds, Whole, Untouched
  <2>5. Kinds'
    BY <2>1, <2>2 DEF BinInv, Kinds, Sized
  <2>6. HashInv'
    BY <2>1, <2>2, <2>3 DEF BinInv, HashInv
  <2>7. RegionInv' /\ GatherInv' /\ EncodeInv'
    BY <2>1, <2>2, <2>3, <2>4 DEF BinInv, RegionInv, GatherInv, EncodeInv
  <2>8. SingleInv'
    BY <2>1, <2>2, <2>3 DEF BinInv, SingleInv
  <2> QED BY <1>1, <2>5, <2>6, <2>7, <2>8 DEF BinInv
<1>3. CASE /\ UNCHANGED <<numThreads, numBins, binOf, thrdMax, sizes>>
           /\ DOMAIN P' = Bins /\ DOMAIN at' = Threads /\ phase' # "solve"
  <2>1. Threads' = Threads /\ Bins' = Bins
    BY <1>3 DEF Threads, Bins
  <2>2. Kinds'
    BY <1>3, <2>1 DEF BinInv, Kinds, Sized
  <2> QED BY <1>1, <1>3, <2>2 DEF BinInv, SingleInv, Solving, HashInv, RegionInv, GatherInv, EncodeInv
<1>4. ASSUME Ended PROVE UNCHANGED vars
  BY <1>4 DEF Ended
<1>5. DOMAIN P = Bins /\ DOMAIN at = Threads
  BY DEF BinInv, Kinds
<1>6. ASSUME Main
      PROVE  /\ UNCHANGED <<numThreads, numBins, binOf, thrdMax, sizes>>
             /\ DOMAIN P' = Bins /\ DOMAIN at' = Threads /\ phase' # "solve"
  BY <1>5, <1>6 DEF Main, SolveSingle, ThrowSingle, Joined, DecodeSingle, DecodeJoined, inst, memory, Solving
<1>7. ASSUME NEW t \in Threads, Throw(t) \/ Take(t) \/ TakeRest(t)
      PROVE  /\ UNCHANGED <<numThreads, numBins, binOf, thrdMax, sizes>>
             /\ DOMAIN P' = Bins /\ DOMAIN at' = Threads /\ phase' # "solve"
  BY <1>5, <1>7 DEF Throw, Take, TakeRest, inst, memory, Solving
<1> QED BY <1>2, <1>3, <1>4, <1>6, <1>7

LEMMA BinStepKeeps == ASSUME BinInv, [Next]_vars PROVE BinInv'
  BY HashKeeps, QuietSteps, GatherKeeps, EncodeKeeps, OtherKeeps DEF Next, Step

\* For any inputs, numbers of threads and bins and spread over the bins, and
\* every interleaving: what implParSolve encodes as a bin are its items.
THEOREM BinCompleteHolds == Spec => []BinComplete
<1>1. BinInv => BinComplete
  <2> SUFFICES ASSUME BinInv, NEW t \in Threads, phase = "solve", tpc[t] = "encode", Roomy
               PROVE  LET b == bin[t]  region == Region(b, 0)..Region(b, 0) + Before(b, numThreads) - 1
                          items == {k \in Range(Inputs) : binOf[k] = b} IN
                        /\ {ReadAt(hashes, s) : s \in region} = items /\ Cardinality(region) = Cardinality(items)
                        /\ \A s \in region : ReadAt(vals, s) = ReadAt(hashes, s)
    BY DEF BinComplete
  <2>1. PICK b : b = bin[t]
    OBVIOUS
  <2>2. Solving
    BY DEF BinInv, SingleInv
  <2>3. b \in Bins /\ Whole(b) /\ Kinds /\ HashInv /\ Sized
    BY <2>1, <2>2 DEF BinInv, GatherInv, Kinds
  <2>4. Gathered(b) \subseteq Slots
    BY <2>3, GatheredIn, CellsOf
  <2>5. \A s \in Gathered(b) : ReadAt(hashes, s) = hashes[s] /\ ReadAt(vals, s) = hashes[s]
    BY <2>3, <2>4 DEF ReadAt, Whole
  <2>6. {ReadAt(hashes, s) : s \in Gathered(b)} = KeysOf(b)
    BY <2>3, <2>5 DEF Whole
  <2>7. Cardinality(Gathered(b)) = Cardinality(KeysOf(b))
    <3>1. Before(b, numThreads) = Cardinality(KeysOf(b)) /\ IsFiniteSet(KeysOf(b))
      BY <2>2, <2>3, AllAreIn, BinCount DEF BinInv
    <3>2. Before(b, numThreads) \in Nat /\ Region(b, 0) \in Nat
      <4>1. b \in Nat
        BY <2>3 DEF Bins
      <4> QED BY <2>3, <3>1, <4>1, RegionIs, FS_CardinalityType
    <3>3. Cardinality(Gathered(b)) = Before(b, numThreads)
      <4> DEFINE lo == Region(b, 0)
                 hi == Region(b, 0) + Before(b, numThreads) - 1
      <4>1. lo \in Int /\ hi \in Int /\ (IF lo > hi THEN 0 ELSE hi - lo + 1) = Before(b, numThreads)
        BY <3>2
      <4>2. Cardinality(lo..hi) = IF lo > hi THEN 0 ELSE hi - lo + 1
        <5> HIDE DEF lo, hi
        <5> QED BY <4>1, FS_Interval
      <4> QED BY <4>1, <4>2 DEF Gathered
    <3> QED BY <3>1, <3>3
  <2> QED BY <2>1, <2>5, <2>6, <2>7 DEF Gathered, KeysOf
<1> QED BY <1>1, BinInit, BinStepKeeps, PTL DEF Spec

(***************************************************************************)
(* implParDecode.  A query is pending until its bin's batch is decoded;    *)
(* the others of a thread's part have their final value.                   *)
(***************************************************************************)
NumQueries == Len(Queries)
Part(t) == From(t, NumQueries) + 1..From(t + 1, NumQueries)
Final(k) ==
  LET decoded == Decoded(binOf[Queries[k]], Queries[k]) IN IF addToDecode THEN Plus({Old}, decoded) ELSE decoded
Pending(t, k) == k > at[t] \/ (tpc[t] = "take" /\ k \in Range(batch[t][binOf[Queries[k]]]))
AllOld == \A k \in DOMAIN Queries : values[k] = {Old}
\* The threads of a decode with several bins.
Decoding == phase = "decode" /\ numBins > 1
QueryInv ==
  Decoding =>
    /\ batch \in [Threads -> [Bins -> Seq(Nat)]]
    /\ \A t \in Threads :
         /\ tpc[t] \in {"take", "done"} /\ at[t] \in From(t, NumQueries)..From(t + 1, NumQueries)
         /\ tpc[t] = "done" => at[t] = From(t + 1, NumQueries)
         /\ \A b \in Bins : \A k \in Range(batch[t][b]) :
              k \in From(t, NumQueries) + 1..at[t] /\ binOf[Queries[k]] = b
         /\ \A k \in Part(t) : values[k] = IF Pending(t, k) THEN {Old} ELSE Final(k)
ValuesInv ==
  /\ values = [k \in DOMAIN Queries |-> values[k]]
  /\ phase = "solve" => AllOld /\ batch = [t \in Threads |-> [b \in Bins |-> <<>>]]
  /\ phase = "decode" /\ numBins = 1 => AllOld /\ \A t \in Threads : tpc[t] = "take"
  /\ phase \in {"decode", "done"} /\ Roomy => \A b \in Bins : P[b] = Paired(b)
  /\ phase = "done" => \A k \in DOMAIN Queries : values[k] = Final(k)
DecodeInv == BinInv /\ QueryInv /\ ValuesInv

LEMMA QueriesAre ==
  NumQueries \in Nat /\ DOMAIN Queries = 1..NumQueries /\ \A k \in 1..NumQueries : Queries[k] \in Keys
<1>1. Queries \in Seq(Keys)
  BY BaxosAssumption
<1>2. Len(Queries) \in Nat /\ DOMAIN Queries = 1..Len(Queries)
  BY <1>1, LenProperties
<1>3. \A k \in 1..NumQueries : Queries[k] \in Keys
  BY <1>1, ElementOfSeq DEF NumQueries
<1> QED BY <1>2, <1>3 DEF NumQueries

LEMMA QueryParts ==
  ASSUME numThreads \in Nat \ {0}, NEW t \in Threads
  PROVE  /\ From(t, NumQueries) \in Nat /\ From(t + 1, NumQueries) \in Nat
         /\ From(t, NumQueries) <= From(t + 1, NumQueries) /\ From(t + 1, NumQueries) <= NumQueries
<1>1. NumQueries \in Nat
  BY QueriesAre
<1>2. /\ \A u \in 0..numThreads : From(u, NumQueries) \in Nat
      /\ From(numThreads, NumQueries) = NumQueries
      /\ \A u, w \in 0..numThreads : u <= w => From(u, NumQueries) <= From(w, NumQueries)
  BY <1>1, Parts
<1>3. /\ t \in 0..numThreads /\ t + 1 \in 0..numThreads /\ numThreads \in 0..numThreads
      /\ t <= t + 1 /\ t + 1 <= numThreads
  BY DEF Threads
<1> QED BY <1>2, <1>3

LEMMA DecodeInit == Init => DecodeInv
<1> SUFFICES ASSUME Init PROVE DecodeInv
  OBVIOUS
<1>1. /\ values = [k \in DOMAIN Queries |-> {Old}] /\ phase = "solve"
      /\ batch = [t \in Threads |-> [b \in Bins |-> <<>>]]
  BY DEF Init
<1> QED BY <1>1, BinInit DEF DecodeInv, QueryInv, Decoding, ValuesInv, AllOld

\* While the bins are solved nothing is decoded; a throw leaves no result.
LEMMA SolvingKeeps ==
  ASSUME DecodeInv, BinInv', phase = "solve", phase' \in {"solve", "dead"}, UNCHANGED <<inst, decoding>>
  PROVE  DecodeInv'
<1>1. numBins' = numBins /\ numThreads' = numThreads /\ batch' = batch /\ values' = values
  BY DEF inst, decoding
<1>2. Threads' = Threads /\ Bins' = Bins
  BY <1>1 DEF Threads, Bins
<1> QED BY <1>1, <1>2 DEF DecodeInv, QueryInv, Decoding, ValuesInv, AllOld

\* One bin is solved at once.
LEMMA SolveSingleKeeps == ASSUME DecodeInv, BinInv', SolveSingle PROVE DecodeInv'
<1>1. /\ numBins' = numBins /\ numBins = 1 /\ binOf' = binOf /\ numThreads' = numThreads /\ values' = values
      /\ phase = "solve" /\ phase' = "decode"
      /\ P' = [b \in Bins |-> {<<k, k>> : k \in Range(Inputs)}] /\ tpc' = [t \in Threads |-> "take"]
  BY DEF SolveSingle, inst, decoding
<1>2. Threads' = Threads /\ Bins' = Bins /\ Bins = {0}
  BY <1>1 DEF Threads, Bins
<1>3. ASSUME NEW b \in Bins PROVE P'[b] = Paired(b)'
  <2>1. binOf \in [Keys -> Bins] /\ Range(Inputs) \subseteq Keys
    BY DEF DecodeInv, BinInv, Kinds, Keys
  <2>2. KeysOf(b)' = Range(Inputs)
    BY <1>1, <1>2, <2>1 DEF KeysOf
  <2> QED BY <1>1, <2>2 DEF Paired
<1>4. /\ values' = [k \in DOMAIN Queries |-> values'[k]] /\ AllOld'
      /\ \A t \in Threads : tpc'[t] = "take"
  BY <1>1 DEF DecodeInv, ValuesInv, AllOld
<1> QED BY <1>1, <1>2, <1>3, <1>4 DEF DecodeInv, QueryInv, Decoding, ValuesInv

\* The threads are joined: each bin was encoded by the thread whose number is
\* the bin's modulo numThreads.
LEMMA JoinedKeeps == ASSUME DecodeInv, BinInv', Joined PROVE DecodeInv'
<1>1. /\ numBins' = numBins /\ numThreads' = numThreads /\ binOf' = binOf /\ thrdMax' = thrdMax
      /\ values' = values /\ batch' = batch /\ sizes' = sizes /\ P' = P
      /\ phase = "solve" /\ phase' = "decode" /\ \A t \in Threads : tpc[t] = "done"
      /\ tpc' = [t \in Threads |-> "take"] /\ at' = [t \in Threads |-> From(t, NumQueries)]
  BY DEF Joined, inst, decoding, memory, NumQueries
<1>2. numThreads \in Nat \ {0} /\ numBins \in Nat \ {0}
  BY DEF DecodeInv, BinInv, Kinds, Sized
<1>3. /\ Threads' = Threads /\ Bins' = Bins /\ (Roomy' <=> Roomy)
      /\ \A t, n : From(t, n)' = From(t, n)
      /\ \A b : KeysOf(b)' = KeysOf(b) /\ Paired(b)' = Paired(b)
  BY <1>1 DEF Threads, Bins, Roomy, From, KeysOf, Paired
<1>4. Solving
  <2>1. 0 \in Threads
    BY <1>2 DEF Threads
  <2> QED BY <1>1, <2>1 DEF DecodeInv, BinInv, SingleInv
<1>5. ASSUME Roomy, NEW b \in Bins PROVE P[b] = Paired(b)
  <2>1. b \in Nat /\ b < numBins
    BY <1>2 DEF Bins
  <2>2. b % numThreads \in Threads /\ b = numThreads * (b \div numThreads) + (b % numThreads) /\ b \div numThreads \in Nat
    <3>1. b \div numThreads \in Nat
      BY <1>2, <2>1, Div
    <3> QED BY <1>2, <2>1, <3>1 DEF Threads
  <2>3. b \in Steps(b % numThreads, numThreads)
    BY <2>1, <2>2 DEF Steps
  <2>4. bin[b % numThreads] \in Nat
    BY <2>2 DEF DecodeInv, BinInv, SolveInv, StrideInv, Steps
  <2>5. b < bin[b % numThreads]
    BY <1>1, <1>2, <1>4, <2>1, <2>2, <2>4 DEF DecodeInv, BinInv, EncodeInv
  <2> QED BY <1>4, <1>5, <2>2, <2>3, <2>5 DEF DecodeInv, BinInv, EncodeInv
<1>6. AllOld /\ batch = [t \in Threads |-> [b \in Bins |-> <<>>]]
  BY <1>1 DEF DecodeInv, ValuesInv
<1>7. QueryInv'
  <2>1. batch \in [Threads -> [Bins -> Seq(Nat)]]
    <3>1. <<>> \in Seq(Nat)
      BY EmptySeq
    <3> QED BY <1>6, <3>1
  <2>2. ASSUME NEW t \in Threads, NEW b \in Bins PROVE Range(batch[t][b]) = {}
    <3>1. batch[t][b] = <<>>
      BY <1>6
    <3>2. DOMAIN <<>> = {}
      BY EmptySeq
    <3> QED BY <3>1, <3>2 DEF Range
  <2>3. ASSUME NEW t \in Threads
        PROVE  /\ tpc'[t] = "take" /\ at'[t] = From(t, NumQueries)
               /\ From(t, NumQueries) \in From(t, NumQueries)..From(t + 1, NumQueries)
               /\ \A k \in Part(t) : k > at'[t] /\ values[k] = {Old}
    <3>1. tpc'[t] = "take" /\ at'[t] = From(t, NumQueries)
      BY <1>1
    <3>2. /\ From(t, NumQueries) \in Nat /\ From(t + 1, NumQueries) \in Nat
          /\ From(t, NumQueries) <= From(t + 1, NumQueries) /\ From(t + 1, NumQueries) <= NumQueries
      BY <1>2, QueryParts
    <3>3. \A k \in Part(t) : k > From(t, NumQueries) /\ k \in 1..NumQueries
      BY <3>2, QueriesAre DEF Part
    <3> QED BY <1>6, <3>1, <3>2, <3>3, QueriesAre DEF AllOld
  <2>4. \A t : Part(t)' = Part(t)
    BY <1>3 DEF Part
  <2> QED BY <1>1, <1>3, <2>1, <2>2, <2>3, <2>4 DEF QueryInv, Pending
<1>8. ValuesInv'
  BY <1>1, <1>3, <1>4, <1>5 DEF DecodeInv, ValuesInv, Solving
<1> QED BY <1>7, <1>8 DEF DecodeInv

LEMMA RangeAppend ==
  ASSUME NEW s \in Seq(Nat), NEW i \in Nat
  PROVE  Append(s, i) \in Seq(Nat) /\ Range(Append(s, i)) = Range(s) \cup {i}
<1> DEFINE a == Append(s, i)
<1>1. a \in Seq(Nat) /\ Len(a) = Len(s) + 1 /\ (\A j \in 1..Len(s) : a[j] = s[j]) /\ a[Len(s) + 1] = i
  BY AppendProperties
<1>2. Len(s) \in Nat /\ DOMAIN s = 1..Len(s) /\ DOMAIN a = 1..Len(a)
  BY <1>1, LenProperties
<1> HIDE DEF a
<1>3. DOMAIN a = DOMAIN s \cup {Len(s) + 1} /\ Len(s) + 1 \notin DOMAIN s
  BY <1>1, <1>2
<1>4. Range(a) = Range(s) \cup {i}
  BY <1>1, <1>2, <1>3 DEF Range
<1> QED BY <1>1, <1>4 DEF a

\* What decoding the batch of a bin gives.
LEMMA DecodeBinIs ==
  ASSUME NEW v, NEW b, NEW idxs, v = [k \in DOMAIN Queries |-> v[k]]
  PROVE  /\ DecodeBin(v, b, idxs) = [k \in DOMAIN Queries |-> DecodeBin(v, b, idxs)[k]]
         /\ \A k \in DOMAIN Queries :
              /\ k \notin Range(idxs) => DecodeBin(v, b, idxs)[k] = v[k]
              /\ k \in Range(idxs) /\ b = binOf[Queries[k]] /\ v[k] = {Old} => DecodeBin(v, b, idxs)[k] = Final(k)
<1> DEFINE F(k) == IF k \notin Range(idxs) THEN v[k]
                   ELSE IF addToDecode THEN Plus(v[k], Decoded(b, Queries[k]))
                   ELSE Decoded(b, Queries[k])
<1>1. DOMAIN v = DOMAIN Queries
  OBVIOUS
<1>2. DecodeBin(v, b, idxs) = [k \in DOMAIN Queries |-> F(k)]
  BY <1>1 DEF DecodeBin
<1>3. ASSUME NEW k \in DOMAIN Queries, k \in Range(idxs), b = binOf[Queries[k]], v[k] = {Old}
      PROVE  F(k) = Final(k)
  BY <1>3 DEF Final
<1> HIDE DEF F
<1>4. \A k \in DOMAIN Queries : DecodeBin(v, b, idxs)[k] = F(k)
  BY <1>2
<1>5. \A k \in DOMAIN Queries : k \notin Range(idxs) => F(k) = v[k]
  BY DEF F
<1> QED BY <1>2, <1>3, <1>4, <1>5

LEMMA SameFinal ==
  ASSUME binOf' = binOf, P' = P, addToDecode' = addToDecode
  PROVE  \A k : Final(k)' = Final(k)
<1>1. \A b, k : Decoded(b, k)' = Decoded(b, k)
  BY DEF Decoded
<1> QED BY <1>1 DEF Final

\* Decode the single bin: every query at once.
LEMMA DecodeSingleKeeps == ASSUME DecodeInv, BinInv', DecodeSingle PROVE DecodeInv'
<1> DEFINE all == [k \in DOMAIN Queries |-> k]
<1>1. /\ numBins' = numBins /\ numBins = 1 /\ binOf' = binOf /\ numThreads' = numThreads /\ thrdMax' = thrdMax
      /\ addToDecode' = addToDecode /\ sizes' = sizes /\ P' = P
      /\ phase = "decode" /\ phase' = "done" /\ values' = DecodeBin(values, 0, all)
  BY DEF DecodeSingle, inst, memory
<1>2. /\ Threads' = Threads /\ Bins' = Bins /\ Bins = {0} /\ (Roomy' <=> Roomy)
      /\ \A b : KeysOf(b)' = KeysOf(b) /\ Paired(b)' = Paired(b)
  BY <1>1 DEF Threads, Bins, Roomy, KeysOf, Paired
<1>3. \A k \in DOMAIN Queries : binOf[Queries[k]] = 0 /\ k \in Range(all) /\ values[k] = {Old}
  <2>1. \A k \in DOMAIN Queries : Queries[k] \in Keys
    BY QueriesAre
  <2>2. binOf \in [Keys -> Bins]
    BY DEF DecodeInv, BinInv, Kinds
  <2>3. \A k \in DOMAIN Queries : k \in Range(all)
    BY DEF Range
  <2> QED BY <1>1, <1>2, <2>1, <2>2, <2>3 DEF DecodeInv, ValuesInv, AllOld
<1>4. values = [k \in DOMAIN Queries |-> values[k]]
  BY DEF DecodeInv, ValuesInv
<1> HIDE DEF all
<1>5. /\ values' = [k \in DOMAIN Queries |-> values'[k]]
      /\ \A k \in DOMAIN Queries : values'[k] = Final(k)
  BY <1>1, <1>3, <1>4, DecodeBinIs
<1>6. \A k : Final(k)' = Final(k)
  BY <1>1, SameFinal
<1>7. Roomy => \A b \in Bins : P[b] = Paired(b)
  BY <1>1 DEF DecodeInv, ValuesInv
<1> QED BY <1>1, <1>2, <1>5, <1>6, <1>7 DEF DecodeInv, QueryInv, Decoding, ValuesInv

\* All threads have returned: no query is pending.
LEMMA DecodeJoinedKeeps == ASSUME DecodeInv, BinInv', DecodeJoined PROVE DecodeInv'
<1>1. /\ numBins' = numBins /\ binOf' = binOf /\ numThreads' = numThreads /\ thrdMax' = thrdMax
      /\ addToDecode' = addToDecode /\ sizes' = sizes /\ P' = P /\ values' = values
      /\ phase = "decode" /\ phase' = "done" /\ \A t \in Threads : tpc[t] = "done"
  BY DEF DecodeJoined, inst, memory, decoding
<1>2. /\ Threads' = Threads /\ Bins' = Bins /\ (Roomy' <=> Roomy)
      /\ \A b : KeysOf(b)' = KeysOf(b) /\ Paired(b)' = Paired(b)
  BY <1>1 DEF Threads, Bins, Roomy, KeysOf, Paired
<1>3. numThreads \in Nat \ {0} /\ numBins \in Nat \ {0} /\ 0 \in Threads
  BY DEF DecodeInv, BinInv, Kinds, Sized, Threads
<1>4. Decoding
  <2>1. numBins # 1
    BY <1>1, <1>3 DEF DecodeInv, ValuesInv
  <2> QED BY <1>1, <1>3, <2>1 DEF Decoding
<1>5. ASSUME NEW k \in DOMAIN Queries PROVE values[k] = Final(k)
  <2>1. k \in 1..NumQueries /\ NumQueries \in Nat
    BY QueriesAre
  <2>2. PICK t \in Threads : From(t, NumQueries) < k /\ k <= From(t + 1, NumQueries)
    BY <1>3, <2>1, PartOf
  <2>3. From(t, NumQueries) \in Nat /\ From(t + 1, NumQueries) \in Nat
    BY <1>3, QueryParts
  <2>4. k \in Part(t) /\ at[t] = From(t + 1, NumQueries)
    BY <1>1, <1>4, <2>1, <2>2, <2>3 DEF Part, DecodeInv, QueryInv
  <2>5. ~Pending(t, k)
    BY <1>1, <2>1, <2>2, <2>3, <2>4 DEF Pending
  <2> QED BY <1>4, <2>4, <2>5 DEF DecodeInv, QueryInv
<1>6. \A k : Final(k)' = Final(k)
  BY <1>1, SameFinal
<1>7. (Roomy => \A b \in Bins : P[b] = Paired(b)) /\ values = [k \in DOMAIN Queries |-> values[k]]
  BY <1>1 DEF DecodeInv, ValuesInv
<1> QED BY <1>1, <1>2, <1>5, <1>6, <1>7 DEF DecodeInv, QueryInv, Decoding, ValuesInv

\* The next query goes to its bin's batch, which is decoded when it is full.
LEMMA TakeKeeps == ASSUME DecodeInv, BinInv', NEW t \in Threads, Take(t) PROVE DecodeInv'
<1>0. PICK i, b, idxs : i = at[t] + 1 /\ b = binOf[Queries[i]] /\ idxs = Append(batch[t][b], i)
  OBVIOUS
<1>1. PICK full \in BOOLEAN :
      /\ values' = IF full THEN DecodeBin(values, b, idxs) ELSE values
      /\ batch' = [batch EXCEPT ![t][b] = IF full THEN <<>> ELSE idxs]
  <2>1. CASE Len(idxs) = DecodeSize(t)
    <3>1. values' = DecodeBin(values, b, idxs) /\ batch' = [batch EXCEPT ![t][b] = <<>>]
      BY <1>0, <2>1 DEF Take, Restart
    <3>2. TRUE \in BOOLEAN
      OBVIOUS
    <3> QED BY <3>1, <3>2
  <2>2. CASE Len(idxs) # DecodeSize(t)
    <3>1. values' = values /\ batch' = [batch EXCEPT ![t][b] = idxs]
      BY <1>0, <2>2 DEF Take
    <3>2. FALSE \in BOOLEAN
      OBVIOUS
    <3> QED BY <3>1, <3>2
  <2> QED BY <2>1, <2>2
<1>2. /\ numBins' = numBins /\ binOf' = binOf /\ numThreads' = numThreads /\ thrdMax' = thrdMax
      /\ addToDecode' = addToDecode /\ sizes' = sizes /\ P' = P /\ tpc' = tpc
      /\ phase = "decode" /\ phase' = phase /\ numBins > 1 /\ tpc[t] = "take" /\ at[t] < From(t + 1, NumQueries)
      /\ at' = [at EXCEPT ![t] = @ + 1]
  BY DEF Take, inst, memory, NumQueries
<1>3. /\ Threads' = Threads /\ Bins' = Bins /\ (Roomy' <=> Roomy)
      /\ \A k : KeysOf(k)' = KeysOf(k) /\ Paired(k)' = Paired(k)
      /\ \A u, n : From(u, n)' = From(u, n)
      /\ \A u : Part(u)' = Part(u)
  BY <1>2 DEF Threads, Bins, Roomy, KeysOf, Paired, From, Part
<1>4. \A k : Final(k)' = Final(k)
  BY <1>2, SameFinal
<1>5. /\ numThreads \in Nat \ {0} /\ DOMAIN at = Threads /\ binOf \in [Keys -> Bins] /\ Decoding
      /\ values = [k \in DOMAIN Queries |-> values[k]]
  BY <1>2 DEF DecodeInv, BinInv, Kinds, Sized, Decoding, ValuesInv
<1>6. /\ batch \in [Threads -> [Bins -> Seq(Nat)]]
      /\ \A u \in Threads :
           /\ tpc[u] \in {"take", "done"} /\ at[u] \in From(u, NumQueries)..From(u + 1, NumQueries)
           /\ tpc[u] = "done" => at[u] = From(u + 1, NumQueries)
           /\ \A c \in Bins : \A k \in Range(batch[u][c]) :
                k \in From(u, NumQueries) + 1..at[u] /\ binOf[Queries[k]] = c
           /\ \A k \in Part(u) : values[k] = IF Pending(u, k) THEN {Old} ELSE Final(k)
  BY <1>5 DEF DecodeInv, QueryInv
<1>7. \A u \in Threads : /\ From(u, NumQueries) \in Nat /\ From(u + 1, NumQueries) \in Nat
                         /\ From(u + 1, NumQueries) <= NumQueries
  BY <1>5, QueryParts
<1>8. /\ i \in Part(t) /\ i \in Nat /\ at[t] = i - 1 /\ at'[t] = i
      /\ \A u \in Threads : u # t => at'[u] = at[u]
      /\ i \in From(t, NumQueries) + 1..From(t + 1, NumQueries)
  <2>1. at[t] \in From(t, NumQueries)..From(t + 1, NumQueries) /\ at[t] < From(t + 1, NumQueries)
    BY <1>2, <1>6
  <2>2. at'[t] = at[t] + 1 /\ \A u \in Threads : u # t => at'[u] = at[u]
    BY <1>2, <1>5
  <2>3. From(t, NumQueries) \in Nat /\ From(t + 1, NumQueries) \in Nat
    BY <1>7
  <2> QED BY <1>0, <2>1, <2>2, <2>3 DEF Part
<1>9. \A u \in Threads : \A k \in Part(u) : k \in DOMAIN Queries /\ k \in Nat
  BY <1>7, QueriesAre DEF Part
<1>10. b \in Bins
  <2>1. Queries[i] \in Keys
    BY <1>8, <1>9, QueriesAre
  <2> QED BY <1>0, <1>5, <2>1
<1>11. idxs \in Seq(Nat) /\ Range(idxs) = Range(batch[t][b]) \cup {i}
  <2>1. batch[t][b] \in Seq(Nat)
    BY <1>6, <1>10
  <2> QED BY <1>0, <1>8, <2>1, RangeAppend
<1>12. PICK rest \in Seq(Nat) :
       /\ rest = (IF full THEN <<>> ELSE idxs)
       /\ Range(rest) = IF full THEN {} ELSE Range(batch[t][b]) \cup {i}
  <2>1. <<>> \in Seq(Nat) /\ Range(<<>>) = {}
    BY EmptySeq DEF Range
  <2> QED BY <1>11, <2>1
<1>13. /\ batch' \in [Threads -> [Bins -> Seq(Nat)]] /\ batch'[t][b] = rest
       /\ \A u \in Threads, c \in Bins : u # t \/ c # b => batch'[u][c] = batch[u][c]
  <2>1. batch[t] \in [Bins -> Seq(Nat)]
    BY <1>6
  <2>2. batch' = [batch EXCEPT ![t] = [batch[t] EXCEPT ![b] = rest]]
    BY <1>1, <1>12
  <2> QED BY <1>6, <1>10, <1>12, <2>1, <2>2
<1>14. /\ values' = [k \in DOMAIN Queries |-> values'[k]]
       /\ \A k \in DOMAIN Queries :
            /\ ~full \/ k \notin Range(idxs) => values'[k] = values[k]
            /\ full /\ k \in Range(idxs) /\ b = binOf[Queries[k]] /\ values[k] = {Old} => values'[k] = Final(k)
  <2>1. CASE full
    BY <1>1, <1>5, <2>1, DecodeBinIs
  <2>2. CASE ~full
    BY <1>1, <1>5, <2>2
  <2> QED BY <2>1, <2>2
<1>15. /\ i \in From(t, NumQueries) + 1..at'[t] /\ i <= at'[t] /\ binOf[Queries[i]] = b
       /\ i \in From(t, NumQueries) + 1..From(t + 1, NumQueries)
  <2>1. From(t, NumQueries) \in Nat /\ From(t + 1, NumQueries) \in Nat
    BY <1>7
  <2>2. i \in From(t, NumQueries) + 1..From(t + 1, NumQueries) /\ at'[t] = i /\ i \in Nat
    BY <1>8
  <2>3. i \in From(t, NumQueries) + 1..at'[t] /\ i <= at'[t]
    BY <2>1, <2>2
  <2>4. binOf[Queries[i]] = b
    BY <1>0
  <2> QED BY <2>2, <2>3, <2>4
<1>16. ASSUME NEW u \in Threads, NEW c \in Bins, NEW k \in Range(batch'[u][c])
       PROVE  k \in From(u, NumQueries) + 1..at'[u] /\ binOf[Queries[k]] = c
  <2>1. CASE u = t /\ c = b
    <3>1. k = i \/ k \in Range(batch[t][b])
      BY <1>12, <1>13, <2>1
    <3>2. CASE k = i
      BY <1>15, <2>1, <3>2
    <3>3. CASE k \in Range(batch[t][b])
      <4>1. k \in From(t, NumQueries) + 1..at[t] /\ binOf[Queries[k]] = b
        BY <1>6, <1>10, <3>3
      <4> QED BY <1>7, <1>8, <2>1, <4>1
    <3> QED BY <3>1, <3>2, <3>3
  <2>2. CASE u # t \/ c # b
    <3>1. k \in From(u, NumQueries) + 1..at[u] /\ binOf[Queries[k]] = c
      BY <1>6, <1>13, <2>2
    <3>2. CASE u = t
      BY <1>7, <1>8, <3>1, <3>2
    <3>3. CASE u # t
      BY <1>8, <3>1, <3>3
    <3> QED BY <3>1, <3>2, <3>3
  <2> QED BY <2>1, <2>2
<1>17. ASSUME NEW u \in Threads, NEW k \in Part(u)
       PROVE  values'[k] = IF Pending(u, k)' THEN {Old} ELSE Final(k)
  <2>1. k \in DOMAIN Queries /\ k \in Nat /\ binOf[Queries[k]] \in Bins
    BY <1>5, <1>9, QueriesAre
  <2>2. values[k] = IF Pending(u, k) THEN {Old} ELSE Final(k)
    BY <1>6
  <2>3. Pending(u, k) <=> k > at[u] \/ (tpc[u] = "take" /\ k \in Range(batch[u][binOf[Queries[k]]]))
    BY DEF Pending
  <2>4. Pending(u, k)' <=> k > at'[u] \/ (tpc[u] = "take" /\ k \in Range(batch'[u][binOf[Queries[k]]]))
    BY <1>2 DEF Pending
  <2>5. CASE k \in Range(idxs)
    <3>1. k = i \/ k \in Range(batch[t][b])
      BY <1>11, <2>5
    <3>2. /\ binOf[Queries[k]] = b /\ k <= at'[t]
          /\ k \in From(t, NumQueries) + 1..From(t + 1, NumQueries)
      <4>1. CASE k = i
        BY <1>15, <4>1
      <4>2. CASE k \in Range(batch[t][b])
        <5>1. k \in From(t, NumQueries) + 1..at[t] /\ binOf[Queries[k]] = b
          BY <1>6, <1>10, <4>2
        <5> QED BY <1>7, <1>8, <5>1
      <4> QED BY <3>1, <4>1, <4>2
    <3>3. u = t
      <4>1. k \in From(u, NumQueries) + 1..From(u + 1, NumQueries)
        BY DEF Part
      <4>2. From(t, NumQueries) < k /\ k <= From(t + 1, NumQueries) /\ From(u, NumQueries) < k /\ k <= From(u + 1, NumQueries)
        BY <1>7, <3>2, <4>1
      <4>3. NumQueries \in Nat /\ k \in Int
        BY <2>1, QueriesAre
      <4> QED BY <1>5, <4>2, <4>3, PartsApart
    <3>4. Pending(t, k)
      BY <1>2, <1>8, <2>3, <3>1, <3>2, <3>3
    <3>5. values[k] = {Old}
      BY <2>2, <3>3, <3>4
    <3>6. CASE full
      <4>1. ~Pending(u, k)'
        <5>1. k \notin Range(batch'[u][b])
          BY <1>12, <1>13, <3>3, <3>6
        <5>2. ~(k > at'[u])
          BY <1>8, <2>1, <3>2, <3>3
        <5> QED BY <2>4, <3>2, <5>1, <5>2
      <4> QED BY <1>14, <2>1, <2>5, <3>2, <3>5, <3>6, <4>1
    <3>7. CASE ~full
      <4>1. Pending(u, k)'
        BY <1>2, <1>12, <1>13, <2>4, <3>1, <3>2, <3>3, <3>7
      <4> QED BY <1>14, <2>1, <3>5, <3>7, <4>1
    <3> QED BY <3>6, <3>7
  <2>6. CASE k \notin Range(idxs)
    <3>1. values'[k] = values[k] /\ k # i /\ k \notin Range(batch[t][b])
      BY <1>11, <1>14, <2>1, <2>6
    <3>2. k > at'[u] <=> k > at[u]
      <4>1. CASE u = t
        BY <1>8, <2>1, <3>1, <4>1
      <4>2. CASE u # t
        BY <1>8, <4>2
      <4> QED BY <4>1, <4>2
    <3>3. k \in Range(batch'[u][binOf[Queries[k]]]) <=> k \in Range(batch[u][binOf[Queries[k]]])
      <4>1. CASE u = t /\ binOf[Queries[k]] = b
        <5>1. k \notin Range(rest)
          BY <1>12, <3>1
        <5> QED BY <1>13, <3>1, <4>1, <5>1
      <4>2. CASE u # t \/ binOf[Queries[k]] # b
        BY <1>13, <2>1, <4>2
      <4> QED BY <4>1, <4>2
    <3> QED BY <2>2, <2>3, <2>4, <3>1, <3>2, <3>3
  <2> QED BY <2>5, <2>6
<1>18. ASSUME NEW u \in Threads
       PROVE  at'[u] \in From(u, NumQueries)..From(u + 1, NumQueries) /\ (tpc[u] = "done" => at'[u] = From(u + 1, NumQueries))
  <2>1. CASE u = t
    BY <1>2, <1>7, <1>8, <2>1
  <2>2. CASE u # t
    BY <1>6, <1>8, <2>2
  <2> QED BY <2>1, <2>2
<1>19. QueryInv'
  <2>1. \A u \in Threads : tpc'[u] \in {"take", "done"} /\ tpc'[u] = tpc[u]
    BY <1>2, <1>6
  <2>2. \A u \in Threads : \A k \in Part(u)' : values'[k] = IF Pending(u, k)' THEN {Old} ELSE Final(k)'
    BY <1>3, <1>4, <1>17
  <2>3. \A u \in Threads, c \in Bins : \A k \in Range(batch'[u][c]) :
          k \in From(u, NumQueries)' + 1..at'[u] /\ binOf'[Queries[k]] = c
    BY <1>2, <1>3, <1>16
  <2> QED BY <1>3, <1>13, <1>18, <2>1, <2>2, <2>3 DEF QueryInv
<1>20. ValuesInv'
  BY <1>2, <1>3, <1>14 DEF DecodeInv, ValuesInv
<1> QED BY <1>19, <1>20 DEF DecodeInv

\* What is left of each bin is decoded, bin by bin.
LEMMA RestIs ==
  ASSUME NEW t \in Threads, numBins \in Nat, values = [k \in DOMAIN Queries |-> values[k]],
         \A k \in DOMAIN Queries : binOf[Queries[k]] \in Bins,
         \A c \in Bins : \A k \in Range(batch[t][c]) : binOf[Queries[k]] = c,
         \A c \in Bins : \A k \in Range(batch[t][c]) : k \in DOMAIN Queries => values[k] = {Old},
         NEW rest, rest = LET v[b \in 0..numBins] == IF b = 0 THEN values ELSE DecodeBin(v[b - 1], b - 1, batch[t][b - 1])
                          IN v[numBins]
  PROVE  /\ rest = [k \in DOMAIN Queries |-> rest[k]]
         /\ \A k \in DOMAIN Queries :
              rest[k] = IF k \in Range(batch[t][binOf[Queries[k]]]) THEN Final(k) ELSE values[k]
<1> DEFINE Is(g) == g = [b \in 0..numBins |-> IF b = 0 THEN values ELSE DecodeBin(g[b - 1], b - 1, batch[t][b - 1])]
           Val(n, k) == IF \E c \in Bins : c < n /\ k \in Range(batch[t][c]) THEN Final(k) ELSE values[k]
           G == [n \in 0..numBins |-> [k \in DOMAIN Queries |-> Val(n, k)]]
<1>1. \A n \in 0..numBins : G[n] = [k \in DOMAIN Queries |-> Val(n, k)]
  OBVIOUS
<1>2. G[0] = values
  <2>1. \A k \in DOMAIN Queries : Val(0, k) = values[k]
    BY DEF Bins
  <2>2. G[0] = [k \in DOMAIN Queries |-> Val(0, k)]
    OBVIOUS
  <2> HIDE DEF Val, G
  <2> QED BY <2>1, <2>2
<1>3. ASSUME NEW b \in 0..numBins, b # 0 PROVE G[b] = DecodeBin(G[b - 1], b - 1, batch[t][b - 1])
  <2>1. b - 1 \in Bins /\ b - 1 \in 0..numBins
    BY <1>3 DEF Bins
  <2> DEFINE g == G[b - 1]
             d == DecodeBin(g, b - 1, batch[t][b - 1])
  <2>2. g = [k \in DOMAIN Queries |-> Val(b - 1, k)]
    BY <1>1, <2>1
  <2>3. g = [k \in DOMAIN Queries |-> g[k]] /\ \A k \in DOMAIN Queries : g[k] = Val(b - 1, k)
    <3> HIDE DEF Val, g
    <3> QED BY <2>2
  <2>4. ASSUME NEW k \in DOMAIN Queries PROVE d[k] = Val(b, k)
    <3>1. CASE k \in Range(batch[t][b - 1])
      <4>1. binOf[Queries[k]] = b - 1 /\ values[k] = {Old}
        BY <2>1, <3>1
      <4>2. ~\E c \in Bins : c < b - 1 /\ k \in Range(batch[t][c])
        BY <2>1, <4>1 DEF Bins
      <4>3. g[k] = {Old}
        BY <2>3, <4>1, <4>2
      <4>4. d[k] = Final(k)
        <5> HIDE DEF g
        <5> QED BY <2>3, <3>1, <4>1, <4>3, DecodeBinIs
      <4>5. Val(b, k) = Final(k)
        <5>1. b - 1 < b
          BY <2>1
        <5> QED BY <2>1, <3>1, <5>1
      <4> QED BY <4>4, <4>5
    <3>2. CASE k \notin Range(batch[t][b - 1])
      <4>1. d[k] = g[k]
        <5> HIDE DEF g
        <5> QED BY <2>3, <3>2, DecodeBinIs
      <4>2. \A c \in Bins : c < b <=> c < b - 1 \/ c = b - 1
        BY <2>1 DEF Bins
      <4>3. Val(b, k) = Val(b - 1, k)
        BY <2>1, <3>2, <4>2
      <4> QED BY <2>3, <4>1, <4>3
    <3> QED BY <3>1, <3>2
  <2>5. d = [k \in DOMAIN Queries |-> d[k]]
    <3> HIDE DEF g
    <3> QED BY <2>3, DecodeBinIs
  <2>6. G[b] = [k \in DOMAIN Queries |-> Val(b, k)]
    BY <1>1
  <2> HIDE DEF Val, G, d
  <2>7. G[b] = d
    BY <2>4, <2>5, <2>6
  <2> QED BY <2>7 DEF d
<1>4. Is(G)
  <2> HIDE DEF Val
  <2>1. \A b \in 0..numBins : G[b] = IF b = 0 THEN values ELSE DecodeBin(G[b - 1], b - 1, batch[t][b - 1])
    <3> HIDE DEF G
    <3> QED BY <1>2, <1>3
  <2>2. G = [b \in 0..numBins |-> G[b]]
    OBVIOUS
  <2> HIDE DEF G
  <2> QED BY <2>1, <2>2
<1> DEFINE h == CHOOSE x : Is(x)
<1>5. rest = h[numBins]
  OBVIOUS
<1>6. Is(h)
  <2> HIDE DEF Is, G, Val
  <2> QED BY <1>4
<1>7. \A b \in 0..numBins : h[b] = IF b = 0 THEN values ELSE DecodeBin(h[b - 1], b - 1, batch[t][b - 1])
  BY <1>6
<1> HIDE DEF h
<1> DEFINE S == {n \in Nat : n \in 0..numBins => h[n] = G[n]}
<1>8. 0 \in S
  <2> HIDE DEF G, Val
  <2> QED BY <1>2, <1>7
<1>9. ASSUME NEW n \in Nat, n \in S PROVE n + 1 \in S
  <2> HIDE DEF G, Val
  <2> SUFFICES ASSUME n + 1 \in 0..numBins PROVE h[n + 1] = G[n + 1]
    OBVIOUS
  <2>1. n \in 0..numBins /\ (n + 1) - 1 = n /\ n + 1 # 0
    OBVIOUS
  <2>2. h[n] = G[n]
    BY <1>9, <2>1
  <2>3. h[n + 1] = DecodeBin(h[n], n, batch[t][n])
    BY <1>7, <2>1
  <2>4. G[n + 1] = DecodeBin(G[n], n, batch[t][n])
    <3>1. G[n + 1] = DecodeBin(G[(n + 1) - 1], (n + 1) - 1, batch[t][(n + 1) - 1])
      BY <1>3, <2>1
    <3> QED BY <2>1, <3>1
  <2> QED BY <2>2, <2>3, <2>4
<1>10. Nat \subseteq S
  <2> HIDE DEF S
  <2> QED BY <1>8, <1>9, Induction
<1>11. rest = [k \in DOMAIN Queries |-> Val(numBins, k)]
  <2>1. rest = G[numBins]
    <3> HIDE DEF G, Val
    <3> QED BY <1>5, <1>10
  <2> QED BY <1>1, <2>1
<1>12. ASSUME NEW k \in DOMAIN Queries
       PROVE  Val(numBins, k) = IF k \in Range(batch[t][binOf[Queries[k]]]) THEN Final(k) ELSE values[k]
  <2>1. binOf[Queries[k]] \in Bins /\ \A c \in Bins : c < numBins
    BY DEF Bins
  <2>2. (\E c \in Bins : c < numBins /\ k \in Range(batch[t][c])) <=> k \in Range(batch[t][binOf[Queries[k]]])
    BY <2>1
  <2> QED BY <2>2
<1> HIDE DEF Val
<1> QED BY <1>11, <1>12

\* The thread decodes what is left and returns.
LEMMA TakeRestKeeps == ASSUME DecodeInv, BinInv', NEW t \in Threads, TakeRest(t) PROVE DecodeInv'
<1>1. /\ numBins' = numBins /\ binOf' = binOf /\ numThreads' = numThreads /\ thrdMax' = thrdMax
      /\ addToDecode' = addToDecode /\ sizes' = sizes /\ P' = P /\ at' = at /\ batch' = batch
      /\ phase = "decode" /\ phase' = phase /\ numBins > 1 /\ tpc[t] = "take" /\ at[t] = From(t + 1, NumQueries)
      /\ tpc' = [tpc EXCEPT ![t] = "done"]
  BY DEF TakeRest, inst, memory, NumQueries
<1>2. values' = LET v[b \in 0..numBins] == IF b = 0 THEN values ELSE DecodeBin(v[b - 1], b - 1, batch[t][b - 1])
                IN v[numBins]
  BY DEF TakeRest
<1>3. /\ Threads' = Threads /\ Bins' = Bins /\ (Roomy' <=> Roomy)
      /\ \A k : KeysOf(k)' = KeysOf(k) /\ Paired(k)' = Paired(k)
      /\ \A u, n : From(u, n)' = From(u, n)
      /\ \A u : Part(u)' = Part(u)
  BY <1>1 DEF Threads, Bins, Roomy, KeysOf, Paired, From, Part
<1>4. \A k : Final(k)' = Final(k)
  BY <1>1, SameFinal
<1>5. /\ numThreads \in Nat \ {0} /\ numBins \in Nat /\ DOMAIN tpc = Threads /\ binOf \in [Keys -> Bins]
      /\ Decoding /\ values = [k \in DOMAIN Queries |-> values[k]]
  BY <1>1 DEF DecodeInv, BinInv, SolveInv, TypeInv, Kinds, Sized, Decoding, ValuesInv
<1>6. /\ batch \in [Threads -> [Bins -> Seq(Nat)]]
      /\ \A u \in Threads :
           /\ tpc[u] \in {"take", "done"} /\ at[u] \in From(u, NumQueries)..From(u + 1, NumQueries)
           /\ tpc[u] = "done" => at[u] = From(u + 1, NumQueries)
           /\ \A c \in Bins : \A k \in Range(batch[u][c]) :
                k \in From(u, NumQueries) + 1..at[u] /\ binOf[Queries[k]] = c
           /\ \A k \in Part(u) : values[k] = IF Pending(u, k) THEN {Old} ELSE Final(k)
  BY <1>5 DEF DecodeInv, QueryInv
<1>7. \A u \in Threads : /\ From(u, NumQueries) \in Nat /\ From(u + 1, NumQueries) \in Nat
                         /\ From(u + 1, NumQueries) <= NumQueries
  BY <1>5, QueryParts
<1>8. \A u \in Threads : \A k \in Part(u) : k \in DOMAIN Queries /\ k \in Nat
  BY <1>7, QueriesAre DEF Part
<1>9. \A k \in DOMAIN Queries : binOf[Queries[k]] \in Bins
  BY <1>5, QueriesAre
<1>10. ASSUME NEW c \in Bins, NEW k \in Range(batch[t][c])
       PROVE  binOf[Queries[k]] = c /\ k \in Part(t) /\ values[k] = {Old}
  <2>1. k \in From(t, NumQueries) + 1..at[t] /\ binOf[Queries[k]] = c
    BY <1>6
  <2>2. k \in Part(t)
    BY <1>1, <2>1 DEF Part
  <2>3. Pending(t, k)
    BY <1>1, <2>1 DEF Pending
  <2> QED BY <1>6, <2>1, <2>2, <2>3
<1>11. /\ values' = [k \in DOMAIN Queries |-> values'[k]]
       /\ \A k \in DOMAIN Queries :
            values'[k] = IF k \in Range(batch[t][binOf[Queries[k]]]) THEN Final(k) ELSE values[k]
  <2>1. /\ \A c \in Bins : \A k \in Range(batch[t][c]) : binOf[Queries[k]] = c
        /\ \A c \in Bins : \A k \in Range(batch[t][c]) : k \in DOMAIN Queries => values[k] = {Old}
    BY <1>10
  <2>2. PICK v : v = values'
    OBVIOUS
  <2>3. v = LET w[b \in 0..numBins] == IF b = 0 THEN values ELSE DecodeBin(w[b - 1], b - 1, batch[t][b - 1])
            IN w[numBins]
    BY <1>2, <2>2
  <2>4. /\ v = [k \in DOMAIN Queries |-> v[k]]
        /\ \A k \in DOMAIN Queries :
             v[k] = IF k \in Range(batch[t][binOf[Queries[k]]]) THEN Final(k) ELSE values[k]
    BY <1>5, <1>9, <2>1, <2>3, RestIs
  <2> QED BY <2>2, <2>4
<1>12. tpc'[t] = "done" /\ \A u \in Threads : u # t => tpc'[u] = tpc[u]
  BY <1>1, <1>5
<1>13. ASSUME NEW u \in Threads, NEW k \in Part(u)
       PROVE  values'[k] = IF Pending(u, k)' THEN {Old} ELSE Final(k)
  <2>1. k \in DOMAIN Queries /\ k \in Nat /\ binOf[Queries[k]] \in Bins
    BY <1>8, <1>9
  <2>2. values[k] = IF Pending(u, k) THEN {Old} ELSE Final(k)
    BY <1>6
  <2>3. Pending(u, k) <=> k > at[u] \/ (tpc[u] = "take" /\ k \in Range(batch[u][binOf[Queries[k]]]))
    BY DEF Pending
  <2>4. Pending(u, k)' <=> k > at[u] \/ (tpc'[u] = "take" /\ k \in Range(batch[u][binOf[Queries[k]]]))
    BY <1>1 DEF Pending
  <2>5. k \in From(u, NumQueries) + 1..From(u + 1, NumQueries)
    BY DEF Part
  <2>6. CASE u = t
    <3>1. ~(k > at[u]) /\ tpc'[u] # "take"
      BY <1>1, <1>7, <1>12, <2>5, <2>6
    <3>2. ~Pending(u, k)'
      BY <2>4, <3>1
    <3>3. Pending(u, k) <=> k \in Range(batch[t][binOf[Queries[k]]])
      BY <1>1, <2>3, <2>6, <3>1
    <3> QED BY <1>11, <2>1, <2>2, <3>2, <3>3
  <2>7. CASE u # t
    <3>1. k \notin Range(batch[t][binOf[Queries[k]]])
      <4> SUFFICES ASSUME k \in Range(batch[t][binOf[Queries[k]]]) PROVE u = t
        BY <2>7
      <4>1. k \in From(t, NumQueries) + 1..From(t + 1, NumQueries)
        BY <1>10, <2>1 DEF Part
      <4>2. From(t, NumQueries) < k /\ k <= From(t + 1, NumQueries) /\ From(u, NumQueries) < k /\ k <= From(u + 1, NumQueries)
        BY <1>7, <2>5, <4>1
      <4>3. NumQueries \in Nat /\ k \in Int
        BY <2>1, QueriesAre
      <4> QED BY <1>5, <4>2, <4>3, PartsApart
    <3>2. Pending(u, k)' <=> Pending(u, k)
      BY <1>12, <2>3, <2>4, <2>7
    <3> QED BY <1>11, <2>1, <2>2, <3>1, <3>2
  <2> QED BY <2>6, <2>7
<1>14. QueryInv'
  <2>1. \A u \in Threads : tpc'[u] \in {"take", "done"} /\ (tpc'[u] = "done" => at[u] = From(u + 1, NumQueries))
    BY <1>1, <1>6, <1>12
  <2>2. \A u \in Threads : \A k \in Part(u)' : values'[k] = IF Pending(u, k)' THEN {Old} ELSE Final(k)'
    BY <1>3, <1>4, <1>13
  <2>3. \A u \in Threads, c \in Bins : \A k \in Range(batch'[u][c]) :
          k \in From(u, NumQueries)' + 1..at'[u] /\ binOf'[Queries[k]] = c
    BY <1>1, <1>3, <1>6
  <2>4. batch' \in [Threads -> [Bins -> Seq(Nat)]] /\ \A u \in Threads : at'[u] \in From(u, NumQueries)..From(u + 1, NumQueries)
    BY <1>1, <1>6
  <2> QED BY <1>1, <1>3, <2>1, <2>2, <2>3, <2>4 DEF QueryInv
<1>15. ValuesInv'
  BY <1>1, <1>3, <1>11 DEF DecodeInv, ValuesInv
<1> QED BY <1>14, <1>15 DEF DecodeInv

LEMMA DecodeStep == ASSUME DecodeInv, [Next]_vars PROVE DecodeInv'
<1>1. BinInv'
  BY BinStepKeeps DEF DecodeInv
<1>2. ASSUME NEW t \in Threads, Hash(t) \/ Arrive(t) \/ Pass(t) \/ Gather(t) \/ Throw(t) \/ Encode(t) \/ Return(t)
      PROVE  phase = "solve" /\ phase' \in {"solve", "dead"} /\ UNCHANGED <<inst, decoding>>
  BY <1>2 DEF Hash, Arrive, Pass, Gather, Throw, Encode, Return, Go
<1>3. ThrowSingle => phase = "solve" /\ phase' \in {"solve", "dead"} /\ UNCHANGED <<inst, decoding>>
  BY DEF ThrowSingle
<1>4. CASE UNCHANGED vars
  <2>1. /\ numBins' = numBins /\ binOf' = binOf /\ numThreads' = numThreads /\ thrdMax' = thrdMax
        /\ addToDecode' = addToDecode /\ sizes' = sizes /\ P' = P /\ at' = at /\ batch' = batch
        /\ phase' = phase /\ tpc' = tpc /\ values' = values
    BY <1>4 DEF vars
  <2>2. /\ Threads' = Threads /\ Bins' = Bins /\ (Roomy' <=> Roomy)
        /\ \A k : KeysOf(k)' = KeysOf(k) /\ Paired(k)' = Paired(k)
        /\ \A u, n : From(u, n)' = From(u, n)
        /\ \A u : Part(u)' = Part(u)
    BY <2>1 DEF Threads, Bins, Roomy, KeysOf, Paired, From, Part
  <2>3. \A k : Final(k)' = Final(k)
    BY <2>1, SameFinal
  <2>4. \A u, k : Pending(u, k)' <=> Pending(u, k)
    BY <2>1 DEF Pending
  <2> QED BY <1>1, <2>1, <2>2, <2>3, <2>4 DEF DecodeInv, QueryInv, Decoding, ValuesInv, AllOld
<1>5. Ended => UNCHANGED vars
  BY DEF Ended
<1> QED BY <1>1, <1>2, <1>3, <1>4, <1>5, SolvingKeeps, SolveSingleKeeps, JoinedKeeps, DecodeSingleKeeps, DecodeJoinedKeeps,
        TakeKeeps, TakeRestKeeps DEF Next, Step, Main

\* For any inputs and queries, numbers of threads and bins, spread over the bins,
\* size of batch and every interleaving: what is solved and decoded is exact when
\* every bin of every thread has room.
THEOREM DecodeExactHolds == Spec => []DecodeExact
<1>1. DecodeInv => DecodeExact
  <2> SUFFICES ASSUME DecodeInv, phase = "done", Roomy, NEW k \in DOMAIN Queries, Queries[k] \in Range(Inputs)
               PROVE  values[k] = IF addToDecode THEN {Old, Queries[k]} ELSE {Queries[k]}
    BY DEF DecodeExact
  <2> DEFINE q == Queries[k]
             b == binOf[Queries[k]]
  <2>1. q \in Keys /\ b \in Bins
    BY QueriesAre DEF DecodeInv, BinInv, Kinds
  <2>2. P[b] = Paired(b) /\ values[k] = Final(k)
    BY <2>1 DEF DecodeInv, ValuesInv
  <2>3. q \in KeysOf(b)
    BY DEF KeysOf
  <2>4. Decoded(b, q) = {q}
    <3>1. <<q, q>> \in P[b] /\ \A p \in P[b] : p[2] = p[1]
      BY <2>2, <2>3 DEF Paired
    <3> HIDE DEF q, b
    <3> QED BY <3>1 DEF Decoded
  <2>5. Plus({Old}, {q}) = {Old, q}
    BY <2>1, BaxosAssumption DEF Plus
  <2>6. Final(k) = IF addToDecode THEN Plus({Old}, Decoded(b, q)) ELSE Decoded(b, q)
    BY DEF Final
  <2> HIDE DEF q, b
  <2>7. Final(k) = IF addToDecode THEN {Old, q} ELSE {q}
    BY <2>4, <2>5, <2>6
  <2> QED BY <2>2, <2>7 DEF q
<1> QED BY <1>1, DecodeInit, DecodeStep, PTL DEF Spec
=============================================================================
