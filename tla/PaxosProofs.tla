---------------------------- MODULE PaxosProofs ----------------------------
(***************************************************************************)
(* Paxos.  The rows: an item's row is the same in a batch and alone, and   *)
(* has distinct columns, for every hash, size and weight (RowsInv).        *)
(*                                                                         *)
(* triangulate (TriInv): WeightData lists the columns that are not taken   *)
(* by their number of rows that are not set, and the rows on the diagonal  *)
(* are a triangle; so the lists are exact, and a gap means a core.         *)
(*                                                                         *)
(* backfill (SolveInv): the dense part solves the equations of the gap and *)
(* the sparse part the diagonal; the rows that were added to a row of the  *)
(* gap cancel its sparse part, so that row is solved too.                  *)
(***************************************************************************)
EXTENDS Paxos, FiniteSetTheorems, FunctionTheorems, SequenceTheorems, WellFoundedInduction, TLAPS

(***************************************************************************)
(* Numbers, and functions by recursion.                                    *)
(***************************************************************************)
\* A set of numbers has a least one.
LEMMA LeastOf == ASSUME NEW T \in SUBSET Nat, T # {} PROVE \E x \in T : \A y \in T : x <= y
<1>1. IsWellFoundedOn(OpToRel(<, Nat), Nat)
  BY NatLessThanWellFounded
<1>2. PICK x \in T : \A y \in T : ~(<<y, x>> \in OpToRel(<, Nat))
  BY <1>1, WFMin
<1>3. \A y \in T : ~(y < x)
  BY <1>2 DEF OpToRel
<1> QED BY <1>3

LEMMA Induction ==
  ASSUME NEW S, 0 \in S, \A n \in Nat : n \in S => n + 1 \in S
  PROVE  Nat \subseteq S
<1> SUFFICES ASSUME Nat \ S # {} PROVE FALSE
  OBVIOUS
<1>1. PICK x \in Nat \ S : \A y \in Nat \ S : x <= y
  BY LeastOf
<1>2. x # 0 /\ x - 1 \in Nat
  BY <1>1
<1>3. x - 1 \in S
  BY <1>1, <1>2
<1> QED BY <1>1, <1>2, <1>3

\* A function defined by recursion along 0..n.
Follows(f, n, V, base, step) ==
  f \in [0..n -> V] /\ f[0] = base /\ \A k \in 1..n : f[k] = step[k][f[k - 1]]
LEMMA Recursion ==
  ASSUME NEW n \in Nat, NEW V, NEW base \in V, NEW step \in [1..n -> [V -> V]]
  PROVE  \E f : Follows(f, n, V, base, step)
<1> DEFINE Good(m) == \E f \in [0..m -> V] : f[0] = base /\ \A k \in 1..m : f[k] = step[k][f[k - 1]]
           S == {m \in Nat : m <= n => Good(m)}
<1>1. 0 \in S
  <2> DEFINE f == [k \in 0..0 |-> base]
  <2>1. f \in [0..0 -> V] /\ f[0] = base /\ \A k \in 1..0 : f[k] = step[k][f[k - 1]]
    OBVIOUS
  <2> HIDE DEF f
  <2>2. Good(0)
    BY <2>1
  <2> QED BY <2>2
<1>2. ASSUME NEW m \in Nat, m \in S PROVE m + 1 \in S
  <2> SUFFICES ASSUME m + 1 <= n PROVE Good(m + 1)
    OBVIOUS
  <2>1. PICK f \in [0..m -> V] : f[0] = base /\ \A k \in 1..m : f[k] = step[k][f[k - 1]]
    BY <1>2
  <2> DEFINE g == [k \in 0..m + 1 |-> IF k = m + 1 THEN step[m + 1][f[m]] ELSE f[k]]
  <2>2. f[m] \in V /\ m + 1 \in 1..n
    BY <2>1
  <2>3. step[m + 1][f[m]] \in V
    BY <2>2
  <2>4. g \in [0..m + 1 -> V] /\ g[0] = base
    BY <2>1, <2>3
  <2>5. \A k \in 1..m + 1 : g[k] = step[k][g[k - 1]]
    <3> TAKE k \in 1..m + 1
    <3>1. CASE k = m + 1
      <4>1. k - 1 = m /\ m \in 0..m + 1 /\ m # m + 1 /\ m + 1 \in 0..m + 1
        BY <3>1
      <4>2. g[m] = f[m] /\ g[m + 1] = step[m + 1][f[m]]
        BY <4>1
      <4> HIDE DEF g
      <4> QED BY <3>1, <4>1, <4>2
    <3>2. CASE k # m + 1
      <4>1. k \in 1..m /\ k - 1 \in 0..m /\ g[k] = f[k] /\ g[k - 1] = f[k - 1]
        BY <3>2
      <4> HIDE DEF g
      <4> QED BY <2>1, <4>1
    <3> QED BY <3>1, <3>2
  <2> HIDE DEF g
  <2> QED BY <2>4, <2>5
<1> HIDE DEF S
<1>3. Nat \subseteq S
  BY <1>1, <1>2, Induction
<1>4. n \in S
  BY <1>3
<1> QED BY <1>4 DEF S, Follows

\* One list after another.
IsJoin(c, a, b, m, n, S) ==
  /\ c \in Seq(S) /\ Len(c) = m + n
  /\ \A i \in 1..m : c[i] = a[i]
  /\ \A i \in 1..n : c[m + i] = b[i]
LEMMA Joined == ASSUME NEW S, NEW a \in Seq(S), NEW b \in Seq(S) PROVE IsJoin(a \o b, a, b, Len(a), Len(b), S)
<1>1. PICK d : d = a \o b
  OBVIOUS
<1>2. d \in Seq(S) /\ Len(d) = Len(a) + Len(b)
  BY <1>1, ConcatProperties, Zenon
<1>3. \A i \in 1..Len(a) + Len(b) : d[i] = IF i <= Len(a) THEN a[i] ELSE b[i - Len(a)]
  BY <1>1, ConcatProperties, Zenon
<1>4. PICK m \in Nat, n \in Nat : m = Len(a) /\ n = Len(b)
  OBVIOUS
<1>5. \A i \in 1..m : i \in 1..m + n /\ i <= m
  OBVIOUS
<1>6. \A i \in 1..n : m + i \in 1..m + n /\ ~(m + i <= m) /\ (m + i) - m = i
  OBVIOUS
<1>7. IsJoin(d, a, b, m, n, S)
  <2>1. \A i \in 1..m + n : d[i] = IF i <= m THEN a[i] ELSE b[i - m]
    BY <1>3, <1>4
  <2>2. \A i \in 1..m : d[i] = a[i]
    BY <1>5, <2>1
  <2>3. ASSUME NEW i \in 1..n PROVE d[m + i] = b[i]
    <3>1. PICK j \in 1..m + n : j = m + i /\ ~(j <= m) /\ j - m = i
      BY <1>6
    <3> QED BY <2>1, <3>1
  <2> QED BY <1>2, <1>4, <2>2, <2>3 DEF IsJoin
<1> QED BY <1>1, <1>4, <1>7

(***************************************************************************)
(* Lists that hold each member of a set once.                              *)
(***************************************************************************)
Once(list, n, U) ==
  /\ list \in Seq(U) /\ Len(list) = n
  /\ \A a, b \in 1..n : list[a] = list[b] => a = b
  /\ \A u \in U : \E a \in 1..n : list[a] = u

LEMMA OnceDomain ==
  ASSUME NEW U, NEW n \in Nat, NEW list, Once(list, n, U)
  PROVE  /\ DOMAIN list = 1..n /\ IsInjective(list) /\ Range(list) = U
         /\ \A a \in 1..n : list[a] \in U
<1>1. DOMAIN list = 1..n /\ \A a \in 1..n : list[a] \in U
  BY DEF Once
<1>2. IsInjective(list)
  BY <1>1 DEF Once, IsInjective
<1>3. Range(list) = U
  BY <1>1 DEF Once, Range
<1> QED BY <1>1, <1>2, <1>3

LEMMA OnceEmpty == Once(<<>>, 0, {})
  BY DEF Once

LEMMA OnceJoin ==
  ASSUME NEW U, NEW W, NEW n \in Nat, NEW m \in Nat, NEW l, NEW k, Once(l, n, U), Once(k, m, W), U \cap W = {}
  PROVE  Once(l \o k, n + m, U \cup W)
<1> DEFINE V == U \cup W
<1>1. l \in Seq(V) /\ k \in Seq(V)
  <2>1. l \in Seq(U) /\ k \in Seq(W) /\ U \subseteq V /\ W \subseteq V
    BY DEF Once
  <2> HIDE DEF V
  <2> QED BY <2>1, SeqMonotonic
<1> HIDE DEF V
<1>2. Len(l) = n /\ Len(k) = m
  BY DEF Once
<1>3. PICK j : j = l \o k
  OBVIOUS
<1>4. IsJoin(j, l, k, n, m, V)
  BY <1>1, <1>2, <1>3, Joined
<1>5. j \in Seq(V) /\ Len(j) = n + m
  BY <1>4 DEF IsJoin
<1>6. \A a \in 1..n : j[a] = l[a] /\ l[a] \in U /\ a \in 1..n + m
  BY <1>4 DEF IsJoin, Once
<1>7. \A a \in 1..m : j[n + a] = k[a] /\ k[a] \in W /\ n + a \in 1..n + m
  BY <1>4 DEF IsJoin, Once
<1>8. \A a \in 1..n + m : ~(a \in 1..n) => a - n \in 1..m /\ n + (a - n) = a
  OBVIOUS
<1>9. ASSUME NEW a \in 1..n + m, NEW b \in 1..n + m, j[a] = j[b] PROVE a = b
  <2>1. CASE a \in 1..n /\ b \in 1..n
    BY <1>6, <1>9, <2>1 DEF Once
  <2>2. CASE a \in 1..n /\ ~(b \in 1..n)
    <3>1. j[a] \in U /\ j[b] \in W
      <4>1. b - n \in 1..m /\ n + (b - n) = b
        BY <1>8, <2>2
      <4> QED BY <1>6, <1>7, <2>2, <4>1
    <3> QED BY <1>9, <3>1
  <2>3. CASE ~(a \in 1..n) /\ b \in 1..n
    <3>1. j[b] \in U /\ j[a] \in W
      <4>1. a - n \in 1..m /\ n + (a - n) = a
        BY <1>8, <2>3
      <4> QED BY <1>6, <1>7, <2>3, <4>1
    <3> QED BY <1>9, <3>1
  <2>4. CASE ~(a \in 1..n) /\ ~(b \in 1..n)
    <3>1. a - n \in 1..m /\ n + (a - n) = a /\ b - n \in 1..m /\ n + (b - n) = b
      BY <1>8, <2>4
    <3>2. k[a - n] = k[b - n]
      BY <1>7, <1>9, <3>1
    <3>3. a - n = b - n
      BY <3>1, <3>2 DEF Once
    <3> QED BY <3>3
  <2> QED BY <2>1, <2>2, <2>3, <2>4
<1>10. ASSUME NEW u \in V PROVE \E a \in 1..n + m : j[a] = u
  <2>1. CASE u \in U
    <3>1. PICK a \in 1..n : l[a] = u
      BY <2>1 DEF Once
    <3> QED BY <1>6, <3>1
  <2>2. CASE u \in W
    <3>1. PICK a \in 1..m : k[a] = u
      BY <2>2 DEF Once
    <3> QED BY <1>7, <3>1
  <2> QED BY <2>1, <2>2 DEF V
<1>11. Once(j, n + m, V)
  BY <1>5, <1>9, <1>10 DEF Once
<1> QED BY <1>3, <1>11 DEF V

LEMMA OnceOne == ASSUME NEW c PROVE Once(<<c>>, 1, {c})
<1> DEFINE e == <<c>>
<1>1. e \in Seq({c}) /\ Len(e) = 1 /\ e[1] = c
  OBVIOUS
<1> HIDE DEF e
<1>2. Once(e, 1, {c})
  BY <1>1 DEF Once
<1> QED BY <1>2 DEF e

\* So it is as long as the set is large.
LEMMA OnceSize ==
  ASSUME NEW U, NEW n \in Nat, NEW list, Once(list, n, U)
  PROVE  IsFiniteSet(U) /\ Cardinality(U) = n
<1>1. list \in Bijection(1..n, U)
  <2>1. list = [a \in 1..n |-> list[a]] /\ \A a \in 1..n : list[a] \in U
    BY DEF Once
  <2> QED BY <2>1 DEF Once, Bijection, Injection, Surjection, IsInjective
<1>2. ExistsBijection(1..n, U)
  BY <1>1 DEF ExistsBijection
<1>3. IsFiniteSet(1..n) /\ Cardinality(1..n) = n
  BY FS_Interval
<1> QED BY <1>2, <1>3, FS_Bijection

\* Kept leaves the members of the set.
LEMMA KeptOnce ==
  ASSUME NEW U, NEW n \in Nat, NEW list, Once(list, n, U), NEW S
  PROVE  \E m \in Nat : Once(Kept(list, S), m, U \cap S)
<1> DEFINE step == [k \in 1..n |-> [l \in Seq(U) |-> IF list[k] \in S THEN Append(l, list[k]) ELSE l]]
           Is(p) == p = [k \in 0..Len(list) |->
                           IF k = 0 THEN <<>> ELSE IF list[k] \in S THEN Append(p[k - 1], list[k]) ELSE p[k - 1]]
           f == CHOOSE p : Is(p)
<1>1. Len(list) = n /\ list \in Seq(U) /\ (\A k \in 1..n : list[k] \in U) /\ \A a, b \in 1..n : list[a] = list[b] => a = b
  BY DEF Once
<1>2. Kept(list, S) = f[n]
  BY <1>1 DEF Kept
<1>3. step \in [1..n -> [Seq(U) -> Seq(U)]]
  <2>1. \A k \in 1..n, l \in Seq(U) : Append(l, list[k]) \in Seq(U)
    BY <1>1
  <2> QED BY <2>1
<1>4. PICK g : Follows(g, n, Seq(U), <<>>, step)
  <2>1. <<>> \in Seq(U)
    OBVIOUS
  <2> HIDE DEF step
  <2> QED BY <1>3, <2>1, Recursion
<1>5. Is(g)
  <2>1. g = [k \in 0..n |-> g[k]] /\ g[0] = <<>>
    BY <1>4 DEF Follows
  <2>2. ASSUME NEW k \in 1..n PROVE g[k] = IF list[k] \in S THEN Append(g[k - 1], list[k]) ELSE g[k - 1]
    <3>1. k - 1 \in 0..n
      OBVIOUS
    <3>2. g[k] = step[k][g[k - 1]] /\ g[k - 1] \in Seq(U)
      <4> HIDE DEF step
      <4> QED BY <1>4, <3>1 DEF Follows
    <3> QED BY <3>2
  <2>3. \A k \in 0..n : k # 0 => k \in 1..n
    OBVIOUS
  <2>4. \A k \in 0..n : g[k] = IF k = 0 THEN <<>> ELSE IF list[k] \in S THEN Append(g[k - 1], list[k]) ELSE g[k - 1]
    BY <2>1, <2>2, <2>3
  <2> QED BY <1>1, <2>1, <2>4
<1>6. f[0] = <<>> /\ \A k \in 1..n : f[k] = IF list[k] \in S THEN Append(f[k - 1], list[k]) ELSE f[k - 1]
  <2>1. Is(f)
    <3> HIDE DEF Is
    <3> QED BY <1>5
  <2>2. f = [k \in 0..n |->
               IF k = 0 THEN <<>> ELSE IF list[k] \in S THEN Append(f[k - 1], list[k]) ELSE f[k - 1]]
    BY <1>1, <2>1
  <2>3. 0 \in 0..n /\ \A k \in 1..n : k \in 0..n /\ k # 0
    OBVIOUS
  <2> HIDE DEF f
  <2> QED BY <2>2, <2>3
<1> HIDE DEF f
<1> DEFINE In(k) == {u \in U \cap S : \E a \in 1..k : list[a] = u}
           Good(k) == \E m \in Nat : Once(f[k], m, In(k))
           T == {k \in Nat : k \in 0..n => Good(k)}
<1> HIDE DEF Good
<1>7. 0 \in T
  <2>1. In(0) = {}
    OBVIOUS
  <2>2. Once(f[0], 0, In(0))
    BY <1>6, <2>1, OnceEmpty
  <2> HIDE DEF In
  <2> QED BY <2>2 DEF Good
<1>8. ASSUME NEW k \in Nat, k \in T PROVE k + 1 \in T
  <2> SUFFICES ASSUME k + 1 \in 0..n PROVE Good(k + 1)
    OBVIOUS
  <2>1. k \in 0..n /\ k + 1 \in 1..n /\ (k + 1) - 1 = k
    OBVIOUS
  <2>2. PICK m \in Nat : Once(f[k], m, In(k))
    <3> HIDE DEF In
    <3> QED BY <1>8, <2>1 DEF Good
  <2>3. CASE list[k + 1] \in S
    <3>1. PICK u : u = list[k + 1] /\ u \in U \cap S
      BY <1>1, <2>1, <2>3
    <3>2. u \notin In(k)
      <4> SUFFICES ASSUME NEW a \in 1..k, list[a] = u PROVE FALSE
        OBVIOUS
      <4>1. a \in 1..n /\ a # k + 1
        BY <2>1
      <4> QED BY <1>1, <2>1, <3>1, <4>1
    <3>3. In(k + 1) = In(k) \cup {u}
      <4>1. \A a \in 1..k + 1 : a \in 1..k \/ a = k + 1
        OBVIOUS
      <4>2. \A a \in 1..k : a \in 1..k + 1
        OBVIOUS
      <4>3. k + 1 \in 1..k + 1
        OBVIOUS
      <4> QED BY <3>1, <4>1, <4>2, <4>3
    <3> HIDE DEF In
    <3>4. f[k + 1] = Append(f[k], u)
      BY <1>6, <2>1, <2>3, <3>1
    <3>5. Append(f[k], u) = f[k] \o <<u>>
      <4>1. PICK l : l = f[k] /\ l \in Seq(In(k))
        BY <2>2 DEF Once
      <4>2. l \in Seq(U \cup {u}) /\ u \in U \cup {u}
        <5>1. In(k) \subseteq U \cup {u}
          BY DEF In
        <5> QED BY <4>1, <5>1, SeqMonotonic
      <4> QED BY <4>1, <4>2, AppendIsConcat
    <3>6. Once(<<u>>, 1, {u}) /\ In(k) \cap {u} = {}
      BY <3>2, OnceOne
    <3>7. Once(f[k] \o <<u>>, m + 1, In(k) \cup {u})
      BY <2>2, <3>6, OnceJoin
    <3>8. Once(f[k + 1], m + 1, In(k + 1))
      BY <3>3, <3>4, <3>5, <3>7, Zenon
    <3>9. m + 1 \in Nat
      OBVIOUS
    <3> QED BY <3>8, <3>9 DEF Good
  <2>4. CASE list[k + 1] \notin S
    <3>1. In(k + 1) = In(k)
      <4>1. \A a \in 1..k + 1 : a \in 1..k \/ a = k + 1
        OBVIOUS
      <4>2. \A a \in 1..k : a \in 1..k + 1
        OBVIOUS
      <4> QED BY <2>4, <4>1, <4>2
    <3>2. f[k + 1] = f[k]
      BY <1>6, <2>1, <2>4
    <3> HIDE DEF In
    <3> QED BY <2>2, <3>1, <3>2 DEF Good
  <2> QED BY <2>3, <2>4
<1>9. Good(n)
  <2> HIDE DEF T
  <2>1. n \in T
    BY <1>7, <1>8, Induction
  <2>2. n \in 0..n
    OBVIOUS
  <2> QED BY <2>1, <2>2 DEF T
<1>10. In(n) = U \cap S
  BY DEF Once
<1> HIDE DEF In
<1> QED BY <1>2, <1>9, <1>10 DEF Good

(***************************************************************************)
(* One row of weight three.                                                *)
(***************************************************************************)

\* The words modulo S, S - 1 and S - 2.
LEMMA ModWordIn ==
  ASSUME NEW S \in Nat, S >= 3, NEW h \in [1..MaxWeight -> Nat], MaxWeight \in Nat, MaxWeight >= 3,
         NEW j \in 1..3
  PROVE  ModWord(h, j, S) \in 0..S - j
<1>1. h[j] \in Nat /\ S - (j - 1) \in Nat \ {0}
  OBVIOUS
<1>2. h[j] % (S - (j - 1)) \in 0..S - (j - 1) - 1
  BY <1>1
<1>3. S - (j - 1) - 1 = S - j
  OBVIOUS
<1> QED BY <1>2, <1>3 DEF ModWord

\* A lane of buildRow32 computes what buildRow does.
LEMMA LaneIsRow ==
  ASSUME NEW S \in Nat, S >= 3, NEW h \in [1..MaxWeight -> Nat], MaxWeight \in Nat, MaxWeight >= 3
  PROVE  BuildLane3(h, S) = BuildRow3(h, S)
<1> DEFINE r0 == ModWord(h, 1, S)
           r1 == ModWord(h, 2, S)
           r2 == ModWord(h, 3, S)
<1>1. r0 \in Int /\ r1 \in Int /\ r2 \in Int
  BY ModWordIn
<1> HIDE DEF r0, r1, r2
<1> DEFINE low == Least(r0, r1)
           high == r0 + r1 - low
           step == IF high = r1 THEN 1 ELSE 0
           mask == GtMask(r0, r1)
           max == Blend(mask, r0, r1)
           min == Blend(mask, r1, r0)
           eq == EqMask(max, r1)
<1>2. low = min /\ high = max
  BY <1>1 DEF Least, GtMask, Blend
<1>3. min \in Int /\ max \in Int
  BY <1>1 DEF GtMask, Blend
<1>4. eq = 0 - step /\ step \in Int
  BY <1>2 DEF EqMask
<1>5. \A c, b \in Int : c - SkipMask(c, b) = SkipFrom(c, b) /\ SkipFrom(c, b) \in Int
  BY DEF SkipMask, GtMask, NotMask, SkipFrom
<1> DEFINE c == r2 - SkipMask(r2, min)
<1>6. c = SkipFrom(r2, low) /\ c \in Int
  BY <1>1, <1>2, <1>3, <1>5
<1>7. max - eq = high + step /\ max - eq \in Int /\ r1 - eq = r1 + step
  BY <1>1, <1>2, <1>3, <1>4
<1> HIDE DEF low, high, step, mask, max, min, eq, c
<1>8. c - SkipMask(c, max - eq) = SkipFrom(SkipFrom(r2, low), high + step)
  BY <1>5, <1>6, <1>7
<1>9. BuildLane3(h, S) = <<r0, r1 - eq, c - SkipMask(c, max - eq)>>
  BY DEF BuildLane3, r0, r1, r2, eq, c, max, min, mask
<1>10. BuildRow3(h, S) = <<r0, r1 + step, SkipFrom(SkipFrom(r2, low), high + step)>>
  BY DEF BuildRow3, r0, r1, r2, step, low, high
<1> QED BY <1>7, <1>8, <1>9, <1>10

\* Its three columns are distinct and sparse.
LEMMA RowOfThreeApart ==
  ASSUME NEW S \in Nat, S >= 3, NEW h \in [1..MaxWeight -> Nat], MaxWeight \in Nat, MaxWeight >= 3
  PROVE  /\ Len(BuildRow3(h, S)) = 3 /\ IsInjective(BuildRow3(h, S))
         /\ Range(BuildRow3(h, S)) \subseteq Columns(S)
<1> DEFINE r0 == ModWord(h, 1, S)
           r1 == ModWord(h, 2, S)
           r2 == ModWord(h, 3, S)
           low == Least(r0, r1)
           high == r0 + r1 - low
           step == IF high = r1 THEN 1 ELSE 0
           last == SkipFrom(SkipFrom(r2, low), high + step)
<1>1. r0 \in 0..S - 1 /\ r1 \in 0..S - 2 /\ r2 \in 0..S - 3
  BY ModWordIn
<1>2. BuildRow3(h, S) = <<r0, r1 + step, last>>
  BY DEF BuildRow3
<1> HIDE DEF r0, r1, r2
<1>3. /\ r0 \in 0..S - 1 /\ r1 + step \in 0..S - 1 /\ last \in 0..S - 1
      /\ r0 # r1 + step /\ last # r0 /\ last # r1 + step
  <2>1. CASE r1 < r0
    <3>1. low = r1 /\ high = r0 /\ step = 0
      BY <1>1, <2>1 DEF Least
    <3> QED BY <1>1, <2>1, <3>1 DEF SkipFrom
  <2>2. CASE r0 <= r1
    <3>1. low = r0 /\ high = r1 /\ step = 1
      BY <1>1, <2>2 DEF Least
    <3> QED BY <1>1, <2>2, <3>1 DEF SkipFrom
  <2> QED BY <1>1, <2>1, <2>2
<1> HIDE DEF step, last
<1> DEFINE row == BuildRow3(h, S)
<1>4. Len(row) = 3 /\ DOMAIN row = 1..3 /\ row[1] = r0 /\ row[2] = r1 + step /\ row[3] = last
  BY <1>2
<1> HIDE DEF row
<1>5. IsInjective(row)
  BY <1>3, <1>4 DEF IsInjective
<1>6. Range(row) \subseteq Columns(S)
  BY <1>3, <1>4 DEF Range, Columns
<1> QED BY <1>4, <1>5, <1>6 DEF row

(***************************************************************************)
(* All rows.                                                               *)
(***************************************************************************)

\* What setInput may hash.
HashesOK == hash \in [Items -> HashChoices] /\ mWeight \in Weights

LEMMA BatchedIsRow ==
  ASSUME mWeight \in Weights, NEW n \in Nat, NEW hs \in [1..n -> HashChoices], NEW m \in 0..n
  PROVE  BuildRow32([i \in 1..m |-> hs[i]], mWeight, SparseSize)
           = [i \in 1..m |-> BuildRow(hs[i], mWeight, SparseSize)]
<1>1. ASSUME NEW i \in 1..m, mWeight = 3
      PROVE  BuildLane3(hs[i], SparseSize) = BuildRow(hs[i], mWeight, SparseSize)
  <2>1. hs[i] \in HashChoices
    OBVIOUS
  <2>2. hs[i] \in [1..MaxWeight -> Nat]
    BY <2>1, PaxosAssumption
  <2>3. MaxWeight \in Nat /\ MaxWeight >= 3 /\ SparseSize \in Nat /\ SparseSize >= 3
    BY <1>1, PaxosAssumption
  <2> QED BY <1>1, <2>2, <2>3, LaneIsRow DEF BuildRow
<1> QED BY <1>1 DEF BuildRow32

LEMMA MainLenIn == ASSUME NEW n \in Nat PROVE MainLen(n) \in 0..n
<1>1. Batch \in Nat \ {0}
  BY PaxosAssumption
<1> DEFINE q == n \div Batch
<1>2. q \in Nat /\ Batch * q <= n
  BY <1>1
<1>3. q * Batch = Batch * q /\ q * Batch \in Nat
  BY <1>1, <1>2
<1> QED BY <1>1, <1>2, <1>3 DEF MainLen

LEMMA RowsBuiltAre ==
  ASSUME mWeight \in Weights, NEW n \in Nat, NEW hs \in [1..n -> HashChoices]
  PROVE  RowsBuilt(hs) = [i \in 1..n |-> BuildRow(hs[i], mWeight, SparseSize)]
<1> DEFINE Row(i) == BuildRow(hs[i], mWeight, SparseSize)
           R == {Row(i) : i \in 1..n}
           first == [i \in 1..MainLen(n) |-> Row(i)]
           rest == [i \in 1..n - MainLen(n) |-> Row(MainLen(n) + i)]
<1>1. MainLen(n) \in 0..n
  BY MainLenIn
<1>2. RowsBuilt(hs) = first \o rest
  <2>1. Len(hs) = n
    OBVIOUS
  <2> QED BY <1>1, <2>1, BatchedIsRow DEF RowsBuilt
<1>3. \A i \in 1..MainLen(n) : i \in 1..n
  BY <1>1
<1>4. \A i \in 1..n - MainLen(n) : MainLen(n) + i \in 1..n
  BY <1>1
<1>5. first \in Seq(R) /\ Len(first) = MainLen(n)
  BY <1>1, <1>3
<1>6. rest \in Seq(R) /\ Len(rest) = n - MainLen(n)
  BY <1>1, <1>4
<1> HIDE DEF R
<1>7. first \o rest \in Seq(R) /\ Len(first \o rest) = n
  <2>1. PICK m \in 0..n : m = MainLen(n)
    BY <1>1
  <2>2. m + (n - m) = n
    OBVIOUS
  <2> HIDE DEF first, rest
  <2> QED BY <1>5, <1>6, <2>1, <2>2
<1>8. DOMAIN (first \o rest) = 1..n
  BY <1>1, <1>7
<1>9. ASSUME NEW i \in 1..n PROVE (first \o rest)[i] = Row(i)
  <2>1. CASE i <= MainLen(n)
    <3>1. i \in 1..MainLen(n) /\ (first \o rest)[i] = first[i]
      BY <1>1, <1>5, <1>6, <2>1
    <3> QED BY <3>1
  <2>2. CASE i > MainLen(n)
    <3>1. i - MainLen(n) \in 1..n - MainLen(n) /\ (first \o rest)[i] = rest[i - MainLen(n)]
      BY <1>1, <1>5, <1>6, <2>2
    <3>2. MainLen(n) + (i - MainLen(n)) = i
      BY <1>1
    <3> QED BY <3>1, <3>2
  <2> QED BY <1>1, <2>1, <2>2
<1> DEFINE all == first \o rest
<1> HIDE DEF first, rest, all, Row
<1>10. all = [i \in DOMAIN all |-> all[i]]
  <2>1. all \in Seq(R)
    BY <1>7 DEF all
  <2> QED BY <2>1
<1>11. all = [i \in 1..n |-> Row(i)]
  BY <1>8, <1>9, <1>10 DEF all
<1> QED BY <1>2, <1>11 DEF all, Row

\* So all rows.
LEMMA HashRowsAre ==
  ASSUME HashesOK
  PROVE  RowsBuilt(hash) = [i \in Items |-> BuildRow(hash[i], mWeight, SparseSize)]
<1>1. NumItems \in Nat /\ mWeight \in Weights /\ hash \in [1..NumItems -> HashChoices]
  BY PaxosAssumption DEF HashesOK, Items
<1> QED BY <1>1, RowsBuiltAre DEF Items

(***************************************************************************)
(* The invariant: mRows is what the hashes give, from setInput on.         *)
(***************************************************************************)
RowsInv == HashesOK /\ (rows # Nothing => rows = RowsBuilt(hash))

LEMMA RowsInvInit == Init => RowsInv
  BY DEF Init, RowsInv, HashesOK

LEMMA RowsInvNext ==
  ASSUME RowsInv, [Next]_vars
  PROVE  RowsInv'
<1>1. CASE SetInput
  <2>1. rows' = RowsBuilt(hash) /\ hash' = hash /\ mWeight' = mWeight
    BY <1>1 DEF SetInput, inputs
  <2> QED BY <2>1 DEF RowsInv, HashesOK, RowsBuilt
<1>2. ASSUME UNCHANGED <<hash, mWeight, rows>> PROVE RowsInv'
  BY <1>2 DEF RowsInv, HashesOK, RowsBuilt
<1>3. CASE TakeColumn
  BY <1>2, <1>3 DEF TakeColumn, inputs
<1>4. CASE ThrowColumn
  BY <1>2, <1>4 DEF ThrowColumn, inputs, weights
<1>5. CASE Triangulated
  BY <1>2, <1>5 DEF Triangulated, inputs, weights
<1>6. CASE SolveGap
  BY <1>2, <1>6 DEF SolveGap, inputs, weights
<1>7. CASE ThrowGap
  BY <1>2, <1>7 DEF ThrowGap, inputs, weights
<1>8. CASE Backfill
  BY <1>2, <1>8 DEF Backfill, inputs, weights
<1>9. CASE Ended \/ UNCHANGED vars
  BY <1>2, <1>9 DEF Ended, vars
<1> QED BY <1>1, <1>3, <1>4, <1>5, <1>6, <1>7, <1>8, <1>9 DEF Next

LEMMA RowsInvAlways == Spec => []RowsInv
  BY RowsInvInit, RowsInvNext, PTL DEF Spec

\* For every hash, size, weight and batch: encoder and decoder build the same
\* row for an item, whether in a batch or alone.
THEOREM PaxosRowsAgree == Spec => []RowsAgree
<1>1. RowsInv => RowsAgree
  <2> SUFFICES ASSUME RowsInv, NEW i \in Items
               PROVE  /\ BuildRow32(hash, mWeight, SparseSize)[i] = BuildRow(hash[i], mWeight, SparseSize)
                      /\ rows # Nothing => rows[i] = BuildRow(hash[i], mWeight, SparseSize)
    BY DEF RowsAgree
  <2>1. /\ NumItems \in Nat /\ mWeight \in Weights /\ hash \in [1..NumItems -> HashChoices]
        /\ NumItems \in 0..NumItems /\ hash = [j \in 1..NumItems |-> hash[j]]
    BY PaxosAssumption DEF RowsInv, HashesOK, Items
  <2>2. BuildRow32(hash, mWeight, SparseSize) = [j \in 1..NumItems |-> BuildRow(hash[j], mWeight, SparseSize)]
    BY <2>1, BatchedIsRow
  <2>3. RowsBuilt(hash)[i] = BuildRow(hash[i], mWeight, SparseSize)
    BY HashRowsAre DEF RowsInv
  <2> QED BY <2>2, <2>3 DEF RowsInv, Items
<1> QED BY <1>1, RowsInvAlways, PTL

(***************************************************************************)
(* A row of any other weight.                                              *)
(***************************************************************************)
\* The place of a column: all that it steps over, and no more.
Over(row, c, k) ==
  /\ k \in 0..Len(row) /\ \A l \in 1..k : row[l] <= c + l - 1
  /\ k < Len(row) => row[k + 1] > c + k
LEMMA InsertColumnIs ==
  ASSUME NEW row \in Seq(Int), NEW c \in Int
  PROVE  \E k : Over(row, c, k) /\ InsertColumn(row, c) = InsertAt(row, k + 1, c + k)
<1> DEFINE T == {k \in 0..Len(row) : k < Len(row) => row[k + 1] > c + k}
<1>1. PICK n \in Nat : n = Len(row)
  OBVIOUS
<1>2. \E k : Over(row, c, k)
  <2>1. n \in T /\ T \in SUBSET Nat
    BY <1>1
  <2>2. PICK k \in T : \A y \in T : k <= y
    <3> HIDE DEF T
    <3> QED BY <2>1, LeastOf
  <2>3. ASSUME NEW l \in 1..k PROVE row[l] <= c + l - 1
    <3>1. l - 1 \in 0..n /\ l - 1 < n /\ l \in 1..n /\ (l - 1) + 1 = l /\ l - 1 < k
      BY <1>1, <2>2
    <3>2. l - 1 \notin T
      <4> HIDE DEF T
      <4> QED BY <2>1, <2>2, <3>1
    <3>3. ~(row[l] > c + (l - 1)) /\ row[l] \in Int
      BY <1>1, <3>1, <3>2
    <3> QED BY <3>3
  <2> QED BY <2>2, <2>3 DEF Over
<1> DEFINE over == CHOOSE k \in 0..Len(row) : /\ \A l \in 1..k : row[l] <= c + l - 1
                                              /\ k < Len(row) => row[k + 1] > c + k
<1>3. Over(row, c, over)
  BY <1>2 DEF Over
<1>4. InsertColumn(row, c) = InsertAt(row, over + 1, c + over)
  BY DEF InsertColumn
<1> QED BY <1>3, <1>4

IsInsert(new, row, n, k, v) ==
  /\ new \in Seq(Int) /\ Len(new) = n + 1 /\ \A l \in 1..k : new[l] = row[l]
  /\ new[k + 1] = v /\ \A l \in k + 2..n + 1 : new[l] = row[l - 1]
LEMMA Inserted ==
  ASSUME NEW n \in Nat, NEW row \in Seq(Int), Len(row) = n, NEW k \in 0..n, NEW v \in Int
  PROVE  IsInsert(InsertAt(row, k + 1, v), row, n, k, v)
<1> DEFINE a == SubSeq(row, 1, k)
           b == SubSeq(row, k + 1, Len(row))
<1>1. n = Len(row) /\ n \in Nat /\ k \in Nat
  OBVIOUS
<1>2. a \in Seq(Int) /\ Len(a) = k /\ \A l \in 1..k : a[l] = row[l]
  BY <1>1
<1>3. b \in Seq(Int) /\ Len(b) = n - k /\ \A l \in 1..n - k : b[l] = row[k + l]
  BY <1>1
<1> DEFINE e == <<v>>
<1>4. e \in Seq(Int) /\ Len(e) = 1 /\ e[1] = v
  OBVIOUS
<1>5. InsertAt(row, k + 1, v) = (a \o e) \o b
  <2>1. (k + 1) - 1 = k
    BY <1>1
  <2> QED BY <2>1, Zenon DEF InsertAt
<1> HIDE DEF e
<1> HIDE DEF a, b
<1>6. PICK d \in Seq(Int) : d = a \o e /\ Len(d) = k + 1 /\ (\A l \in 1..k : d[l] = a[l]) /\ d[k + 1] = e[1]
  <2>1. IsJoin(a \o e, a, e, Len(a), Len(e), Int)
    BY <1>2, <1>4, Joined
  <2>2. 1 \in 1..1
    OBVIOUS
  <2> QED BY <1>2, <1>4, <2>1, <2>2 DEF IsJoin
<1>7. PICK g \in Seq(Int) :
        /\ g = d \o b /\ Len(g) = (k + 1) + (n - k) /\ \A l \in 1..k + 1 : g[l] = d[l]
        /\ \A l \in 1..n - k : g[(k + 1) + l] = b[l]
  <2>1. IsJoin(d \o b, d, b, Len(d), Len(b), Int)
    BY <1>3, <1>6, Joined
  <2>2. IsJoin(d \o b, d, b, k + 1, n - k, Int)
    BY <1>3, <1>6, <2>1
  <2> QED BY <2>2 DEF IsJoin
<1>8. ASSUME NEW l \in k + 2..n + 1 PROVE g[l] = row[l - 1]
  <2>1. l - (k + 1) \in 1..n - k /\ k + (l - (k + 1)) = l - 1 /\ (k + 1) + (l - (k + 1)) = l
    OBVIOUS
  <2> QED BY <1>3, <1>7, <2>1
<1>9. InsertAt(row, k + 1, v) = g
  BY <1>5, <1>6, <1>7
<1>10. Len(g) = n + 1 /\ g[k + 1] = v /\ \A l \in 1..k : g[l] = row[l]
  BY <1>2, <1>4, <1>6, <1>7
<1> QED BY <1>8, <1>9, <1>10 DEF IsInsert

\* Sorted columns below a bound.
Ascending(row, n, S) ==
  /\ row \in Seq(Int) /\ Len(row) = n /\ \A l \in 1..n : row[l] \in 0..S - 1
  /\ \A l, m \in 1..n : l < m => row[l] < row[m]
LEMMA InsertAscends ==
  ASSUME NEW n \in Nat, NEW S \in Nat, NEW row, Ascending(row, n, S), NEW c \in Int, c >= 0, c + n <= S - 1
  PROVE  Ascending(InsertColumn(row, c), n + 1, S)
<1>1. row \in Seq(Int) /\ Len(row) = n
  BY DEF Ascending
<1>2. PICK k \in 0..n : Over(row, c, k) /\ InsertColumn(row, c) = InsertAt(row, k + 1, c + k)
  BY <1>1, InsertColumnIs DEF Over
<1>3. PICK new : new = InsertColumn(row, c)
  OBVIOUS
<1>4. /\ new \in Seq(Int) /\ Len(new) = n + 1 /\ \A l \in 1..k : new[l] = row[l]
      /\ new[k + 1] = c + k /\ \A l \in k + 2..n + 1 : new[l] = row[l - 1]
  <2>1. c + k \in Int
    OBVIOUS
  <2>2. IsInsert(InsertAt(row, k + 1, c + k), row, n, k, c + k)
    BY <1>1, <2>1, Inserted
  <2> QED BY <1>2, <1>3, <2>2 DEF IsInsert
<1>5. /\ \A l \in 1..k : row[l] <= c + l - 1
      /\ k < n => row[k + 1] > c + k
  BY <1>1, <1>2 DEF Over
<1>6. \A l \in 1..n : row[l] \in 0..S - 1
  BY DEF Ascending
<1>7. \A l, m \in 1..n : l < m => row[l] < row[m]
  BY DEF Ascending
<1>8. ASSUME NEW l \in 1..n + 1 PROVE new[l] \in 0..S - 1
  <2>1. CASE l \in 1..k
    BY <1>4, <1>6, <2>1
  <2>2. CASE l = k + 1
    BY <1>4, <2>2
  <2>3. CASE l \in k + 2..n + 1
    <3>1. l - 1 \in 1..n
      BY <2>3
    <3> QED BY <1>4, <1>6, <2>3, <3>1
  <2> QED BY <2>1, <2>2, <2>3
<1>9. ASSUME NEW l \in 1..k PROVE new[l] = row[l] /\ l \in 1..n /\ row[l] \in Int /\ row[l] < c + k
  BY <1>4, <1>5, <1>6
<1>10. ASSUME NEW l \in k + 2..n + 1
       PROVE  new[l] = row[l - 1] /\ l - 1 \in 1..n /\ row[l - 1] \in Int /\ row[l - 1] > c + k
  <2>1. l - 1 \in 1..n /\ k + 1 \in 1..n /\ (l - 1 = k + 1 \/ k + 1 < l - 1) /\ k < n
    OBVIOUS
  <2>2. row[l - 1] \in Int /\ row[k + 1] \in Int
    BY <1>6, <2>1
  <2>3. row[k + 1] > c + k
    BY <1>5, <2>1
  <2>4. k + 1 < l - 1 => row[k + 1] < row[l - 1]
    BY <1>7, <2>1
  <2> QED BY <1>4, <2>1, <2>2, <2>3, <2>4
<1>11. ASSUME NEW l \in 1..n + 1, NEW m \in 1..n + 1, l < m PROVE new[l] < new[m]
  <2>1. CASE m \in 1..k
    <3>1. l \in 1..k
      BY <1>11, <2>1
    <3> QED BY <1>7, <1>9, <1>11, <2>1, <3>1
  <2>2. CASE m = k + 1
    <3>1. l \in 1..k
      BY <1>11, <2>2
    <3> QED BY <1>4, <1>9, <2>2, <3>1
  <2>3. CASE m \in k + 2..n + 1
    <3>1. CASE l \in 1..k
      BY <1>9, <1>10, <2>3, <3>1
    <3>2. CASE l = k + 1
      BY <1>4, <1>10, <2>3, <3>2
    <3>3. CASE l \in k + 2..n + 1
      <4>1. l - 1 < m - 1
        BY <1>11
      <4> QED BY <1>7, <1>10, <2>3, <3>3, <4>1
    <3> QED BY <3>1, <3>2, <3>3
  <2> QED BY <2>1, <2>2, <2>3
<1> QED BY <1>3, <1>4, <1>8, <1>11 DEF Ascending

Words(h, w) == \A j \in 1..w : h[j] \in Nat
LEMMA RowSortedIs ==
  ASSUME NEW w \in Nat, NEW S \in Nat, w <= S, NEW h, Words(h, w)
  PROVE  Ascending(BuildRowSorted(h, w, S), w, S)
<1> DEFINE Word(j) == ModWord(h, j, S)
           step == [j \in 1..w |-> [r \in Seq(Int) |-> InsertColumn(r, Word(j))]]
           Is(p) == p = [j \in 0..w |-> IF j = 0 THEN <<>> ELSE InsertColumn(p[j - 1], ModWord(h, j, S))]
           built == CHOOSE p : Is(p)
<1>1. ASSUME NEW j \in 1..w PROVE Word(j) \in Int /\ Word(j) >= 0 /\ Word(j) + j <= S
  <2>1. h[j] \in Nat /\ S - (j - 1) \in Nat \ {0}
    BY DEF Words
  <2>2. h[j] % (S - (j - 1)) \in 0..S - (j - 1) - 1
    BY <2>1
  <2> QED BY <2>2 DEF ModWord
<1>w. \A j \in 0..w : Word(j) = ModWord(h, j, S)
  OBVIOUS
<1>d. BuildRowSorted(h, w, S) = built[w]
  BY DEF BuildRowSorted
<1> HIDE DEF Word
<1>2. ASSUME NEW j \in 1..w, NEW r \in Seq(Int) PROVE InsertColumn(r, Word(j)) \in Seq(Int)
  <2>1. PICK c \in Int : c = Word(j)
    BY <1>1
  <2>2. PICK k \in 0..Len(r) : InsertColumn(r, c) = InsertAt(r, k + 1, c + k)
    BY InsertColumnIs DEF Over
  <2>3. PICK n \in Nat : n = Len(r)
    OBVIOUS
  <2>4. c + k \in Int /\ k \in 0..n
    BY <2>3
  <2>5. IsInsert(InsertAt(r, k + 1, c + k), r, n, k, c + k)
    BY <2>3, <2>4, Inserted
  <2> QED BY <2>1, <2>2, <2>5 DEF IsInsert
<1>3. step \in [1..w -> [Seq(Int) -> Seq(Int)]]
  BY <1>2
<1>4. PICK g : Follows(g, w, Seq(Int), <<>>, step)
  <2>1. <<>> \in Seq(Int)
    OBVIOUS
  <2> HIDE DEF step
  <2> QED BY <1>3, <2>1, Recursion
<1>5. \A j \in 1..w : g[j] = InsertColumn(g[j - 1], Word(j))
  <2>1. \A j \in 1..w : j - 1 \in 0..w
    OBVIOUS
  <2>2. \A j \in 1..w : g[j] = step[j][g[j - 1]] /\ g[j - 1] \in Seq(Int)
    <3> HIDE DEF step
    <3> QED BY <1>4, <2>1 DEF Follows
  <2> QED BY <2>2
<1>6. Is(g)
  <2>1. g = [j \in 0..w |-> g[j]] /\ g[0] = <<>>
    BY <1>4 DEF Follows
  <2>2. \A j \in 0..w : j # 0 => j \in 1..w
    OBVIOUS
  <2>3. \A j \in 0..w : g[j] = IF j = 0 THEN <<>> ELSE InsertColumn(g[j - 1], ModWord(h, j, S))
    BY <1>5, <1>w, <2>1, <2>2
  <2> QED BY <2>1, <2>3
<1>7. Is(built)
  <2> HIDE DEF Is
  <2> QED BY <1>6
<1>8. built[0] = <<>> /\ \A j \in 1..w : built[j] = InsertColumn(built[j - 1], Word(j))
  <2>1. built = [j \in 0..w |-> IF j = 0 THEN <<>> ELSE InsertColumn(built[j - 1], ModWord(h, j, S))]
    BY <1>7
  <2> HIDE DEF built
  <2>2. \A j \in 1..w : j \in 0..w /\ j # 0
    OBVIOUS
  <2>3. 0 \in 0..w
    OBVIOUS
  <2> QED BY <1>w, <2>1, <2>2, <2>3
<1> HIDE DEF built
<1> DEFINE T == {j \in Nat : j \in 0..w => Ascending(built[j], j, S)}
<1>10. 0 \in T
  <2>1. Ascending(<<>>, 0, S)
    BY DEF Ascending
  <2> QED BY <1>8, <2>1
<1>11. ASSUME NEW j \in Nat, j \in T PROVE j + 1 \in T
  <2> SUFFICES ASSUME j + 1 \in 0..w PROVE Ascending(built[j + 1], j + 1, S)
    OBVIOUS
  <2>1. j + 1 \in 1..w /\ j \in 0..w /\ (j + 1) - 1 = j
    OBVIOUS
  <2>2. PICK c \in Int : c = Word(j + 1) /\ c >= 0 /\ c + j <= S - 1
    BY <1>1, <2>1
  <2>3. built[j + 1] = InsertColumn(built[j], c)
    BY <1>8, <2>1, <2>2
  <2> QED BY <1>11, <2>1, <2>2, <2>3, InsertAscends
<1>12. w \in T
  <2> HIDE DEF T
  <2> QED BY <1>10, <1>11, Induction
<1> QED BY <1>d, <1>12

\* What setInput builds: rows of distinct sparse columns.
RowsAre(built) == \A i \in Items : \E U \in SUBSET Cols : Once(built[i], mWeight, U)
LEMMA RowsBuiltApart == RowsInv => RowsAre(RowsBuilt(hash))
<1> SUFFICES ASSUME RowsInv, NEW i \in Items PROVE \E U \in SUBSET Cols : Once(RowsBuilt(hash)[i], mWeight, U)
  BY DEF RowsAre
<1>1. mWeight \in 2..MaxWeight /\ MaxWeight \in Nat /\ SparseSize \in Nat /\ SparseSize >= MaxWeight
  BY PaxosAssumption DEF RowsInv, HashesOK
<1>2. hash[i] \in [1..MaxWeight -> Nat]
  BY PaxosAssumption DEF RowsInv, HashesOK
<1>3. PICK row : row = RowsBuilt(hash)[i] /\ row = BuildRow(hash[i], mWeight, SparseSize)
  BY HashRowsAre DEF RowsInv
<1>4. CASE mWeight = 3
  <2>1. row = BuildRow3(hash[i], SparseSize)
    BY <1>3, <1>4 DEF BuildRow
  <2>2. Len(row) = 3 /\ IsInjective(row) /\ Range(row) \subseteq Cols
    BY <1>1, <1>2, <1>4, <2>1, RowOfThreeApart DEF Cols
  <2>3. row = <<row[1], row[2], row[3]>> /\ DOMAIN row = 1..3
    BY <2>1 DEF BuildRow3
  <2>4. row \in Seq(Range(row))
    <3>1. PICK a \in Range(row), b \in Range(row), c \in Range(row) : a = row[1] /\ b = row[2] /\ c = row[3]
      BY <2>3 DEF Range
    <3>2. <<a, b, c>> \in Seq(Range(row))
      OBVIOUS
    <3> QED BY <2>3, <3>1, <3>2
  <2>5. Once(row, 3, Range(row))
    BY <2>2, <2>3, <2>4 DEF Once, IsInjective, Range
  <2> QED BY <1>3, <1>4, <2>2, <2>5
<1>5. CASE mWeight # 3
  <2>1. PICK w \in Nat : w = mWeight /\ w <= SparseSize /\ w <= MaxWeight
    BY <1>1
  <2>2. \A j \in 1..w : hash[i][j] \in Nat
    BY <1>1, <1>2, <2>1
  <2>3. Ascending(row, w, SparseSize)
    BY <1>1, <1>3, <1>5, <2>1, <2>2, RowSortedIs DEF BuildRow, Words
  <2>4. row \in Seq(Int) /\ Len(row) = w /\ DOMAIN row = 1..w /\ \A l \in 1..w : row[l] \in Cols
    BY <2>3 DEF Ascending, Cols, Columns
  <2>5. \A l, m \in 1..w : row[l] = row[m] => l = m
    <3>1. \A l, m \in 1..w : l < m => row[l] < row[m]
      BY <2>3 DEF Ascending
    <3> QED BY <2>4, <3>1 DEF Cols, Columns
  <2> DEFINE U == Range(row)
  <2>6. U \in SUBSET Cols /\ row \in Seq(U) /\ \A u \in U : \E l \in 1..w : row[l] = u
    BY <2>4 DEF Range
  <2> HIDE DEF U
  <2>7. Once(row, w, U)
    BY <2>4, <2>5, <2>6 DEF Once
  <2> QED BY <1>3, <2>1, <2>6, <2>7
<1> QED BY <1>4, <1>5

\* For every hash, size and weight, an item's row is of as many distinct
\* sparse columns.
THEOREM PaxosRowsApart == Spec => []RowsApart
<1>1. RowsInv => RowsApart
  <2> SUFFICES ASSUME RowsInv, rows # Nothing, NEW i \in Items
               PROVE  /\ Len(rows[i]) = mWeight /\ IsInjective(rows[i])
                      /\ Range(rows[i]) \subseteq Cols
    BY DEF RowsApart
  <2>1. PICK U \in SUBSET Cols : Once(rows[i], mWeight, U)
    BY RowsBuiltApart DEF RowsInv, RowsAre
  <2>2. mWeight \in Nat
    BY PaxosAssumption DEF RowsInv, HashesOK
  <2>3. Len(rows[i]) = mWeight
    BY <2>1 DEF Once
  <2>4. IsInjective(rows[i]) /\ Range(rows[i]) = U
    BY <2>1, <2>2, OnceDomain
  <2> QED BY <2>1, <2>3, <2>4
<1> QED BY <1>1, RowsInvAlways, PTL

(***************************************************************************)
(* WeightData: the lists of a set T of columns, each in that of its weight *)
(* w[c], of which the last is not empty.                                   *)
(***************************************************************************)
IsList(list, U) == \E m \in Nat : Once(list, m, U)
At(T, w, k) == {c \in T : w[c] = k - 1}
WeightLists(s, n, T, w) ==
  /\ T \subseteq Cols /\ w \in [Cols -> Nat]
  /\ s \in Seq(Seq(Cols)) /\ Len(s) = n
  /\ \A k \in 1..n : IsList(s[k], At(T, w, k))
  /\ \A c \in T : w[c] + 1 \in 1..n
  /\ n > 0 => s[n] # <<>>

IsTrim(t, m, s, n) ==
  /\ t \in Seq(Seq(Cols)) /\ Len(t) = m /\ m \in 0..n
  /\ \A k \in 1..m : t[k] = s[k]
  /\ \A k \in m + 1..n : s[k] = <<>>
  /\ m > 0 => t[m] # <<>>
LEMMA Trimmed ==
  ASSUME NEW n \in Nat, NEW s \in Seq(Seq(Cols)), Len(s) = n
  PROVE  \E m \in Nat : IsTrim(Trim(s), m, s, n)
<1> DEFINE used == {k \in DOMAIN s : s[k] # <<>>}
           m == CHOOSE k \in 0..Len(s) : (k = 0 \/ k \in used) /\ \A j \in used : j <= k
           T == {k \in 0..n : \A j \in used : j <= k}
<1>1. used \subseteq 1..n
  OBVIOUS
<1>2. n \in T
  BY <1>1
<1>3. PICK k \in T : \A y \in T : k <= y
  <2>1. T \in SUBSET Nat
    OBVIOUS
  <2> HIDE DEF T
  <2> QED BY <1>2, <2>1, LeastOf
<1>4. k = 0 \/ k \in used
  <2> SUFFICES ASSUME k # 0, k \notin used PROVE FALSE
    OBVIOUS
  <2>1. k - 1 \in 0..n /\ ~(k <= k - 1) /\ k \in 0..n
    BY <1>3
  <2>2. \A j \in used : j <= k - 1
    <3>1. \A j \in used : j <= k /\ j # k /\ j \in 1..n
      BY <1>1, <1>3
    <3> HIDE DEF used
    <3> QED BY <2>1, <3>1
  <2>3. k - 1 \in T
    BY <2>1, <2>2
  <2> HIDE DEF T
  <2> QED BY <1>3, <2>1, <2>3
<1>5. m \in 0..n /\ (m = 0 \/ m \in used) /\ \A j \in used : j <= m
  <2>1. k \in 0..Len(s) /\ \A j \in used : j <= k
    BY <1>3
  <2> HIDE DEF used
  <2> QED BY <1>4, <2>1
<1>6. Trim(s) = SubSeq(s, 1, m)
  BY DEF Trim
<1> HIDE DEF m
<1>7. PICK t : t = SubSeq(s, 1, m) /\ t \in Seq(Seq(Cols)) /\ Len(t) = m /\ \A i \in 1..m : t[i] = s[i]
  <2>1. PICK V : V = Seq(Cols)
    OBVIOUS
  <2>2. s \in Seq(V)
    BY <2>1
  <2>3. SubSeq(s, 1, m) \in Seq(V) /\ Len(SubSeq(s, 1, m)) = m /\ \A i \in 1..m : SubSeq(s, 1, m)[i] = s[i]
    BY <1>5, <2>2
  <2> QED BY <2>1, <2>3
<1>8. \A i \in m + 1..n : s[i] = <<>>
  <2> SUFFICES ASSUME NEW i \in m + 1..n, s[i] # <<>> PROVE FALSE
    OBVIOUS
  <2>1. i \in 1..n /\ ~(i <= m)
    BY <1>5
  <2>2. i \in used
    BY <2>1
  <2> HIDE DEF used
  <2> QED BY <1>5, <2>1, <2>2
<1>9. m > 0 => t[m] # <<>>
  BY <1>5, <1>7
<1>10. IsTrim(t, m, s, n)
  BY <1>5, <1>7, <1>8, <1>9 DEF IsTrim
<1> QED BY <1>5, <1>6, <1>7, <1>10

\* popNode takes the column out of its list.
LEMMA PopNodeIs ==
  ASSUME NEW n \in Nat, NEW s, NEW T, NEW w, WeightLists(s, n, T, w), NEW c \in T
  PROVE  \E m \in Nat : WeightLists(PopNode(s, c, w[c]), m, T \ {c}, w)
<1> DEFINE r == [k \in DOMAIN s |-> IF k = w[c] + 1 THEN Kept(s[k], Cols \ {c}) ELSE s[k]]
           U == T \ {c}
<1>1. /\ T \subseteq Cols /\ w \in [Cols -> Nat] /\ s \in Seq(Seq(Cols)) /\ Len(s) = n
      /\ \A k \in 1..n : IsList(s[k], At(T, w, k))
      /\ \A a \in T : w[a] + 1 \in 1..n
  BY DEF WeightLists
<1>2. PopNode(s, c, w[c]) = Trim(r)
  BY DEF PopNode
<1>3. ASSUME NEW k \in 1..n PROVE IsList(r[k], At(U, w, k))
  <2>1. CASE k = w[c] + 1
    <3>1. PICK m \in Nat : Once(s[k], m, At(T, w, k))
      BY <1>1 DEF IsList
    <3>2. PICK j \in Nat : Once(Kept(s[k], Cols \ {c}), j, At(T, w, k) \cap (Cols \ {c}))
      BY <3>1, KeptOnce
    <3>3. At(T, w, k) \cap (Cols \ {c}) = At(U, w, k)
      BY <1>1 DEF At
    <3>4. r[k] = Kept(s[k], Cols \ {c})
      BY <1>1, <2>1
    <3> QED BY <3>2, <3>3, <3>4 DEF IsList
  <2>2. CASE k # w[c] + 1
    <3>1. w[c] # k - 1
      BY <1>1, <2>2
    <3>2. At(U, w, k) = At(T, w, k)
      BY <3>1 DEF At
    <3>3. r[k] = s[k]
      BY <1>1, <2>2
    <3> QED BY <1>1, <3>2, <3>3
  <2> QED BY <2>1, <2>2
<1>4. \A list, k : IsList(list, At(U, w, k)) => list \in Seq(Cols)
  <2> SUFFICES ASSUME NEW list, NEW k, IsList(list, At(U, w, k)) PROVE list \in Seq(Cols)
    OBVIOUS
  <2>1. list \in Seq(At(U, w, k))
    BY DEF IsList, Once
  <2>2. At(U, w, k) \subseteq Cols
    BY <1>1 DEF At
  <2> QED BY <2>1, <2>2, SeqMonotonic
<1>5. r \in Seq(Seq(Cols)) /\ Len(r) = n
  <2>1. \A k \in 1..n : r[k] \in Seq(Cols)
    <3> HIDE DEF r, U
    <3> QED BY <1>3, <1>4
  <2>2. DOMAIN s = 1..n
    BY <1>1
  <2>3. r = [k \in 1..n |-> r[k]]
    BY <2>2
  <2> HIDE DEF r
  <2>4. [k \in 1..n |-> r[k]] \in Seq(Seq(Cols)) /\ Len([k \in 1..n |-> r[k]]) = n
    BY <2>1
  <2> QED BY <2>3, <2>4
<1> HIDE DEF r
<1>6. PICK m \in Nat : IsTrim(Trim(r), m, r, n)
  BY <1>5, Trimmed
<1>7. PICK t : t = Trim(r) /\ IsTrim(t, m, r, n)
  BY <1>6
<1>8. m \in 0..n /\ \A k \in 1..m : k \in 1..n
  BY <1>7 DEF IsTrim
<1>9. \A k \in 1..m : IsList(t[k], At(U, w, k))
  BY <1>3, <1>7, <1>8 DEF IsTrim
<1>10. ASSUME NEW a \in U PROVE w[a] + 1 \in 1..m
  <2>1. w[a] + 1 \in 1..n /\ w[a] \in Nat /\ (w[a] + 1) - 1 = w[a]
    BY <1>1
  <2> SUFFICES ASSUME w[a] + 1 \in m + 1..n PROVE FALSE
    BY <1>8, <2>1
  <2>2. r[w[a] + 1] = <<>>
    BY <1>7 DEF IsTrim
  <2>3. PICK j \in Nat : Once(r[w[a] + 1], j, At(U, w, w[a] + 1))
    BY <1>3, <2>1 DEF IsList
  <2>4. a \in At(U, w, w[a] + 1)
    BY <2>1 DEF At
  <2>5. PICK b \in 1..j : r[w[a] + 1][b] = a
    BY <2>3, <2>4 DEF Once
  <2>6. j = 0
    BY <2>2, <2>3 DEF Once
  <2> QED BY <2>5, <2>6
<1>11. WeightLists(t, m, U, w)
  BY <1>1, <1>7, <1>9, <1>10 DEF IsTrim, WeightLists
<1> QED BY <1>2, <1>7, <1>11

\* pushNode puts it into the list of a weight, and makes that list.
LEMMA PushNodeIs ==
  ASSUME NEW n \in Nat, NEW s, NEW T, NEW w, WeightLists(s, n, T, w), NEW c \in Cols, c \notin T, NEW v \in Nat
  PROVE  \E m \in Nat : WeightLists(PushNode(s, c, v), m, T \cup {c}, [w EXCEPT ![c] = v])
<1> DEFINE size == IF Len(s) <= v THEN v + 1 ELSE Len(s)
           wide == [k \in 1..size |-> IF k <= Len(s) THEN s[k] ELSE <<>>]
           U == T \cup {c}
           x == [w EXCEPT ![c] = v]
           new == [wide EXCEPT ![v + 1] = <<c>> \o @]
<1>1. /\ T \subseteq Cols /\ w \in [Cols -> Nat] /\ s \in Seq(Seq(Cols)) /\ Len(s) = n
      /\ \A k \in 1..n : IsList(s[k], At(T, w, k))
      /\ \A a \in T : w[a] + 1 \in 1..n
      /\ n > 0 => s[n] # <<>>
  BY DEF WeightLists
<1>2. PushNode(s, c, v) = new
  BY DEF PushNode
<1>3. PICK m \in Nat : m = size /\ n <= m /\ v + 1 \in 1..m /\ (m = n \/ m = v + 1)
  BY <1>1
<1>4. x \in [Cols -> Nat] /\ x[c] = v /\ U \subseteq Cols /\ \A a \in T : x[a] = w[a]
  BY <1>1
<1>5. ASSUME NEW k \in 1..m PROVE IsList(wide[k], At(T, w, k))
  <2>1. CASE k <= n
    BY <1>1, <1>3, <2>1
  <2>2. CASE k > n
    <3>1. wide[k] = <<>>
      BY <1>1, <1>3, <2>2
    <3>2. At(T, w, k) = {}
      <4>1. \A a \in T : w[a] \in Nat /\ w[a] + 1 \in 1..n
        BY <1>1
      <4>2. \A a \in T : w[a] # k - 1
        BY <2>2, <4>1
      <4> QED BY <4>2 DEF At
    <3>3. Once(wide[k], 0, At(T, w, k))
      BY <3>1, <3>2, OnceEmpty
    <3> QED BY <3>3 DEF IsList
  <2> QED BY <2>1, <2>2
<1>6. DOMAIN wide = 1..m
  BY <1>3
<1>7. new[v + 1] = <<c>> \o wide[v + 1] /\ \A k \in 1..m : k # v + 1 => new[k] = wide[k]
  <2> HIDE DEF wide
  <2> QED BY <1>3, <1>6
<1>8. new = [k \in 1..m |-> new[k]]
  <2> HIDE DEF wide
  <2> QED BY <1>6
<1>9. m > n => wide[m] = <<>>
  BY <1>1, <1>3
<1>10. m = n => wide[m] = s[m]
  BY <1>1, <1>3
<1> HIDE DEF wide, new, x, size
<1>11. ASSUME NEW k \in 1..m PROVE IsList(new[k], At(U, x, k))
  <2>1. CASE k = v + 1
    <3>1. PICK j \in Nat : Once(wide[k], j, At(T, w, k))
      BY <1>5 DEF IsList
    <3>2. Once(<<c>>, 1, {c}) /\ {c} \cap At(T, w, k) = {}
      BY OnceOne DEF At
    <3>3. Once(<<c>> \o wide[k], 1 + j, {c} \cup At(T, w, k))
      BY <3>1, <3>2, OnceJoin
    <3>4. {c} \cup At(T, w, k) = At(U, x, k)
      BY <1>4, <2>1 DEF At
    <3>5. new[k] = <<c>> \o wide[k]
      BY <1>7, <2>1
    <3>6. 1 + j \in Nat
      OBVIOUS
    <3> QED BY <3>3, <3>4, <3>5, <3>6 DEF IsList
  <2>2. CASE k # v + 1
    <3>1. At(U, x, k) = At(T, w, k)
      <4>1. x[c] # k - 1
        BY <1>4, <2>2
      <4> QED BY <1>4, <4>1 DEF At
    <3> QED BY <1>5, <1>7, <2>2, <3>1
  <2> QED BY <2>1, <2>2
<1>12. new \in Seq(Seq(Cols)) /\ Len(new) = m
  <2>1. ASSUME NEW k \in 1..m PROVE new[k] \in Seq(Cols)
    <3>1. new[k] \in Seq(At(U, x, k))
      BY <1>11 DEF IsList, Once
    <3>2. At(U, x, k) \subseteq Cols
      BY <1>4 DEF At
    <3> QED BY <3>1, <3>2, SeqMonotonic
  <2>2. [k \in 1..m |-> new[k]] \in Seq(Seq(Cols)) /\ Len([k \in 1..m |-> new[k]]) = m
    BY <2>1
  <2> QED BY <1>8, <2>2
<1>13. \A a \in U : x[a] + 1 \in 1..m
  BY <1>1, <1>3, <1>4
<1>14. new[m] # <<>>
  <2>1. CASE m = v + 1
    <3>1. m \in 1..m
      BY <2>1
    <3>2. PICK j \in Nat : Once(new[m], j, At(U, x, m))
      BY <1>11, <3>1 DEF IsList
    <3>3. c \in At(U, x, m)
      BY <1>4, <2>1 DEF At
    <3>4. Len(new[m]) = j /\ \A u \in At(U, x, m) : \E b \in 1..j : new[m][b] = u
      BY <3>2 DEF Once
    <3>5. \E b \in 1..j : new[m][b] = c
      BY <3>3, <3>4
    <3>6. j # 0
      BY <3>5
    <3> QED BY <3>4, <3>6
  <2>2. CASE m # v + 1
    <3>1. m = n /\ m \in 1..m
      BY <1>3, <2>2
    <3>2. new[m] = s[m] /\ m > 0
      BY <1>7, <1>10, <2>2, <3>1
    <3> QED BY <1>1, <3>1, <3>2
  <2> QED BY <2>1, <2>2
<1>15. WeightLists(new, m, U, x)
  BY <1>4, <1>11, <1>12, <1>13, <1>14 DEF WeightLists
<1> QED BY <1>2, <1>15 DEF x

\* rebuildColumns and WeightData::init list every column.
LEMMA PushAllIs ==
  ASSUME NEW w \in [Cols -> Nat]
  PROVE  \E m \in Nat : WeightLists(PushAll(w), m, Cols, w)
<1> DEFINE V == Seq(Seq(Cols))
           S == SparseSize
           step == [k \in 1..S |-> [s \in V |-> PushNode(s, k - 1, w[k - 1])]]
           Is(p) == p = [k \in 0..SparseSize |-> IF k = 0 THEN <<>> ELSE PushNode(p[k - 1], k - 1, w[k - 1])]
           f == CHOOSE p : Is(p)
<1>1. S \in Nat
  BY PaxosAssumption
<1>2. \A k \in 1..S : k - 1 \in Cols
  BY <1>1 DEF Cols, Columns
<1>3. PushAll(w) = f[S]
  BY DEF PushAll
<1>4. ASSUME NEW c \in Cols, NEW v \in Nat, NEW s \in V PROVE PushNode(s, c, v) \in V
  <2> DEFINE size == IF Len(s) <= v THEN v + 1 ELSE Len(s)
             wide == [k \in 1..size |-> IF k <= Len(s) THEN s[k] ELSE <<>>]
             new == [wide EXCEPT ![v + 1] = <<c>> \o @]
  <2>1. PICK n \in Nat : n = Len(s)
    OBVIOUS
  <2>2. PICK m \in Nat : m = size
    <3>1. size = IF n <= v THEN v + 1 ELSE n
      BY <2>1
    <3>2. (IF n <= v THEN v + 1 ELSE n) \in Nat
      OBVIOUS
    <3> QED BY <3>1, <3>2
  <2>3. \A k \in 1..m : wide[k] \in Seq(Cols)
    <3>1. <<>> \in Seq(Cols)
      OBVIOUS
    <3>2. \A k \in 1..n : s[k] \in Seq(Cols)
      BY <2>1
    <3> QED BY <2>1, <2>2, <3>1, <3>2
  <2>4. <<c>> \in Seq(Cols)
    OBVIOUS
  <2>5. DOMAIN wide = 1..m
    BY <2>2
  <2> HIDE DEF wide
  <2>6. \A k \in 1..m : new[k] = IF k = v + 1 THEN <<c>> \o wide[k] ELSE wide[k]
    BY <2>5
  <2>7. \A l \in Seq(Cols) : <<c>> \o l \in Seq(Cols)
    BY <2>4, ConcatProperties
  <2>8. \A k \in 1..m : new[k] \in Seq(Cols)
    BY <2>3, <2>6, <2>7
  <2>9. new = [k \in 1..m |-> new[k]]
    BY <2>5
  <2>10. PushNode(s, c, v) = new
    BY DEF PushNode, wide
  <2> HIDE DEF new
  <2>11. [k \in 1..m |-> new[k]] \in V
    BY <2>8
  <2> QED BY <2>9, <2>10, <2>11
<1>5. step \in [1..S -> [V -> V]]
  <2>1. \A k \in 1..S : w[k - 1] \in Nat
    BY <1>2
  <2> HIDE DEF V
  <2>2. \A k \in 1..S, s \in V : PushNode(s, k - 1, w[k - 1]) \in V
    BY <1>2, <1>4, <2>1
  <2> QED BY <2>2
<1>6. PICK g : Follows(g, S, V, <<>>, step)
  <2>1. <<>> \in V
    OBVIOUS
  <2> HIDE DEF step, V, S
  <2> QED BY <1>1, <1>5, <2>1, Recursion
<1>7. Is(g)
  <2>1. g = [k \in 0..S |-> g[k]] /\ g[0] = <<>>
    BY <1>6 DEF Follows
  <2>2. ASSUME NEW k \in 1..S PROVE g[k] = PushNode(g[k - 1], k - 1, w[k - 1])
    <3>1. k - 1 \in 0..S
      BY <1>1
    <3>2. g[k] = step[k][g[k - 1]] /\ g[k - 1] \in V
      <4> HIDE DEF step, V, S
      <4> QED BY <1>6, <3>1 DEF Follows
    <3> HIDE DEF V
    <3> QED BY <3>2
  <2>3. \A k \in 0..S : k # 0 => k \in 1..S
    OBVIOUS
  <2>4. \A k \in 0..S : g[k] = IF k = 0 THEN <<>> ELSE PushNode(g[k - 1], k - 1, w[k - 1])
    BY <2>1, <2>2, <2>3
  <2> QED BY <2>1, <2>4
<1>8. f[0] = <<>> /\ \A k \in 1..S : f[k] = PushNode(f[k - 1], k - 1, w[k - 1])
  <2>1. Is(f)
    <3> HIDE DEF Is
    <3> QED BY <1>7
  <2>2. f = [k \in 0..S |-> IF k = 0 THEN <<>> ELSE PushNode(f[k - 1], k - 1, w[k - 1])]
    BY <2>1
  <2>3. 0 \in 0..S /\ \A k \in 1..S : k \in 0..S /\ k # 0
    BY <1>1
  <2> HIDE DEF f, S
  <2> QED BY <2>2, <2>3
<1> HIDE DEF f, V, S
<1> DEFINE First(k) == {c \in Cols : c < k}
           Good(k) == \E m \in Nat : WeightLists(f[k], m, First(k), w)
           T == {k \in Nat : k \in 0..S => Good(k)}
<1> HIDE DEF Good
<1>9. 0 \in T
  <2>1. First(0) = {}
    BY <1>1 DEF Cols, Columns
  <2>2. WeightLists(<<>>, 0, {}, w)
    BY DEF WeightLists
  <2>3. Good(0)
    <3> HIDE DEF First
    <3> QED BY <1>8, <2>1, <2>2 DEF Good
  <2> QED BY <2>3
<1>10. ASSUME NEW k \in Nat, k \in T PROVE k + 1 \in T
  <2> SUFFICES ASSUME k + 1 \in 0..S PROVE Good(k + 1)
    OBVIOUS
  <2>1. k \in 0..S /\ k + 1 \in 1..S /\ (k + 1) - 1 = k /\ k \in Cols
    BY <1>1 DEF Cols, Columns, S
  <2>2. PICK m \in Nat : WeightLists(f[k], m, First(k), w)
    <3> HIDE DEF First
    <3> QED BY <1>10, <2>1 DEF Good
  <2>3. k \notin First(k) /\ First(k + 1) = First(k) \cup {k}
    BY <2>1 DEF Cols, Columns
  <2> HIDE DEF First
  <2>4. f[k + 1] = PushNode(f[k], k, w[k]) /\ w[k] \in Nat
    BY <1>8, <2>1
  <2>5. \E j \in Nat : WeightLists(PushNode(f[k], k, w[k]), j, First(k) \cup {k}, [w EXCEPT ![k] = w[k]])
    BY <2>1, <2>2, <2>3, <2>4, PushNodeIs
  <2>6. [w EXCEPT ![k] = w[k]] = w
    BY <2>1
  <2> QED BY <2>3, <2>4, <2>5, <2>6 DEF Good
<1>11. Good(S)
  <2> HIDE DEF T
  <2>1. S \in T
    BY <1>1, <1>9, <1>10, Induction
  <2>2. S \in 0..S
    BY <1>1
  <2> QED BY <2>1, <2>2 DEF T
<1>12. First(S) = Cols
  BY <1>1 DEF Cols, Columns, S
<1> HIDE DEF First
<1> QED BY <1>3, <1>11, <1>12 DEF Good

\* getMinWeightNode: a column of the least weight over zero.
LEMMA MinWeightNodeIs ==
  ASSUME NEW n \in Nat, n > 1, NEW s, NEW T, NEW w, WeightLists(s, n, T, w)
  PROVE  LET c == MinWeightNode(s) IN c \in T /\ w[c] > 0 /\ \A b \in T : w[b] = 0 \/ w[c] <= w[b]
<1> DEFINE K == {k \in 2..n : s[k] # <<>>}
           FirstList(k) == k \in 2..Len(s) /\ s[k] # <<>> /\ \A j \in 2..k - 1 : s[j] = <<>>
           k == CHOOSE k \in 2..Len(s) : s[k] # <<>> /\ \A j \in 2..k - 1 : s[j] = <<>>
<1>1. /\ T \subseteq Cols /\ w \in [Cols -> Nat] /\ s \in Seq(Seq(Cols)) /\ Len(s) = n
      /\ \A i \in 1..n : IsList(s[i], At(T, w, i))
      /\ \A a \in T : w[a] + 1 \in 1..n
      /\ n > 0 => s[n] # <<>>
  BY DEF WeightLists
<1>2. n \in K /\ K \in SUBSET Nat
  BY <1>1
<1>3. PICK m \in K : \A y \in K : m <= y
  <2> HIDE DEF K
  <2> QED BY <1>2, LeastOf
<1>4. FirstList(m)
  <2>1. ASSUME NEW j \in 2..m - 1, s[j] # <<>> PROVE FALSE
    <3>1. j \in 2..n /\ ~(m <= j)
      BY <1>3
    <3>2. j \in K
      BY <2>1, <3>1
    <3> HIDE DEF K
    <3> QED BY <1>3, <3>1, <3>2
  <2> QED BY <1>1, <1>3, <2>1
<1>5. FirstList(k)
  BY <1>4
<1>6. MinWeightNode(s) = Head(s[k])
  BY DEF MinWeightNode
<1> HIDE DEF k
<1>7. k \in 1..n /\ k \in Nat /\ k >= 2
  BY <1>1, <1>5
<1>8. PICK l : l = s[k] /\ IsList(l, At(T, w, k))
  BY <1>1, <1>7
<1>9. PICK c : c = Head(l)
  OBVIOUS
<1>10. c \in At(T, w, k)
  <2>1. l \in Seq(At(T, w, k)) /\ l # <<>>
    BY <1>5, <1>8 DEF IsList, Once
  <2> QED BY <1>9, <2>1
<1>11. c \in T /\ w[c] = k - 1
  BY <1>10 DEF At
<1>12. ASSUME NEW b \in T, w[b] # 0 PROVE w[c] <= w[b]
  <2>1. w[b] \in Nat /\ w[b] + 1 \in 2..n /\ w[b] + 1 \in 1..n
    BY <1>1, <1>12
  <2> SUFFICES ASSUME w[b] + 1 \in 2..k - 1 PROVE FALSE
    BY <1>7, <1>11, <2>1
  <2>2. s[w[b] + 1] = <<>>
    BY <1>5
  <2>3. PICK j \in Nat : Once(s[w[b] + 1], j, At(T, w, w[b] + 1))
    BY <1>1, <2>1 DEF IsList
  <2>4. b \in At(T, w, w[b] + 1)
    BY <2>1 DEF At
  <2>5. \E a \in 1..j : s[w[b] + 1][a] = b
    BY <2>3, <2>4 DEF Once
  <2>6. j = 0
    BY <2>2, <2>3 DEF Once
  <2> QED BY <2>5, <2>6
<1>13. w[c] > 0
  BY <1>7, <1>11
<1> QED BY <1>6, <1>8, <1>9, <1>11, <1>12, <1>13

(***************************************************************************)
(* Lowering the weights of a row's columns.                                *)
(***************************************************************************)
Data(T) ==
  {d \in [sets : Seq(Seq(Cols)), weight : [Cols -> Nat]] :
     /\ \E n \in Nat : WeightLists(d.sets, n, T, d.weight)
     /\ \A c \in Cols \ T : d.weight[c] = 0}
Less(f, A) == [c \in Cols |-> IF c \in A /\ f[c] # 0 THEN f[c] - 1 ELSE f[c]]

LEMMA LowerIs ==
  ASSUME NEW T, NEW d \in Data(T), NEW c \in Cols
  PROVE  Lower(d, c) \in Data(T) /\ Lower(d, c).weight = Less(d.weight, {c})
<1> DEFINE w == d.weight
           x == [w EXCEPT ![c] = w[c] - 1]
<1>1. /\ w \in [Cols -> Nat] /\ \A b \in Cols \ T : w[b] = 0
      /\ d = [sets |-> d.sets, weight |-> w]
  BY DEF Data
<1>2. PICK n \in Nat : WeightLists(d.sets, n, T, w)
  BY DEF Data
<1>3. CASE w[c] = 0
  <2>1. Lower(d, c) = d
    BY <1>3 DEF Lower
  <2>2. Less(w, {c}) = w
    BY <1>1, <1>3 DEF Less
  <2> QED BY <2>1, <2>2
<1>4. CASE w[c] # 0
  <2>1. c \in T /\ w[c] - 1 \in Nat
    BY <1>1, <1>4
  <2> DEFINE t == PopNode(d.sets, c, w[c])
             s == PushNode(t, c, w[c] - 1)
  <2>2. Lower(d, c) = [sets |-> s, weight |-> x]
    BY <1>4 DEF Lower
  <2>3. x = Less(w, {c}) /\ x \in [Cols -> Nat] /\ \A b \in Cols \ T : x[b] = 0
    BY <1>1, <1>4, <2>1 DEF Less
  <2>4. PICK m \in Nat : WeightLists(t, m, T \ {c}, w)
    BY <1>2, <2>1, PopNodeIs
  <2> HIDE DEF t, w
  <2>5. PICK j \in Nat : WeightLists(s, j, (T \ {c}) \cup {c}, x)
    <3>1. c \notin T \ {c}
      OBVIOUS
    <3> QED BY <2>1, <2>4, <3>1, PushNodeIs
  <2>6. (T \ {c}) \cup {c} = T
    BY <2>1
  <2> HIDE DEF s, x
  <2>7. WeightLists(s, j, T, x)
    BY <2>5, <2>6
  <2>8. s \in Seq(Seq(Cols))
    BY <2>7 DEF WeightLists
  <2> DEFINE e == [sets |-> s, weight |-> x]
  <2>9. e \in [sets : Seq(Seq(Cols)), weight : [Cols -> Nat]] /\ e.sets = s /\ e.weight = x
    BY <2>3, <2>8
  <2> HIDE DEF e
  <2>10. e \in Data(T)
    BY <2>3, <2>7, <2>9 DEF Data
  <2> QED BY <2>2, <2>3, <2>9, <2>10 DEF e, w
<1> QED BY <1>3, <1>4

IsLowered(e, d, T, A) == e \in Data(T) /\ e.weight = Less(d.weight, A)
LEMMA LowerRowIs ==
  ASSUME NEW T, NEW d \in Data(T), NEW n \in Nat, NEW row, NEW U \in SUBSET Cols, Once(row, n, U)
  PROVE  IsLowered(LowerRow(d, row), d, T, U)
<1> DEFINE V == Data(T)
           step == [j \in 1..n |-> [e \in V |-> Lower(e, row[j])]]
           Is(p) == p = [j \in 0..Len(row) |-> IF j = 0 THEN d ELSE Lower(p[j - 1], row[j])]
           f == CHOOSE p : Is(p)
<1>1. Len(row) = n /\ (\A j \in 1..n : row[j] \in U /\ row[j] \in Cols) /\ \A a, b \in 1..n : row[a] = row[b] => a = b
  BY DEF Once
<1>2. LowerRow(d, row) = f[n]
  BY <1>1 DEF LowerRow
<1> HIDE DEF V
<1>3. \A j \in 1..n, e \in V : Lower(e, row[j]) \in V
  BY <1>1, LowerIs DEF V
<1>4. PICK g : Follows(g, n, V, d, step)
  <2>1. step \in [1..n -> [V -> V]] /\ d \in V
    BY <1>3 DEF V
  <2> HIDE DEF step
  <2> QED BY <2>1, Recursion
<1>5. Is(g)
  <2>1. g = [j \in 0..n |-> g[j]] /\ g[0] = d
    BY <1>4 DEF Follows
  <2>2. ASSUME NEW j \in 1..n PROVE g[j] = Lower(g[j - 1], row[j])
    <3>1. j - 1 \in 0..n
      OBVIOUS
    <3>2. g[j] = step[j][g[j - 1]] /\ g[j - 1] \in V
      <4> HIDE DEF step
      <4> QED BY <1>4, <3>1 DEF Follows
    <3> QED BY <3>2
  <2>3. \A j \in 0..n : j # 0 => j \in 1..n
    OBVIOUS
  <2>4. \A j \in 0..n : g[j] = IF j = 0 THEN d ELSE Lower(g[j - 1], row[j])
    BY <2>1, <2>2, <2>3
  <2> QED BY <1>1, <2>1, <2>4
<1>6. f[0] = d /\ \A j \in 1..n : f[j] = Lower(f[j - 1], row[j])
  <2>1. Is(f)
    <3> HIDE DEF Is
    <3> QED BY <1>5
  <2>2. f = [j \in 0..n |-> IF j = 0 THEN d ELSE Lower(f[j - 1], row[j])]
    BY <1>1, <2>1
  <2>3. 0 \in 0..n /\ \A j \in 1..n : j \in 0..n /\ j # 0
    OBVIOUS
  <2> HIDE DEF f
  <2> QED BY <2>2, <2>3
<1> HIDE DEF f
<1> DEFINE In(j) == {u \in U : \E a \in 1..j : row[a] = u}
           Good(j) == IsLowered(f[j], d, T, In(j))
           S == {j \in Nat : j \in 0..n => Good(j)}
<1> HIDE DEF Good
<1>7. 0 \in S
  <2>1. In(0) = {}
    OBVIOUS
  <2> HIDE DEF In
  <2>2. d.weight \in [Cols -> Nat]
    BY DEF Data
  <2>3. Less(d.weight, {}) = d.weight
    BY <2>2 DEF Less
  <2> QED BY <1>6, <2>1, <2>3 DEF Good, IsLowered
<1>8. ASSUME NEW j \in Nat, j \in S PROVE j + 1 \in S
  <2> SUFFICES ASSUME j + 1 \in 0..n PROVE Good(j + 1)
    OBVIOUS
  <2>1. j \in 0..n /\ j + 1 \in 1..n /\ (j + 1) - 1 = j
    OBVIOUS
  <2>2. PICK c \in Cols : c = row[j + 1] /\ c \in U
    BY <1>1, <2>1
  <2>3. c \notin In(j)
    <3> SUFFICES ASSUME NEW a \in 1..j, row[a] = c PROVE FALSE
      OBVIOUS
    <3>1. a \in 1..n /\ a # j + 1
      BY <2>1
    <3> QED BY <1>1, <2>1, <2>2, <3>1
  <2>4. In(j + 1) = In(j) \cup {c}
    <3>1. \A a \in 1..j + 1 : a \in 1..j \/ a = j + 1
      OBVIOUS
    <3>2. j + 1 \in 1..j + 1 /\ \A a \in 1..j : a \in 1..j + 1
      OBVIOUS
    <3> QED BY <2>2, <3>1, <3>2
  <2> HIDE DEF In
  <2>5. IsLowered(f[j], d, T, In(j))
    BY <1>8, <2>1 DEF Good
  <2>6. PICK e \in Data(T) : e = f[j] /\ e.weight = Less(d.weight, In(j))
    BY <2>5 DEF IsLowered
  <2>7. f[j + 1] = Lower(e, c)
    BY <1>6, <2>1, <2>2, <2>6
  <2>8. Lower(e, c) \in Data(T) /\ Lower(e, c).weight = Less(e.weight, {c})
    BY LowerIs
  <2>9. d.weight \in [Cols -> Nat]
    BY DEF Data
  <2>10. Less(Less(d.weight, In(j)), {c}) = Less(d.weight, In(j) \cup {c})
    <3> DEFINE w == d.weight
               x == Less(w, In(j))
    <3>1. \A b \in Cols : x[b] = IF b \in In(j) /\ w[b] # 0 THEN w[b] - 1 ELSE w[b]
      BY DEF Less
    <3>2. x[c] = w[c]
      BY <2>3, <3>1
    <3> HIDE DEF x, w
    <3>3. \A b \in Cols : (IF b \in {c} /\ x[b] # 0 THEN x[b] - 1 ELSE x[b])
                            = IF b \in In(j) \cup {c} /\ w[b] # 0 THEN w[b] - 1 ELSE w[b]
      BY <2>3, <3>1, <3>2
    <3> QED BY <3>3 DEF Less, x, w
  <2> QED BY <2>4, <2>6, <2>7, <2>8, <2>10 DEF Good, IsLowered
<1>9. Good(n)
  <2> HIDE DEF S
  <2>1. n \in S
    BY <1>7, <1>8, Induction
  <2>2. n \in 0..n
    OBVIOUS
  <2> QED BY <2>1, <2>2 DEF S
<1>10. In(n) = U
  BY DEF Once
<1> HIDE DEF In
<1> QED BY <1>2, <1>9, <1>10 DEF Good

\* A column's rows among R, and the weights when R are the rows that are left.
Has(c, R) == {i \in R : c \in Range(rows[i])}
Weighs(T, R) == [c \in Cols |-> IF c \in T THEN Cardinality(Has(c, R)) ELSE 0]

LEMMA ItemsFinite == ASSUME NEW R \in SUBSET Items PROVE IsFiniteSet(R) /\ Cardinality(R) <= NumItems /\ Cardinality(R) \in Nat
<1>1. NumItems \in Nat
  BY PaxosAssumption
<1>2. IsFiniteSet(Items) /\ Cardinality(Items) = NumItems
  BY <1>1, FS_Interval DEF Items
<1>3. IsFiniteSet(R) /\ Cardinality(R) <= Cardinality(Items)
  BY <1>2, FS_Subset
<1>4. Cardinality(R) \in Nat
  BY <1>3, FS_CardinalityType
<1> QED BY <1>2, <1>3, <1>4

LEMMA WeighsLess ==
  ASSUME NEW T, NEW R \in SUBSET Items, NEW i \in R
  PROVE  Less(Weighs(T, R), Range(rows[i])) = Weighs(T, R \ {i})
<1> DEFINE f == Weighs(T, R)
           g == Weighs(T, R \ {i})
           U == Range(rows[i])
<1>1. ASSUME NEW c \in Cols PROVE (IF c \in U /\ f[c] # 0 THEN f[c] - 1 ELSE f[c]) = g[c]
  <2>1. CASE c \notin T
    BY <2>1 DEF Weighs
  <2>2. CASE c \in T
    <3>1. f[c] = Cardinality(Has(c, R)) /\ g[c] = Cardinality(Has(c, R \ {i}))
      BY <2>2 DEF Weighs
    <3>2. Has(c, R \ {i}) = Has(c, R) \ {i}
      BY DEF Has
    <3>3. IsFiniteSet(Has(c, R)) /\ Cardinality(Has(c, R)) \in Nat
      BY ItemsFinite DEF Has
    <3>4. g[c] = IF i \in Has(c, R) THEN f[c] - 1 ELSE f[c]
      BY <3>1, <3>2, <3>3, FS_RemoveElement
    <3>5. c \in U <=> i \in Has(c, R)
      BY DEF Has
    <3>6. i \in Has(c, R) => f[c] # 0
      BY <3>1, <3>3, FS_EmptySet
    <3> HIDE DEF f, g, U
    <3> QED BY <3>4, <3>5, <3>6
  <2> QED BY <2>1, <2>2
<1>2. g = [c \in Cols |-> g[c]]
  BY DEF Weighs
<1> HIDE DEF f, g, U
<1>3. Less(f, U) = g
  BY <1>1, <1>2 DEF Less
<1> QED BY <1>3 DEF f, g, U

IsWeighed(e, T, R) == e \in Data(T) /\ e.weight = Weighs(T, R)
LEMMA LowerRowsIs ==
  ASSUME RowsAre(rows), mWeight \in Nat,
         NEW T, NEW R \in SUBSET Items, NEW d, IsWeighed(d, T, R),
         NEW n \in Nat, NEW open, NEW O \in SUBSET R, Once(open, n, O)
  PROVE  IsWeighed(LowerRows(open, d), T, R \ O)
<1> DEFINE V == Data(T)
           step == [j \in 1..n |-> [e \in V |-> LowerRow(e, rows[open[j]])]]
           Is(p) == p = [k \in 0..Len(open) |-> IF k = 0 THEN d ELSE LowerRow(p[k - 1], rows[open[k]])]
           f == CHOOSE p : Is(p)
<1>1. Len(open) = n /\ (\A j \in 1..n : open[j] \in O /\ open[j] \in Items) /\ \A a, b \in 1..n : open[a] = open[b] => a = b
  BY DEF Once
<1>2. LowerRows(open, d) = f[n]
  BY <1>1 DEF LowerRows
<1> HIDE DEF V
<1>3. ASSUME NEW e \in V, NEW i \in Items PROVE IsLowered(LowerRow(e, rows[i]), e, T, Range(rows[i]))
  <2>1. PICK U \in SUBSET Cols : Once(rows[i], mWeight, U)
    BY DEF RowsAre
  <2>2. Range(rows[i]) = U
    BY <2>1, OnceDomain
  <2> QED BY <2>1, <2>2, LowerRowIs DEF V
<1>4. PICK g : Follows(g, n, V, d, step)
  <2>1. \A j \in 1..n, e \in V : LowerRow(e, rows[open[j]]) \in V
    BY <1>1, <1>3 DEF IsLowered, V
  <2>2. step \in [1..n -> [V -> V]] /\ d \in V
    BY <2>1 DEF V, IsWeighed
  <2> HIDE DEF step
  <2> QED BY <2>2, Recursion
<1>5. Is(g)
  <2>1. g = [j \in 0..n |-> g[j]] /\ g[0] = d
    BY <1>4 DEF Follows
  <2>2. ASSUME NEW j \in 1..n PROVE g[j] = LowerRow(g[j - 1], rows[open[j]])
    <3>1. j - 1 \in 0..n
      OBVIOUS
    <3>2. g[j] = step[j][g[j - 1]] /\ g[j - 1] \in V
      <4> HIDE DEF step
      <4> QED BY <1>4, <3>1 DEF Follows
    <3> QED BY <3>2
  <2>3. \A j \in 0..n : j # 0 => j \in 1..n
    OBVIOUS
  <2>4. \A j \in 0..n : g[j] = IF j = 0 THEN d ELSE LowerRow(g[j - 1], rows[open[j]])
    BY <2>1, <2>2, <2>3
  <2> QED BY <1>1, <2>1, <2>4
<1>6. f[0] = d /\ \A j \in 1..n : f[j] = LowerRow(f[j - 1], rows[open[j]])
  <2>1. Is(f)
    <3> HIDE DEF Is
    <3> QED BY <1>5
  <2>2. f = [j \in 0..n |-> IF j = 0 THEN d ELSE LowerRow(f[j - 1], rows[open[j]])]
    BY <1>1, <2>1
  <2>3. 0 \in 0..n /\ \A j \in 1..n : j \in 0..n /\ j # 0
    OBVIOUS
  <2> HIDE DEF f
  <2> QED BY <2>2, <2>3
<1> HIDE DEF f
<1> DEFINE Left(j) == {i \in R : \A a \in 1..j : open[a] # i}
           Good(j) == IsWeighed(f[j], T, Left(j))
           S == {j \in Nat : j \in 0..n => Good(j)}
<1> HIDE DEF Good
<1>7. 0 \in S
  <2>1. Left(0) = R
    OBVIOUS
  <2> HIDE DEF Left
  <2> QED BY <1>6, <2>1 DEF Good
<1>8. ASSUME NEW j \in Nat, j \in S PROVE j + 1 \in S
  <2> SUFFICES ASSUME j + 1 \in 0..n PROVE Good(j + 1)
    OBVIOUS
  <2>1. j \in 0..n /\ j + 1 \in 1..n /\ (j + 1) - 1 = j
    OBVIOUS
  <2>2. PICK i \in Items : i = open[j + 1] /\ i \in R
    BY <1>1, <2>1
  <2>3. i \in Left(j)
    <3> SUFFICES ASSUME NEW a \in 1..j, open[a] = i PROVE FALSE
      BY <2>2
    <3>1. a \in 1..n /\ a # j + 1
      BY <2>1
    <3> QED BY <1>1, <2>1, <2>2, <3>1
  <2>4. Left(j + 1) = Left(j) \ {i}
    <3>1. \A a \in 1..j + 1 : a \in 1..j \/ a = j + 1
      OBVIOUS
    <3>2. j + 1 \in 1..j + 1 /\ \A a \in 1..j : a \in 1..j + 1
      OBVIOUS
    <3> QED BY <2>2, <3>1, <3>2
  <2>5. Left(j) \in SUBSET Items
    OBVIOUS
  <2> HIDE DEF Left
  <2>6. PICK e \in V : e = f[j] /\ e.weight = Weighs(T, Left(j))
    BY <1>8, <2>1 DEF Good, IsWeighed, V
  <2>7. f[j + 1] = LowerRow(e, rows[i])
    BY <1>6, <2>1, <2>2, <2>6
  <2>8. IsLowered(LowerRow(e, rows[i]), e, T, Range(rows[i]))
    BY <1>3
  <2>9. Less(Weighs(T, Left(j)), Range(rows[i])) = Weighs(T, Left(j) \ {i})
    BY <2>3, <2>5, WeighsLess
  <2> QED BY <2>4, <2>6, <2>7, <2>8, <2>9 DEF Good, IsLowered, IsWeighed
<1>9. Good(n)
  <2> HIDE DEF S
  <2>1. n \in S
    BY <1>7, <1>8, Induction
  <2>2. n \in 0..n
    OBVIOUS
  <2> QED BY <2>1, <2>2 DEF S
<1>10. Left(n) = R \ O
  BY <1>1 DEF Once
<1> HIDE DEF Left
<1> QED BY <1>2, <1>9, <1>10 DEF Good

(***************************************************************************)
(* The invariant of triangulate: WeightData lists the columns that are not *)
(* taken by the number of their rows that are not set, and the rows on the *)
(* diagonal are a triangle.                                                *)
(***************************************************************************)
Taken == Range(mainCols)
Unset == Items \ rowSet
Triangle ==
  /\ mainCols \in Seq(Cols) /\ mainRows \in Seq(Items) /\ Len(mainRows) = Len(mainCols)
  /\ \A t \in 1..Len(mainCols) :
       /\ mainCols[t] \in Range(rows[mainRows[t]])
       /\ \A s \in 1..t - 1 : mainCols[s] \notin Range(rows[mainRows[t]])
GapOK ==
  /\ gapRows \in Seq(Items \X Items)
  /\ \A k \in 1..Len(gapRows) : gapRows[k][2] \in Range(mainRows)
  /\ rowSet = Range(mainRows) \cup {gapRows[k][1] : k \in 1..Len(gapRows)}
  /\ gapRows # <<>> => HasCore
WeightsOK ==
  /\ \A c \in Cols : IsList(cols[c], Has(c, Items))
  /\ \E n \in Nat : WeightLists(sets, n, Cols \ Taken, weight)
  /\ weight = Weighs(Cols \ Taken, Unset)
  /\ \A c \in Taken : Has(c, Unset) = {}
TriOK == rows = RowsBuilt(hash) /\ Triangle /\ GapOK /\ WeightsOK

LEMMA RowsOK == ASSUME RowsInv, rows = RowsBuilt(hash) PROVE RowsAre(rows) /\ mWeight \in Nat /\ mWeight > 0
<1>1. mWeight \in Nat /\ mWeight > 0
  BY PaxosAssumption DEF RowsInv, HashesOK
<1> QED BY <1>1, RowsBuiltApart

\* When the least weight is two or more, the rows that are left are a core.
LEMMA LeastWeightCore ==
  ASSUME TriOK, NEW c \in Cols \ Taken, weight[c] > 1,
         \A b \in Cols \ Taken : weight[b] = 0 \/ weight[c] <= weight[b]
  PROVE  HasCore
<1>1. \A b \in Cols \ Taken : weight[b] = Cardinality(Has(b, Unset))
  BY DEF TriOK, WeightsOK, Weighs
<1>2. \A b \in Cols : IsFiniteSet(Has(b, Unset)) /\ Cardinality(Has(b, Unset)) \in Nat
  BY ItemsFinite DEF Has, Unset
<1>3. ASSUME NEW i \in Unset, NEW b \in Cols, b \in Range(rows[i]) PROVE \E j \in Unset \ {i} : b \in Range(rows[j])
  <2>1. i \in Has(b, Unset)
    BY <1>3 DEF Has
  <2>2. b \in Cols \ Taken
    BY <2>1 DEF TriOK, WeightsOK
  <2>3. Cardinality(Has(b, Unset)) # 0
    BY <1>2, <2>1, FS_EmptySet
  <2>4. Cardinality(Has(b, Unset)) > 1
    BY <1>1, <1>2, <2>2, <2>3
  <2> SUFFICES ASSUME \A j \in Unset \ {i} : b \notin Range(rows[j]) PROVE FALSE
    OBVIOUS
  <2>5. Has(b, Unset) = {i}
    BY <2>1 DEF Has
  <2> QED BY <2>4, <2>5, FS_Singleton
<1>4. Core(Unset)
  BY <1>3 DEF Core
<1>5. Unset # {}
  <2>1. Cardinality(Has(c, Unset)) > 1
    BY <1>1
  <2>2. Has(c, Unset) # {}
    BY <2>1, FS_EmptySet
  <2> QED BY <2>2 DEF Has
<1> QED BY <1>4, <1>5 DEF HasCore, Unset

\* The column that triangulate takes, and its rows that are not set.
Chosen(c, n) ==
  /\ c \in Cols \ Taken /\ Once(Open(c), n, Has(c, Unset)) /\ n \in Nat /\ n > 0 /\ weight[c] = n
  /\ n > 1 => HasCore
LEMMA MinWeightChosen ==
  ASSUME TriOK, Len(sets) > 1
  PROVE  \E n \in Nat : Chosen(MinWeightNode(sets), n)
<1> DEFINE T == Cols \ Taken
<1>1. PICK m \in Nat : WeightLists(sets, m, T, weight)
  BY DEF TriOK, WeightsOK
<1>2. m = Len(sets) /\ m > 1
  BY <1>1 DEF WeightLists
<1> HIDE DEF T
<1>3. PICK c : c = MinWeightNode(sets)
  OBVIOUS
<1>4. c \in T /\ weight[c] > 0 /\ \A b \in T : weight[b] = 0 \/ weight[c] <= weight[b]
  BY <1>1, <1>2, <1>3, MinWeightNodeIs
<1>5. PICK n \in Nat : Once(Open(c), n, Has(c, Unset))
  <2>1. PICK k \in Nat : Once(cols[c], k, Has(c, Items))
    BY <1>4 DEF TriOK, WeightsOK, IsList, T
  <2>2. PICK n \in Nat : Once(Kept(cols[c], Items \ rowSet), n, Has(c, Items) \cap (Items \ rowSet))
    BY <2>1, KeptOnce
  <2>3. Has(c, Items) \cap (Items \ rowSet) = Has(c, Unset)
    BY DEF Has, Unset
  <2> QED BY <2>2, <2>3 DEF Open
<1>6. weight[c] = n
  <2>1. Cardinality(Has(c, Unset)) = n
    BY <1>5, OnceSize
  <2>2. weight[c] = Cardinality(Has(c, Unset))
    BY <1>4 DEF TriOK, WeightsOK, Weighs, T
  <2> QED BY <2>1, <2>2
<1>7. n > 1 => HasCore
  BY <1>4, <1>6, LeastWeightCore DEF T
<1>8. Chosen(c, n)
  BY <1>4, <1>5, <1>6, <1>7 DEF Chosen, T
<1> QED BY <1>3, <1>8

LEMMA TakeWeights ==
  ASSUME RowsInv, TriOK, NEW c, NEW n, Chosen(c, n), NEW T, T = Cols \ (Taken \cup {c})
  PROVE  IsWeighed(LowerRows(Open(c), [sets |-> PopNode(sets, c, weight[c]), weight |-> [weight EXCEPT ![c] = 0]]),
                   T, Unset \ Has(c, Unset))
<1> DEFINE w == [weight EXCEPT ![c] = 0]
           s == PopNode(sets, c, weight[c])
           d == [sets |-> s, weight |-> w]
<1>1. c \in Cols \ Taken /\ T = (Cols \ Taken) \ {c} /\ c \notin T
  BY DEF Chosen
<1>2. PICK k \in Nat : WeightLists(sets, k, Cols \ Taken, weight)
  BY DEF TriOK, WeightsOK
<1>3. weight \in [Cols -> Nat] /\ weight = Weighs(Cols \ Taken, Unset)
  BY <1>2 DEF WeightLists, TriOK, WeightsOK
<1>4. PICK m \in Nat : WeightLists(s, m, T, weight)
  BY <1>1, <1>2, PopNodeIs
<1> HIDE DEF s
<1>5. w = Weighs(T, Unset)
  <2>1. \A b \in Cols : w[b] = IF b \in T THEN Cardinality(Has(b, Unset)) ELSE 0
    <3>1. \A b \in Cols : weight[b] = IF b \in Cols \ Taken THEN Cardinality(Has(b, Unset)) ELSE 0
      BY <1>3 DEF Weighs
    <3>2. \A b \in Cols : w[b] = IF b = c THEN 0 ELSE weight[b]
      BY <1>3
    <3> HIDE DEF w
    <3> QED BY <1>1, <3>1, <3>2
  <2>2. w = [b \in Cols |-> w[b]]
    BY <1>3
  <2> HIDE DEF w
  <2> QED BY <2>1, <2>2 DEF Weighs
<1>6. w \in [Cols -> Nat] /\ (\A b \in Cols \ T : w[b] = 0) /\ \A b \in T : w[b] = weight[b]
  <2>1. w \in [Cols -> Nat] /\ \A b \in T : w[b] = weight[b]
    BY <1>1, <1>3
  <2> HIDE DEF w
  <2>2. \A b \in Cols \ T : w[b] = 0
    BY <1>5 DEF Weighs
  <2> QED BY <2>1, <2>2
<1> HIDE DEF w
<1>7. WeightLists(s, m, T, w)
  <2>1. \A i : At(T, w, i) = At(T, weight, i)
    BY <1>6 DEF At
  <2>2. \A i \in 1..m : IsList(s[i], At(T, w, i))
    BY <1>4, <2>1 DEF WeightLists
  <2>3. \A b \in T : w[b] + 1 \in 1..m
    BY <1>4, <1>6 DEF WeightLists
  <2> QED BY <1>4, <1>6, <2>2, <2>3 DEF WeightLists
<1>8. d \in Data(T) /\ d.weight = w
  <2>1. s \in Seq(Seq(Cols))
    BY <1>7 DEF WeightLists
  <2>2. d \in [sets : Seq(Seq(Cols)), weight : [Cols -> Nat]] /\ d.sets = s /\ d.weight = w
    BY <1>6, <2>1
  <2> HIDE DEF d
  <2> QED BY <1>6, <1>7, <2>2 DEF Data
<1> HIDE DEF d
<1>9. IsWeighed(d, T, Unset)
  BY <1>5, <1>8 DEF IsWeighed
<1>10. Has(c, Unset) \in SUBSET Unset /\ Unset \in SUBSET Items /\ n \in Nat /\ Once(Open(c), n, Has(c, Unset))
  BY DEF Has, Unset, Chosen
<1>11. RowsAre(rows) /\ mWeight \in Nat
  BY RowsOK DEF TriOK
<1>12. PICK R, O, open : R = Unset /\ O = Has(c, Unset) /\ open = Open(c)
  OBVIOUS
<1>13. IsWeighed(LowerRows(open, d), T, R \ O)
  BY <1>9, <1>10, <1>11, <1>12, LowerRowsIs
<1> QED BY <1>12, <1>13 DEF d, s, w

IsAppend(a, l, x, n, S) ==
  /\ a \in Seq(S) /\ Len(a) = n + 1 /\ a[n + 1] = x
  /\ \A i \in 1..n : a[i] = l[i]
  /\ Range(a) = Range(l) \cup {x}
LEMMA AppendIs == ASSUME NEW S, NEW l \in Seq(S), NEW x \in S PROVE IsAppend(Append(l, x), l, x, Len(l), S)
<1>1. PICK n \in Nat : n = Len(l)
  OBVIOUS
<1>2. PICK a : a = Append(l, x) /\ a \in Seq(S) /\ Len(a) = n + 1 /\ a[n + 1] = x /\ \A i \in 1..n : a[i] = l[i]
  <2>1. Append(l, x) \in Seq(S) /\ Len(Append(l, x)) = n + 1
    BY <1>1
  <2>2. Append(l, x)[n + 1] = x
    BY <1>1
  <2>3. \A i \in 1..n : Append(l, x)[i] = l[i]
    BY <1>1
  <2> QED BY <2>1, <2>2, <2>3
<1>3. DOMAIN a = 1..n + 1 /\ DOMAIN l = 1..n
  BY <1>1, <1>2
<1>4. (\A i \in 1..n + 1 : i \in 1..n \/ i = n + 1) /\ (\A i \in 1..n : i \in 1..n + 1) /\ n + 1 \in 1..n + 1
  OBVIOUS
<1>5. Range(a) = Range(l) \cup {x}
  BY <1>2, <1>3, <1>4 DEF Range
<1> QED BY <1>1, <1>2, <1>5 DEF IsAppend

\* triangulate keeps it.
LEMMA TakeColumnTri ==
  ASSUME RowsInv, TriOK, TakeColumn
  PROVE  TriOK'
<1> DEFINE c == MinWeightNode(sets)
           open == Open(c)
           end == LowerRows(open, [sets |-> PopNode(sets, c, weight[c]), weight |-> [weight EXCEPT ![c] = 0]])
           more == [k \in 1..Len(open) - 1 |-> <<open[k + 1], open[1]>>]
           O == Has(c, Unset)
<1>1. /\ Len(sets) > 1 /\ sets' = end.sets /\ weight' = end.weight /\ rowSet' = rowSet \cup Range(open)
      /\ mainCols' = Append(mainCols, c) /\ mainRows' = Append(mainRows, open[1]) /\ gapRows' = gapRows \o more
      /\ UNCHANGED <<inputs, rows, pc, cols, P, p2>>
  BY DEF TakeColumn
<1>2. hash' = hash /\ mWeight' = mWeight /\ rows' = rows /\ cols' = cols
  BY <1>1 DEF inputs
<1>3. rows = RowsBuilt(hash) /\ Triangle /\ GapOK /\ WeightsOK
  BY DEF TriOK
<1>4. PICK n \in Nat : Chosen(c, n)
  BY <1>1, MinWeightChosen
<1>5. IsWeighed(end, Cols \ (Taken \cup {c}), Unset \ O)
  BY <1>4, TakeWeights
<1> HIDE DEF end, c
<1>6. c \in Cols /\ c \notin Taken /\ Once(open, n, O) /\ n > 0 /\ (n > 1 => HasCore)
  BY <1>4 DEF Chosen
<1> HIDE DEF open
<1>7. DOMAIN open = 1..n /\ Range(open) = O /\ (\A k \in 1..n : open[k] \in O) /\ Len(open) = n
  BY <1>6, OnceDomain DEF Once
<1>8. O \subseteq Unset /\ Unset \subseteq Items /\ \A i \in O : c \in Range(rows[i])
  BY DEF Has, Unset
<1> HIDE DEF O
<1>9. Unset' = Unset \ O
  BY <1>1, <1>7 DEF Unset
<1>10. PICK i \in Items : i = open[1] /\ i \in O /\ i \in Unset
  <2>1. 1 \in 1..n
    BY <1>6
  <2> QED BY <1>7, <1>8, <2>1
<1>11. PICK L \in Nat : L = Len(mainCols) /\ L = Len(mainRows)
  BY <1>3 DEF Triangle
<1>12. IsAppend(mainCols', mainCols, c, L, Cols) /\ IsAppend(mainRows', mainRows, i, L, Items)
  <2>1. mainCols \in Seq(Cols) /\ mainRows \in Seq(Items)
    BY <1>3 DEF Triangle
  <2> QED BY <1>1, <1>6, <1>10, <1>11, <2>1, AppendIs
<1>13. Taken' = Taken \cup {c}
  BY <1>12 DEF Taken, IsAppend
<1>14. Triangle'
  <2>1. mainCols' \in Seq(Cols) /\ mainRows' \in Seq(Items) /\ Len(mainCols') = L + 1 /\ Len(mainRows') = L + 1
    BY <1>12 DEF IsAppend
  <2>2. ASSUME NEW t \in 1..L + 1
        PROVE  /\ mainCols'[t] \in Range(rows[mainRows'[t]])
               /\ \A s \in 1..t - 1 : mainCols'[s] \notin Range(rows[mainRows'[t]])
    <3>1. CASE t \in 1..L
      <4>1. mainCols'[t] = mainCols[t] /\ mainRows'[t] = mainRows[t] /\ \A s \in 1..t - 1 : mainCols'[s] = mainCols[s]
        BY <1>12, <3>1 DEF IsAppend
      <4>2. /\ mainCols[t] \in Range(rows[mainRows[t]])
            /\ \A s \in 1..t - 1 : mainCols[s] \notin Range(rows[mainRows[t]])
        BY <1>3, <1>11, <3>1 DEF Triangle
      <4> QED BY <4>1, <4>2
    <3>2. CASE t = L + 1
      <4>1. mainCols'[t] = c /\ mainRows'[t] = i /\ \A s \in 1..t - 1 : s \in 1..L /\ mainCols'[s] = mainCols[s]
        BY <1>12, <3>2 DEF IsAppend
      <4>2. ASSUME NEW s \in 1..L PROVE mainCols[s] \notin Range(rows[i])
        <5>1. mainCols[s] \in Taken
          BY <1>3, <1>11 DEF Triangle, Taken, Range
        <5> QED BY <1>3, <1>10, <5>1 DEF WeightsOK, Has
      <4> QED BY <1>8, <1>10, <4>1, <4>2
    <3> QED BY <3>1, <3>2
  <2> QED BY <1>2, <2>1, <2>2 DEF Triangle
<1>15. GapOK'
  <2>1. PICK g \in Nat : g = Len(gapRows) /\ gapRows \in Seq(Items \X Items)
    BY <1>3 DEF GapOK
  <2>2. \A k \in 1..n - 1 : k + 1 \in 1..n /\ open[k + 1] \in Items /\ open[1] \in Items
    BY <1>7, <1>8, <1>10
  <2>3. n - 1 \in Nat
    BY <1>6
  <2>4. more \in Seq(Items \X Items) /\ Len(more) = n - 1 /\ \A k \in 1..n - 1 : more[k] = <<open[k + 1], open[1]>>
    <3>1. more = [k \in 1..n - 1 |-> <<open[k + 1], open[1]>>]
      BY <1>7
    <3>2. \A k \in 1..n - 1 : <<open[k + 1], open[1]>> \in Items \X Items
      BY <2>2
    <3>3. more \in [1..n - 1 -> Items \X Items]
      BY <3>1, <3>2
    <3>4. \A k \in 1..n - 1 : more[k] = <<open[k + 1], open[1]>>
      BY <3>1
    <3> HIDE DEF more
    <3>5. PICK V : V = Items \X Items
      OBVIOUS
    <3>6. more \in Seq(V) /\ Len(more) = n - 1
      BY <2>3, <3>3, <3>5
    <3> QED BY <3>4, <3>5, <3>6
  <2> HIDE DEF more
  <2>5. PICK gap : gap = gapRows' /\ IsJoin(gap, gapRows, more, g, n - 1, Items \X Items)
    BY <1>1, <2>1, <2>4, Joined
  <2>6. gap \in Seq(Items \X Items) /\ Len(gap) = g + (n - 1) /\ (\A k \in 1..g : gap[k] = gapRows[k])
    BY <2>5 DEF IsJoin
  <2>7. ASSUME NEW k \in 1..n - 1 PROVE gap[g + k] = <<open[k + 1], i>> /\ g + k \in 1..g + (n - 1)
    <3>1. g + k \in 1..g + (n - 1)
      BY <2>3
    <3>2. gap[g + k] = more[k]
      BY <2>5 DEF IsJoin
    <3> QED BY <1>10, <2>4, <3>1, <3>2
  <2>8. ASSUME NEW k \in 1..g + (n - 1), k \notin 1..g PROVE k - g \in 1..n - 1 /\ g + (k - g) = k
    BY <2>8
  <2>9. Range(mainRows') = Range(mainRows) \cup {i}
    BY <1>12 DEF IsAppend
  <2>10. \A k \in 1..g + (n - 1) : gap[k][2] \in Range(mainRows')
    <3>1. ASSUME NEW k \in 1..g PROVE gap[k][2] \in Range(mainRows')
      BY <1>3, <2>1, <2>6, <2>9 DEF GapOK
    <3>2. ASSUME NEW k \in 1..g + (n - 1), k \notin 1..g PROVE gap[k][2] \in Range(mainRows')
      <4>1. PICK j \in 1..n - 1 : g + j = k
        BY <2>8, <3>2
      <4>2. gap[k] = <<open[j + 1], i>>
        BY <2>7, <4>1
      <4> QED BY <2>9, <4>2
    <3> QED BY <3>1, <3>2
  <2>11. rowSet' = Range(mainRows') \cup {gap[k][1] : k \in 1..g + (n - 1)}
    <3> DEFINE G == {gapRows[k][1] : k \in 1..g}
               H == {gap[k][1] : k \in 1..g + (n - 1)}
    <3>1. rowSet' = rowSet \cup O /\ rowSet = Range(mainRows) \cup G
      BY <1>1, <1>3, <1>7, <2>1 DEF GapOK
    <3>2. G \subseteq H
      <4>1. \A k \in 1..g : k \in 1..g + (n - 1) /\ gap[k][1] = gapRows[k][1]
        BY <2>3, <2>6
      <4> QED BY <4>1
    <3>3. \A k \in 1..n - 1 : open[k + 1] \in H
      <4>1. \A k \in 1..n - 1 : g + k \in 1..g + (n - 1) /\ gap[g + k][1] = open[k + 1]
        BY <2>7
      <4> QED BY <4>1
    <3>4. O \subseteq H \cup {i}
      <4>1. \A x \in O : \E k \in 1..n : open[k] = x
        BY <1>6 DEF Once
      <4>2. \A k \in 1..n : k = 1 \/ (k - 1 \in 1..n - 1 /\ (k - 1) + 1 = k)
        OBVIOUS
      <4> HIDE DEF H
      <4>3. \A k \in 1..n : open[k] = i \/ open[k] \in H
        BY <1>10, <3>3, <4>2
      <4> QED BY <4>1, <4>3
    <3>5. H \subseteq G \cup O
      <4> SUFFICES ASSUME NEW k \in 1..g + (n - 1) PROVE gap[k][1] \in G \cup O
        OBVIOUS
      <4>1. CASE k \in 1..g
        BY <2>6, <4>1
      <4>2. CASE k \notin 1..g
        <5>1. PICK j \in 1..n - 1 : g + j = k
          BY <2>8, <4>2
        <5>2. gap[k][1] = open[j + 1] /\ j + 1 \in 1..n
          BY <2>7, <5>1
        <5> QED BY <1>7, <5>2
      <4> QED BY <4>1, <4>2
    <3> HIDE DEF G, H
    <3>6. rowSet' = Range(mainRows') \cup H
      BY <1>10, <2>9, <3>1, <3>2, <3>4, <3>5
    <3> QED BY <3>6 DEF H
  <2>12. HasCore' <=> HasCore
    BY <1>2 DEF HasCore, Core
  <2>13. gap # <<>> => HasCore
    <3>1. CASE g = 0
      <4>1. n > 1 \/ Len(gap) = 0
        BY <2>3, <2>6, <3>1
      <4> QED BY <1>6, <2>6, <4>1
    <3>2. CASE g # 0
      BY <1>3, <2>1, <3>2 DEF GapOK
    <3> QED BY <3>1, <3>2
  <2> QED BY <2>5, <2>6, <2>10, <2>11, <2>12, <2>13 DEF GapOK
<1>16. WeightsOK'
  <2>1. Cols \ (Taken \cup {c}) = Cols \ Taken'
    BY <1>13
  <2>2. IsWeighed(end, Cols \ Taken', Unset')
    BY <1>5, <1>9, <2>1
  <2>3. sets' = end.sets /\ weight' = end.weight
    BY <1>1 DEF end
  <2>4. \E k \in Nat : WeightLists(sets', k, Cols \ Taken', weight')
    BY <2>2, <2>3 DEF IsWeighed, Data
  <2>5. \A b, R : Has(b, R)' = {j \in R' : b \in Range(rows[j])}
    BY <1>2 DEF Has
  <2>6. weight' = [b \in Cols |-> IF b \in Cols \ Taken' THEN Cardinality({j \in Unset' : b \in Range(rows[j])}) ELSE 0]
    BY <2>2, <2>3 DEF IsWeighed, Weighs, Has
  <2>7. Weighs(Cols \ Taken, Unset)'
          = [b \in Cols |-> IF b \in Cols \ Taken' THEN Cardinality({j \in Unset' : b \in Range(rows[j])}) ELSE 0]
    BY <1>2 DEF Weighs, Has
  <2>8. \A b \in Cols : IsList(cols'[b], {j \in Items : b \in Range(rows[j])})
    BY <1>2, <1>3 DEF WeightsOK, Has
  <2>9. ASSUME NEW b \in Taken' PROVE {j \in Unset' : b \in Range(rows[j])} = {}
    <3>1. CASE b \in Taken
      BY <1>3, <1>9, <3>1 DEF WeightsOK, Has
    <3>2. CASE b = c
      BY <1>9, <3>2 DEF O, Has
    <3> QED BY <1>13, <2>9, <3>1, <3>2
  <2> QED BY <1>2, <2>4, <2>6, <2>7, <2>8, <2>9 DEF WeightsOK, Has
<1> QED BY <1>2, <1>3, <1>14, <1>15, <1>16 DEF TriOK, RowsBuilt

\* setInput makes it true.
LEMMA SetInputTri ==
  ASSUME RowsInv, triangle = <<{}, <<>>, <<>>, <<>>>>, SetInput
  PROVE  TriOK'
<1> DEFINE built == RowsBuilt(hash)
           all == [i \in Items |-> i]
           In(c) == {i \in Items : c \in Range(built[i])}
           w == [c \in Cols |-> Len(Kept(all, In(c)))]
<1>1. /\ rows' = built /\ weight' = w /\ sets' = PushAll(w)
      /\ cols' = [c \in Cols |-> Kept(all, In(c))]
      /\ UNCHANGED <<hash, mWeight, rowSet, mainRows, mainCols, gapRows>>
  <2>1. cols' = [c \in Cols |-> Kept(all, In(c))] /\ rows' = built /\ UNCHANGED <<hash, mWeight, rowSet, mainRows, mainCols, gapRows>>
    BY DEF SetInput, inputs, triangle
  <2>2. weight' = w
    BY DEF SetInput
  <2>3. sets' = PushAll(w)
    BY DEF SetInput
  <2> QED BY <2>1, <2>2, <2>3
<1>2. rowSet = {} /\ mainRows = <<>> /\ mainCols = <<>> /\ gapRows = <<>>
  BY DEF triangle
<1> HIDE DEF built
<1>3. Once(all, NumItems, Items) /\ NumItems \in Nat
  <2>1. NumItems \in Nat
    BY PaxosAssumption
  <2>2. all \in Seq(Items) /\ Len(all) = NumItems /\ \A i \in 1..NumItems : all[i] = i
    BY <2>1 DEF Items
  <2> HIDE DEF all
  <2> QED BY <2>1, <2>2 DEF Once, Items
<1> HIDE DEF all
<1>4. ASSUME NEW c \in Cols
      PROVE  /\ IsList(Kept(all, In(c)), In(c)) /\ Len(Kept(all, In(c))) = Cardinality(In(c))
             /\ Len(Kept(all, In(c))) \in Nat
  <2>1. PICK m \in Nat : Once(Kept(all, In(c)), m, Items \cap In(c))
    BY <1>3, KeptOnce
  <2>2. Items \cap In(c) = In(c)
    OBVIOUS
  <2> HIDE DEF In
  <2>3. Once(Kept(all, In(c)), m, In(c))
    BY <2>1, <2>2
  <2>4. Cardinality(In(c)) = m
    BY <2>3, OnceSize
  <2>5. Len(Kept(all, In(c))) = m
    BY <2>3 DEF Once
  <2> QED BY <2>3, <2>4, <2>5 DEF IsList
<1>5. w \in [Cols -> Nat] /\ w = [c \in Cols |-> Cardinality(In(c))]
  <2> HIDE DEF In
  <2> QED BY <1>4
<1>6. \E m \in Nat : WeightLists(sets', m, Cols, weight')
  <2> HIDE DEF w
  <2> QED BY <1>1, <1>5, PushAllIs
<1>7. Taken' = {} /\ Unset' = Items
  BY <1>1, <1>2 DEF Taken, Unset, Range
<1>8. weight' = [c \in Cols |-> Cardinality(In(c))]
  BY <1>1, <1>5
<1>9. \A c \in Cols : IsList(cols'[c], In(c))
  <2> HIDE DEF In
  <2> QED BY <1>1, <1>4
<1>10. WeightsOK'
  <2>1. Cols \ Taken' = Cols
    BY <1>7
  <2>2. \E n \in Nat : WeightLists(sets', n, Cols \ Taken', weight')
    BY <1>6, <2>1
  <2>3. weight' = Weighs(Cols \ Taken, Unset)'
    <3>1. Weighs(Cols \ Taken, Unset)'
            = [c \in Cols |-> IF c \in Cols \ Taken' THEN Cardinality({i \in Unset' : c \in Range(rows'[i])}) ELSE 0]
      BY DEF Weighs, Has
    <3>2. \A c \in Cols : {i \in Unset' : c \in Range(rows'[i])} = In(c) /\ c \in Cols \ Taken'
      BY <1>1, <1>7
    <3> HIDE DEF In
    <3> QED BY <1>8, <3>1, <3>2
  <2>4. \A c \in Cols : IsList(cols'[c], {i \in Items : c \in Range(rows'[i])})
    BY <1>1, <1>9
  <2> QED BY <1>7, <2>2, <2>3, <2>4 DEF WeightsOK, Has
<1>11. Triangle'
  BY <1>1, <1>2 DEF Triangle
<1>12. GapOK'
  BY <1>1, <1>2 DEF GapOK, Range
<1> QED BY <1>1, <1>10, <1>11, <1>12 DEF TriOK, RowsBuilt, built

\* It ends when every row is set.
LEMMA AllSet ==
  ASSUME RowsInv, TriOK, Len(sets) <= 1
  PROVE  rowSet = Items
<1>1. rowSet \subseteq Items
  <2>1. \A r \in Range(mainRows) : r \in Items
    BY DEF TriOK, Triangle, Range
  <2>2. \A k \in 1..Len(gapRows) : gapRows[k][1] \in Items
    BY DEF TriOK, GapOK
  <2> QED BY <2>1, <2>2 DEF TriOK, GapOK
<1>2. ASSUME NEW i \in Unset PROVE FALSE
  <2>1. PICK U \in SUBSET Cols : Once(rows[i], mWeight, U)
    BY RowsOK DEF TriOK, RowsAre, Unset
  <2>2. mWeight \in Nat /\ 1 \in 1..mWeight
    BY RowsOK DEF TriOK
  <2>3. PICK b \in Cols : b \in Range(rows[i])
    <3>1. Range(rows[i]) = U /\ rows[i][1] \in U
      BY <2>1, <2>2, OnceDomain
    <3> QED BY <3>1
  <2>4. i \in Has(b, Unset)
    BY <2>3 DEF Has
  <2>5. b \in Cols \ Taken
    BY <2>4 DEF TriOK, WeightsOK
  <2>6. IsFiniteSet(Has(b, Unset)) /\ Cardinality(Has(b, Unset)) \in Nat
    BY ItemsFinite DEF Has, Unset
  <2>7. weight[b] = Cardinality(Has(b, Unset))
    BY <2>5 DEF TriOK, WeightsOK, Weighs
  <2>8. weight[b] # 0 /\ weight[b] \in Nat
    BY <2>4, <2>6, <2>7, FS_EmptySet
  <2>9. PICK n \in Nat : WeightLists(sets, n, Cols \ Taken, weight)
    BY DEF TriOK, WeightsOK
  <2>10. n <= 1 /\ weight[b] + 1 \in 1..n
    BY <2>5, <2>9 DEF WeightLists
  <2> QED BY <2>8, <2>10
<1> QED BY <1>1, <1>2 DEF Unset

TriInv ==
  /\ RowsInv
  /\ pc = "input" => triangle = <<{}, <<>>, <<>>, <<>>>>
  /\ pc # "input" => TriOK
  /\ pc \in {"gap", "back", "done"} => rowSet = Items
  /\ pc = "thrown" => HasCore

LEMMA TriSame ==
  ASSUME UNCHANGED <<hash, mWeight, rows, cols, sets, weight, triangle>>
  PROVE  (TriOK' <=> TriOK) /\ (HasCore' <=> HasCore) /\ triangle' = triangle /\ rowSet' = rowSet
<1>1. /\ hash' = hash /\ mWeight' = mWeight /\ rows' = rows /\ cols' = cols /\ sets' = sets /\ weight' = weight
      /\ rowSet' = rowSet /\ mainRows' = mainRows /\ mainCols' = mainCols /\ gapRows' = gapRows
  BY DEF triangle
<1>2. HasCore' <=> HasCore
  BY <1>1 DEF HasCore, Core
<1>3. Triangle' <=> Triangle
  BY <1>1 DEF Triangle
<1>4. GapOK' <=> GapOK
  BY <1>1, <1>2 DEF GapOK
<1>5. WeightsOK' <=> WeightsOK
  BY <1>1 DEF WeightsOK, Weighs, Has, Taken, Unset
<1> QED BY <1>1, <1>2, <1>3, <1>4, <1>5 DEF TriOK, RowsBuilt, triangle

\* Without a gap there is nothing to invert.
LEMMA NoGapNoThrow ==
  ASSUME gapRows = <<>>
  PROVE  Len(gapRows) <= GapLimit /\ ~Unsolvable(GapSystem)
<1>1. Len(gapRows) <= GapLimit
  BY PaxosAssumption DEF GapLimit
<1>2. GapSystem = <<>>
  BY DEF GapSystem
<1>3. {} \in GapCols(<<>>)
  <2>1. Cardinality({}) = 0 /\ Len(<<>>) = 0 /\ {} = 0..Len(<<>>) - 1
    BY FS_EmptySet
  <2>2. Invertible({}, <<>>)
    BY DEF Invertible, Zeros
  <2> QED BY <2>1, <2>2 DEF GapCols
<1> QED BY <1>1, <1>2, <1>3 DEF Unsolvable

LEMMA TriInvInit == Init => TriInv
  BY RowsInvInit DEF Init, TriInv, triangle

LEMMA TriInvNext ==
  ASSUME TriInv, [Next]_vars
  PROVE  TriInv'
<1>0. RowsInv /\ RowsInv'
  BY RowsInvNext DEF TriInv
<1>1. CASE SetInput
  <2>1. pc = "input" /\ pc' = "triangulate"
    BY <1>1 DEF SetInput
  <2>2. TriOK'
    BY <1>0, <1>1, <2>1, SetInputTri DEF TriInv
  <2> QED BY <1>0, <2>1, <2>2 DEF TriInv
<1>2. CASE TakeColumn
  <2>1. pc = "triangulate" /\ pc' = "triangulate"
    BY <1>2 DEF TakeColumn
  <2>2. TriOK'
    BY <1>0, <1>2, <2>1, TakeColumnTri DEF TriInv
  <2> QED BY <1>0, <2>1, <2>2 DEF TriInv
<1>3. CASE ThrowColumn
  <2>1. /\ pc = "triangulate" /\ pc' = "thrown" /\ Len(sets) > 1 /\ Bad(Open(MinWeightNode(sets)))
        /\ UNCHANGED <<hash, mWeight, rows, cols, sets, weight, triangle>>
    BY <1>3 DEF ThrowColumn, inputs, weights
  <2>2. TriOK
    BY <2>1 DEF TriInv
  <2>3. PICK n \in Nat : Chosen(MinWeightNode(sets), n)
    BY <2>1, <2>2, MinWeightChosen
  <2>4. PICK open : open = Open(MinWeightNode(sets)) /\ Bad(open) /\ Len(open) = n
    BY <2>1, <2>3 DEF Chosen, Once
  <2>5. n > 0 /\ (n > 1 => HasCore)
    BY <2>3 DEF Chosen
  <2>6. n > 1
    <3>1. open # <<>>
      BY <2>4, <2>5
    <3>2. \E k \in 2..n : TRUE
      BY <2>4, <3>1 DEF Bad
    <3> QED BY <3>2
  <2>7. TriOK' /\ HasCore'
    BY <2>1, <2>2, <2>5, <2>6, TriSame
  <2> QED BY <1>0, <2>1, <2>7 DEF TriInv
<1>4. CASE Triangulated
  <2>1. /\ pc = "triangulate" /\ pc' = "gap" /\ Len(sets) <= 1
        /\ UNCHANGED <<hash, mWeight, rows, cols, sets, weight, triangle>>
    BY <1>4 DEF Triangulated, inputs, weights
  <2>2. TriOK
    BY <2>1 DEF TriInv
  <2>3. rowSet = Items
    BY <1>0, <2>1, <2>2, AllSet
  <2>4. TriOK' /\ rowSet' = Items
    BY <2>1, <2>2, <2>3, TriSame
  <2> QED BY <1>0, <2>1, <2>4 DEF TriInv
<1>5. CASE SolveGap
  <2>1. /\ pc = "gap" /\ pc' = "back"
        /\ UNCHANGED <<hash, mWeight, rows, cols, sets, weight, triangle>>
    BY <1>5 DEF SolveGap, inputs, weights
  <2>2. TriOK' /\ rowSet' = Items
    BY <2>1, TriSame DEF TriInv
  <2> QED BY <1>0, <2>1, <2>2 DEF TriInv
<1>6. CASE ThrowGap
  <2>1. /\ pc = "gap" /\ pc' = "thrown"
        /\ UNCHANGED <<hash, mWeight, rows, cols, sets, weight, triangle>>
        /\ Len(gapRows) > GapLimit \/ Unsolvable(GapSystem)
    BY <1>6 DEF ThrowGap, inputs, weights
  <2>2. gapRows # <<>>
    <3> SUFFICES ASSUME gapRows = <<>> PROVE FALSE
      OBVIOUS
    <3>1. Len(gapRows) <= GapLimit /\ ~Unsolvable(GapSystem)
      BY NoGapNoThrow
    <3>2. Len(gapRows) = 0 /\ GapLimit \in Nat
      BY PaxosAssumption DEF GapLimit
    <3> QED BY <2>1, <3>1, <3>2
  <2>3. TriOK /\ HasCore
    BY <2>1, <2>2 DEF TriInv, TriOK, GapOK
  <2>4. TriOK' /\ HasCore'
    BY <2>1, <2>3, TriSame
  <2> QED BY <1>0, <2>1, <2>4 DEF TriInv
<1>7. CASE Backfill
  <2>1. /\ pc = "back" /\ pc' = "done"
        /\ UNCHANGED <<hash, mWeight, rows, cols, sets, weight, triangle>>
    BY <1>7 DEF Backfill, inputs, weights
  <2>2. TriOK' /\ rowSet' = Items
    BY <2>1, TriSame DEF TriInv
  <2> QED BY <1>0, <2>1, <2>2 DEF TriInv
<1>8. CASE Ended \/ UNCHANGED vars
  <2>1. pc' = pc /\ UNCHANGED <<hash, mWeight, rows, cols, sets, weight, triangle>>
    BY <1>8 DEF Ended, vars, triangle
  <2> QED BY <1>0, <2>1, TriSame DEF TriInv
<1> QED BY <1>1, <1>2, <1>3, <1>4, <1>5, <1>6, <1>7, <1>8 DEF Next

LEMMA TriInvAlways == Spec => []TriInv
  BY TriInvInit, TriInvNext, PTL DEF Spec

\* A column is always left: there are more columns than rows on the diagonal.
LEMMA ColumnLeft == ASSUME TriOK PROVE \E c \in Cols : c \notin Taken
<1>1. PICK L \in Nat : L = Len(mainCols) /\ L = Len(mainRows) /\ mainCols \in Seq(Cols) /\ mainRows \in Seq(Items)
  BY DEF TriOK, Triangle
<1>2. ASSUME NEW s \in 1..L, NEW t \in 1..L, s < t PROVE mainRows[s] # mainRows[t]
  <2>1. s \in 1..t - 1
    BY <1>2
  <2>2. mainCols[s] \notin Range(rows[mainRows[t]]) /\ mainCols[s] \in Range(rows[mainRows[s]])
    BY <1>1, <2>1 DEF TriOK, Triangle
  <2> QED BY <2>2
<1>3. mainRows \in Injection(1..L, Items)
  <2>1. DOMAIN mainRows = 1..L /\ mainRows \in [1..L -> Items]
    BY <1>1
  <2>2. \A s, t \in 1..L : mainRows[s] = mainRows[t] => s = t
    <3>1. \A s, t \in 1..L : s < t \/ t < s \/ s = t
      OBVIOUS
    <3> QED BY <1>2, <3>1
  <2> QED BY <2>1, <2>2 DEF Injection, IsInjective
<1>4. NumItems \in Nat /\ SparseSize \in Nat /\ SparseSize > NumItems
  BY PaxosAssumption
<1>5. IsFiniteSet(Items) /\ Cardinality(Items) = NumItems /\ IsFiniteSet(1..L) /\ Cardinality(1..L) = L
  BY <1>4, FS_Interval DEF Items
<1>6. L <= NumItems
  BY <1>3, <1>5, FS_Injection
<1>7. mainCols \in Surjection(1..L, Taken)
  <2>1. mainCols \in [1..L -> Cols] /\ DOMAIN mainCols = 1..L
    <3>1. mainCols \in Seq(Cols) /\ Len(mainCols) = L
      BY <1>1
    <3> QED BY <3>1, LenProperties
  <2>2. mainCols \in [1..L -> Taken] /\ \A c \in Taken : \E t \in 1..L : mainCols[t] = c
    BY <1>1, <2>1 DEF Taken, Range
  <2> QED BY <2>2 DEF Surjection
<1>8. Cardinality(Taken) <= L
  BY <1>5, <1>7, FS_Surjection
<1>9. IsFiniteSet(Cols) /\ Cardinality(Cols) = SparseSize
  <2>1. IsFiniteSet(0..SparseSize - 1) /\ Cardinality(0..SparseSize - 1) = SparseSize
    BY <1>4, FS_Interval
  <2> QED BY <2>1 DEF Cols, Columns
<1>10. Taken \subseteq Cols
  BY <1>1 DEF Taken, Range
<1>11. Taken # Cols
  BY <1>4, <1>6, <1>8, <1>9
<1> QED BY <1>10, <1>11

\* WeightData is exact at every step of triangulate.
THEOREM PaxosWeightsExact == Spec => []WeightsExact
<1>1. TriInv => WeightsExact
  <2> SUFFICES ASSUME TriInv, pc = "triangulate"
               PROVE  /\ sets # <<>> /\ sets[Len(sets)] # <<>>
                      /\ \A c \in Cols :
                           IF c \in Range(mainCols) THEN Listed(c) = {} /\ weight[c] = 0
                           ELSE /\ weight[c] = Cardinality({i \in Items \ rowSet : c \in Range(rows[i])})
                                /\ Cardinality(Listed(c)) = 1 /\ \A e \in Listed(c) : e[1] = weight[c] + 1
    BY DEF WeightsExact
  <2> DEFINE T == Cols \ Taken
  <2>1. TriOK
    BY DEF TriInv
  <2>2. PICK n \in Nat : WeightLists(sets, n, T, weight)
    BY <2>1 DEF TriOK, WeightsOK
  <2>3. /\ T \subseteq Cols /\ weight \in [Cols -> Nat] /\ sets \in Seq(Seq(Cols)) /\ Len(sets) = n
        /\ \A k \in 1..n : IsList(sets[k], At(T, weight, k))
        /\ \A c \in T : weight[c] + 1 \in 1..n
        /\ n > 0 => sets[n] # <<>>
    BY <2>2 DEF WeightLists
  <2>4. weight = Weighs(T, Unset)
    BY <2>1 DEF TriOK, WeightsOK
  <2>5. n > 0
    BY <2>1, <2>3, ColumnLeft
  <2>6. sets # <<>> /\ sets[Len(sets)] # <<>>
    BY <2>3, <2>5
  <2>7. SparseSize \in Nat
    BY PaxosAssumption
  <2> HIDE DEF T
  \* A list is no longer than there are columns.
  <2>8. ASSUME NEW k \in 1..n PROVE \E m \in 0..SparseSize : Once(sets[k], m, At(T, weight, k))
    <3>1. PICK m \in Nat : Once(sets[k], m, At(T, weight, k))
      BY <2>3 DEF IsList
    <3>2. IsFiniteSet(At(T, weight, k)) /\ Cardinality(At(T, weight, k)) = m
      BY <3>1, OnceSize
    <3>3. IsFiniteSet(Cols) /\ Cardinality(Cols) = SparseSize
      <4>1. IsFiniteSet(0..SparseSize - 1) /\ Cardinality(0..SparseSize - 1) = SparseSize
        BY <2>7, FS_Interval
      <4> QED BY <4>1 DEF Cols, Columns
    <3>4. At(T, weight, k) \subseteq Cols
      BY <2>3 DEF At
    <3>5. m <= SparseSize
      BY <3>2, <3>3, <3>4, FS_Subset
    <3> QED BY <2>7, <3>1, <3>5
  <2>9. ASSUME NEW c \in Cols, NEW e \in Listed(c) PROVE c \in T /\ e[1] = weight[c] + 1
    <3>1. e[1] \in 1..n /\ e[2] \in 1..Len(sets[e[1]]) /\ sets[e[1]][e[2]] = c
      BY <2>3 DEF Listed
    <3>2. PICK m \in Nat : Once(sets[e[1]], m, At(T, weight, e[1]))
      BY <2>3, <3>1 DEF IsList
    <3>3. c \in At(T, weight, e[1])
      BY <3>1, <3>2 DEF Once
    <3> QED BY <2>3, <3>1, <3>3 DEF At
  <2>10. ASSUME NEW c \in Cols, c \in Taken PROVE Listed(c) = {} /\ weight[c] = 0
    <3>1. c \notin T
      BY <2>10 DEF T
    <3> QED BY <2>4, <2>9, <3>1 DEF Weighs
  <2>11. ASSUME NEW c \in Cols, c \notin Taken
         PROVE  /\ weight[c] = Cardinality({i \in Items \ rowSet : c \in Range(rows[i])})
                /\ Cardinality(Listed(c)) = 1
    <3>1. c \in T
      BY <2>11 DEF T
    <3>2. weight[c] = Cardinality({i \in Items \ rowSet : c \in Range(rows[i])})
      BY <2>4, <3>1 DEF Weighs, Has, Unset
    <3>3. PICK k \in 1..n : k = weight[c] + 1
      BY <2>3, <3>1
    <3>4. c \in At(T, weight, k)
      BY <2>3, <3>1, <3>3 DEF At
    <3>5. PICK m \in 0..SparseSize : Once(sets[k], m, At(T, weight, k))
      BY <2>8
    <3>6. PICK a \in 1..m : sets[k][a] = c
      BY <3>4, <3>5 DEF Once
    <3>7. Len(sets[k]) = m
      BY <3>5 DEF Once
    <3>8. <<k, a>> \in Listed(c)
      BY <2>3, <2>7, <3>6, <3>7 DEF Listed
    <3>9. ASSUME NEW e \in Listed(c) PROVE e = <<k, a>>
      <4>1. e \in (1..Len(sets)) \X (1..SparseSize) /\ e[2] <= Len(sets[e[1]]) /\ sets[e[1]][e[2]] = c
        BY DEF Listed
      <4>2. e[1] = k
        BY <2>9, <3>3
      <4>3. e[2] \in 1..m
        BY <3>7, <4>1, <4>2
      <4>4. e[2] = a
        BY <3>5, <3>6, <4>1, <4>2, <4>3 DEF Once
      <4> QED BY <4>1, <4>2, <4>4
    <3>10. Listed(c) = {<<k, a>>}
      BY <3>8, <3>9
    <3> QED BY <3>2, <3>10, FS_Singleton
  <2> QED BY <2>6, <2>9, <2>10, <2>11 DEF Taken
<1> QED BY <1>1, TriInvAlways, PTL

\* A gap means a core, and without a core encode does not throw.
THEOREM PaxosGapOnlyOnCore == Spec => []GapOnlyOnCore
<1>1. TriInv => GapOnlyOnCore
  <2> SUFFICES ASSUME TriInv, pc = "gap", HasCore, gapRows = <<>> PROVE FALSE
    BY DEF TriInv, GapOnlyOnCore, TriOK, GapOK
  <2>1. TriOK /\ rowSet = Items
    BY DEF TriInv
  <2>2. PICK S \in (SUBSET Items) \ {{}} : Core(S)
    BY DEF HasCore
  <2>3. rowSet = Range(mainRows)
    <3>1. Len(gapRows) = 0
      OBVIOUS
    <3>2. {gapRows[k][1] : k \in 1..Len(gapRows)} = {}
      BY <3>1
    <3> QED BY <2>1, <3>2 DEF TriOK, GapOK
  <2>4. PICK L \in Nat : L = Len(mainRows) /\ DOMAIN mainRows = 1..L /\ L = Len(mainCols) /\ mainCols \in Seq(Cols)
    BY <2>1 DEF TriOK, Triangle
  <2>5. \A i \in S : \E t \in 1..L : mainRows[t] = i
    BY <2>1, <2>3, <2>4 DEF Range
  <2> DEFINE K == {t \in 1..L : mainRows[t] \in S}
  <2>6. K # {} /\ K \in SUBSET Nat
    BY <2>2, <2>5
  <2>7. PICK t \in K : \A s \in K : t <= s
    <3> HIDE DEF K
    <3> QED BY <2>6, LeastOf
  <2>8. mainRows[t] \in S /\ t \in 1..L /\ mainCols[t] \in Cols /\ mainCols[t] \in Range(rows[mainRows[t]])
    BY <2>1, <2>4, <2>7 DEF TriOK, Triangle
  <2>9. PICK j \in S \ {mainRows[t]} : mainCols[t] \in Range(rows[j])
    BY <2>2, <2>8 DEF Core
  <2>10. PICK s \in 1..L : mainRows[s] = j
    BY <2>5
  <2>11. s \in K /\ s # t
    BY <2>9, <2>10
  <2>12. t \in 1..s - 1
    <3>1. t <= s
      BY <2>7, <2>11
    <3> QED BY <2>8, <2>11, <3>1
  <2>13. mainCols[t] \notin Range(rows[mainRows[s]])
    BY <2>1, <2>4, <2>12 DEF TriOK, Triangle
  <2> QED BY <2>9, <2>10, <2>13
<1> QED BY <1>1, TriInvAlways, PTL

(***************************************************************************)
(* Sums of blocks.                                                         *)
(***************************************************************************)
LEMMA AddLaws ==
  /\ 0 \in Elem /\ 1 \in Elem
  /\ \A x \in Elem : Add(x, 0) = x /\ Add(0, x) = x /\ Add(x, x) = 0
  /\ \A x, y \in Elem : Add(x, y) \in Elem /\ Add(x, y) = Add(y, x) /\ Mul(x, y) \in Elem
  /\ \A x, y, z \in Elem : Add(Add(x, y), z) = Add(x, Add(y, z)) /\ Mul(x, Add(y, z)) = Add(Mul(x, y), Mul(x, z))
<1>1. 0 \in Elem /\ 1 \in Elem
  BY ElemAssumption
<1>2. \A x \in Elem : Add(x, 0) = x /\ Add(x, x) = 0
  BY ElemAssumption
<1>3. \A x, y \in Elem : Add(x, y) \in Elem /\ Add(x, y) = Add(y, x) /\ Mul(x, y) \in Elem
  BY ElemAssumption
<1>4. \A x, y, z \in Elem : Add(Add(x, y), z) = Add(x, Add(y, z)) /\ Mul(x, Add(y, z)) = Add(Mul(x, y), Mul(x, z))
  BY ElemAssumption
<1>5. \A x \in Elem : Add(0, x) = x
  BY <1>1, <1>2, <1>3
<1> QED BY <1>1, <1>2, <1>3, <1>4, <1>5

LEMMA AddSwap ==
  ASSUME NEW a \in Elem, NEW b \in Elem, NEW c \in Elem, NEW d \in Elem
  PROVE  Add(Add(a, b), Add(c, d)) = Add(Add(a, c), Add(b, d))
<1>1. Add(Add(a, b), Add(c, d)) = Add(a, Add(b, Add(c, d)))
  BY AddLaws
<1>2. Add(b, Add(c, d)) = Add(c, Add(b, d))
  <2>1. Add(b, Add(c, d)) = Add(Add(b, c), d)
    BY AddLaws
  <2>2. Add(c, Add(b, d)) = Add(Add(c, b), d)
    BY AddLaws
  <2>3. Add(b, c) = Add(c, b)
    BY AddLaws
  <2> QED BY <2>1, <2>2, <2>3
<1>3. Add(a, Add(c, Add(b, d))) = Add(Add(a, c), Add(b, d))
  BY AddLaws
<1> QED BY <1>1, <1>2, <1>3

LEMMA AddCancel ==
  ASSUME NEW a \in Elem, NEW b \in Elem, NEW c \in Elem, Add(a, c) = Add(b, c)
  PROVE  a = b
<1>1. Add(Add(a, c), c) = Add(a, Add(c, c)) /\ Add(Add(b, c), c) = Add(b, Add(c, c))
  BY AddLaws
<1>2. Add(c, c) = 0 /\ Add(a, 0) = a /\ Add(b, 0) = b
  BY AddLaws
<1> QED BY <1>1, <1>2

LEMMA MulZero == ASSUME NEW x \in Elem PROVE Mul(x, 0) = 0
<1>1. 0 \in Elem /\ Add(0, 0) = 0
  BY AddLaws
<1>2. Mul(x, Add(0, 0)) = Add(Mul(x, 0), Mul(x, 0))
  BY <1>1, AddLaws
<1>3. Mul(x, 0) \in Elem
  BY <1>1, AddLaws
<1>4. Add(Mul(x, 0), Mul(x, 0)) = 0
  BY <1>3, AddLaws
<1> QED BY <1>1, <1>2, <1>4

\* The partial sums of f.
Sums(s, n, f) == s \in [0..n -> Elem] /\ s[0] = 0 /\ \A k \in 1..n : s[k] = Add(s[k - 1], f[k])
LEMMA SumIs ==
  ASSUME NEW n \in Nat, NEW f \in [1..n -> Elem]
  PROVE  \E s : Sums(s, n, f) /\ SumTo(n, f) = s[n]
<1> DEFINE step == [k \in 1..n |-> [x \in Elem |-> Add(x, f[k])]]
           Is(p) == p = [k \in 0..n |-> IF k = 0 THEN 0 ELSE Add(p[k - 1], f[k])]
           sum == CHOOSE p : Is(p)
<1>1. SumTo(n, f) = sum[n]
  BY DEF SumTo
<1>2. \A k \in 1..n, x \in Elem : Add(x, f[k]) \in Elem
  BY AddLaws
<1>3. PICK g : Follows(g, n, Elem, 0, step)
  <2>1. step \in [1..n -> [Elem -> Elem]]
    BY <1>2
  <2>2. 0 \in Elem
    BY AddLaws
  <2> HIDE DEF step
  <2> QED BY <2>1, <2>2, Recursion
<1>4. Is(g)
  <2>1. g = [j \in 0..n |-> g[j]] /\ g[0] = 0
    BY <1>3 DEF Follows
  <2>2. ASSUME NEW j \in 1..n PROVE g[j] = Add(g[j - 1], f[j])
    <3>1. j - 1 \in 0..n
      OBVIOUS
    <3>2. g[j] = step[j][g[j - 1]] /\ g[j - 1] \in Elem
      <4> HIDE DEF step
      <4> QED BY <1>3, <3>1 DEF Follows
    <3> QED BY <3>2
  <2>3. \A j \in 0..n : j # 0 => j \in 1..n
    OBVIOUS
  <2>4. \A j \in 0..n : g[j] = IF j = 0 THEN 0 ELSE Add(g[j - 1], f[j])
    BY <2>1, <2>2, <2>3
  <2> QED BY <2>1, <2>4
<1>5. sum = [k \in 0..n |-> sum[k]] /\ sum[0] = 0 /\ \A j \in 1..n : sum[j] = Add(sum[j - 1], f[j])
  <2>1. Is(sum)
    <3> HIDE DEF Is
    <3> QED BY <1>4
  <2>2. sum = [j \in 0..n |-> IF j = 0 THEN 0 ELSE Add(sum[j - 1], f[j])]
    BY <2>1
  <2>3. 0 \in 0..n /\ \A j \in 1..n : j \in 0..n /\ j # 0
    OBVIOUS
  <2> HIDE DEF sum
  <2> QED BY <2>2, <2>3
<1> HIDE DEF sum
<1> DEFINE S == {j \in Nat : j \in 0..n => sum[j] \in Elem}
<1>6. 0 \in S
  BY <1>5, AddLaws
<1>7. ASSUME NEW j \in Nat, j \in S PROVE j + 1 \in S
  <2> SUFFICES ASSUME j + 1 \in 0..n PROVE sum[j + 1] \in Elem
    OBVIOUS
  <2>1. j \in 0..n /\ j + 1 \in 1..n /\ (j + 1) - 1 = j
    OBVIOUS
  <2>2. sum[j] \in Elem
    BY <1>7, <2>1
  <2>3. sum[j + 1] = Add(sum[j], f[j + 1])
    BY <1>5, <2>1
  <2> QED BY <1>2, <2>1, <2>2, <2>3
<1>8. \A j \in 0..n : sum[j] \in Elem
  <2> HIDE DEF S
  <2>1. Nat \subseteq S
    BY <1>6, <1>7, Induction
  <2>2. \A j \in 0..n : j \in Nat
    OBVIOUS
  <2> QED BY <2>1, <2>2 DEF S
<1>9. Sums(sum, n, f)
  BY <1>5, <1>8 DEF Sums
<1> QED BY <1>1, <1>9

\* There is no other.
LEMMA SumOf ==
  ASSUME NEW n \in Nat, NEW f \in [1..n -> Elem], NEW u, Sums(u, n, f)
  PROVE  SumTo(n, f) = u[n]
<1>1. PICK s : Sums(s, n, f) /\ SumTo(n, f) = s[n]
  BY SumIs
<1> DEFINE S == {j \in Nat : j \in 0..n => u[j] = s[j]}
<1>2. 0 \in S
  BY <1>1 DEF Sums
<1>3. ASSUME NEW j \in Nat, j \in S PROVE j + 1 \in S
  <2> SUFFICES ASSUME j + 1 \in 0..n PROVE u[j + 1] = s[j + 1]
    OBVIOUS
  <2>1. j \in 0..n /\ j + 1 \in 1..n /\ (j + 1) - 1 = j
    OBVIOUS
  <2>2. u[j] = s[j]
    BY <1>3, <2>1
  <2>3. u[j + 1] = Add(u[j], f[j + 1]) /\ s[j + 1] = Add(s[j], f[j + 1])
    BY <1>1, <2>1 DEF Sums
  <2> QED BY <2>2, <2>3
<1>4. n \in S
  <2> HIDE DEF S
  <2> QED BY <1>2, <1>3, Induction
<1>5. n \in 0..n
  OBVIOUS
<1> QED BY <1>1, <1>4, <1>5

LEMMA SumIn == ASSUME NEW n \in Nat, NEW f \in [1..n -> Elem] PROVE SumTo(n, f) \in Elem
<1>1. PICK s : Sums(s, n, f) /\ SumTo(n, f) = s[n]
  BY SumIs
<1>2. n \in 0..n
  OBVIOUS
<1> QED BY <1>1, <1>2 DEF Sums

\* Sums add up, term by term.
IsSumOf(h, f, g, n) == h \in [1..n -> Elem] /\ \A k \in 1..n : h[k] = Add(f[k], g[k])
LEMMA SumAdd ==
  ASSUME NEW n \in Nat, NEW f \in [1..n -> Elem], NEW g \in [1..n -> Elem], NEW h, IsSumOf(h, f, g, n)
  PROVE  SumTo(n, h) = Add(SumTo(n, f), SumTo(n, g))
<1>1. PICK s : Sums(s, n, f) /\ SumTo(n, f) = s[n]
  BY SumIs
<1>2. PICK t : Sums(t, n, g) /\ SumTo(n, g) = t[n]
  BY SumIs
<1> DEFINE u == [k \in 0..n |-> Add(s[k], t[k])]
<1>3. \A k \in 0..n : s[k] \in Elem /\ t[k] \in Elem
  BY <1>1, <1>2 DEF Sums
<1>4. u \in [0..n -> Elem]
  BY <1>3, AddLaws
<1>5. u[0] = 0
  BY <1>1, <1>2, AddLaws DEF Sums
<1>6. ASSUME NEW k \in 1..n PROVE u[k] = Add(u[k - 1], h[k])
  <2>1. k \in 0..n /\ k - 1 \in 0..n
    OBVIOUS
  <2>2. s[k - 1] \in Elem /\ t[k - 1] \in Elem /\ f[k] \in Elem /\ g[k] \in Elem
    BY <1>3, <2>1
  <2>3. Add(Add(s[k - 1], f[k]), Add(t[k - 1], g[k])) = Add(Add(s[k - 1], t[k - 1]), Add(f[k], g[k]))
    BY <2>2, AddSwap
  <2>4. s[k] = Add(s[k - 1], f[k]) /\ t[k] = Add(t[k - 1], g[k])
    BY <1>1, <1>2 DEF Sums
  <2>5. h[k] = Add(f[k], g[k])
    BY DEF IsSumOf
  <2>6. u[k] = Add(s[k], t[k]) /\ u[k - 1] = Add(s[k - 1], t[k - 1])
    BY <2>1
  <2> QED BY <2>3, <2>4, <2>5, <2>6
<1>7. u[n] = Add(s[n], t[n])
  OBVIOUS
<1> HIDE DEF u
<1>8. Sums(u, n, h)
  BY <1>4, <1>5, <1>6 DEF Sums
<1>9. SumTo(n, h) = u[n]
  BY <1>8, SumOf DEF IsSumOf
<1> QED BY <1>1, <1>2, <1>7, <1>9

LEMMA SumZero ==
  ASSUME NEW n \in Nat, NEW f \in [1..n -> {0}]
  PROVE  SumTo(n, f) = 0
<1> DEFINE u == [k \in 0..n |-> 0]
<1>1. 0 \in Elem /\ Add(0, 0) = 0
  BY AddLaws
<1>2. \A k \in 1..n : u[k] = Add(u[k - 1], f[k])
  <2>1. \A k \in 1..n : k \in 0..n /\ k - 1 \in 0..n
    OBVIOUS
  <2>2. \A k \in 1..n : u[k] = 0 /\ u[k - 1] = 0 /\ f[k] = 0
    BY <2>1
  <2> HIDE DEF u
  <2> QED BY <1>1, <2>2
<1>3. Sums(u, n, f)
  BY <1>1, <1>2 DEF Sums
<1>4. f \in [1..n -> Elem] /\ u[n] = 0
  BY <1>1
<1> HIDE DEF u
<1> QED BY <1>3, <1>4, SumOf

\* One term more, at the end or at the head.
IsLonger(h, f, x, n) == h \in [1..n + 1 -> Elem] /\ h[n + 1] = x /\ \A k \in 1..n : h[k] = f[k]
LEMMA SumLast ==
  ASSUME NEW n \in Nat, NEW f \in [1..n -> Elem], NEW x \in Elem, NEW h, IsLonger(h, f, x, n)
  PROVE  SumTo(n + 1, h) = Add(SumTo(n, f), x)
<1>1. PICK s : Sums(s, n, f) /\ SumTo(n, f) = s[n]
  BY SumIs
<1> DEFINE u == [k \in 0..n + 1 |-> IF k = n + 1 THEN Add(s[n], x) ELSE s[k]]
<1>2. s \in [0..n -> Elem] /\ s[0] = 0 /\ \A k \in 1..n : s[k] = Add(s[k - 1], f[k])
  BY <1>1 DEF Sums
<1>3. s[n] \in Elem /\ Add(s[n], x) \in Elem
  <2>1. s[n] \in Elem
    BY <1>2
  <2> QED BY <2>1, AddLaws
<1>4. u \in [0..n + 1 -> Elem] /\ u[0] = 0
  BY <1>2, <1>3
<1>5. ASSUME NEW k \in 1..n + 1 PROVE u[k] = Add(u[k - 1], h[k])
  <2>1. CASE k = n + 1
    <3>1. u[k] = Add(s[n], x) /\ u[k - 1] = s[n] /\ h[k] = x
      BY <2>1 DEF IsLonger
    <3> HIDE DEF u
    <3> QED BY <3>1
  <2>2. CASE k # n + 1
    <3>1. k \in 1..n /\ u[k] = s[k] /\ u[k - 1] = s[k - 1]
      BY <2>2
    <3>2. h[k] = f[k]
      BY <3>1 DEF IsLonger
    <3> HIDE DEF u
    <3> QED BY <1>2, <3>1, <3>2
  <2> QED BY <2>1, <2>2
<1>6. u[n + 1] = Add(s[n], x)
  OBVIOUS
<1> HIDE DEF u
<1>7. Sums(u, n + 1, h)
  BY <1>4, <1>5 DEF Sums
<1>8. SumTo(n + 1, h) = u[n + 1]
  <2>1. n + 1 \in Nat /\ h \in [1..n + 1 -> Elem]
    BY DEF IsLonger
  <2> QED BY <1>7, <2>1, SumOf
<1> QED BY <1>1, <1>6, <1>8

IsHeaded(h, f, x, n) == h \in [1..n + 1 -> Elem] /\ h[1] = x /\ \A k \in 1..n : h[k + 1] = f[k]
LEMMA SumHead ==
  ASSUME NEW n \in Nat, NEW f \in [1..n -> Elem], NEW x \in Elem, NEW h, IsHeaded(h, f, x, n)
  PROVE  SumTo(n + 1, h) = Add(x, SumTo(n, f))
<1>1. PICK s : Sums(s, n, f) /\ SumTo(n, f) = s[n]
  BY SumIs
<1> DEFINE u == [k \in 0..n + 1 |-> IF k = 0 THEN 0 ELSE Add(x, s[k - 1])]
<1>2. s \in [0..n -> Elem] /\ s[0] = 0 /\ \A k \in 1..n : s[k] = Add(s[k - 1], f[k])
  BY <1>1 DEF Sums
<1>3. u \in [0..n + 1 -> Elem] /\ u[0] = 0
  <2>1. \A k \in 0..n + 1 : k # 0 => s[k - 1] \in Elem
    BY <1>2
  <2>2. \A k \in 0..n + 1 : (IF k = 0 THEN 0 ELSE Add(x, s[k - 1])) \in Elem
    BY <2>1, AddLaws
  <2>3. 0 \in 0..n + 1
    OBVIOUS
  <2> QED BY <2>2, <2>3
<1>4. ASSUME NEW k \in 1..n + 1 PROVE u[k] = Add(u[k - 1], h[k])
  <2>1. CASE k = 1
    <3>1. u[k] = Add(x, s[0]) /\ u[k - 1] = 0 /\ h[k] = x
      BY <2>1 DEF IsHeaded
    <3> HIDE DEF u
    <3> QED BY <1>2, <3>1, AddLaws
  <2>2. CASE k # 1
    <3>1. PICK j \in 1..n : k = j + 1
      BY <2>2
    <3>2. j - 1 \in 0..n /\ s[j - 1] \in Elem /\ f[j] \in Elem
      BY <1>2
    <3>3. u[k] = Add(x, s[j]) /\ u[k - 1] = Add(x, s[j - 1])
      BY <3>1
    <3>4. h[k] = f[j] /\ s[j] = Add(s[j - 1], f[j])
      BY <1>2, <3>1 DEF IsHeaded
    <3> HIDE DEF u
    <3>5. PICK a \in Elem, b \in Elem : a = s[j - 1] /\ b = f[j]
      BY <3>2
    <3>6. Add(x, Add(a, b)) = Add(Add(x, a), b)
      BY AddLaws
    <3> QED BY <3>3, <3>4, <3>5, <3>6
  <2> QED BY <2>1, <2>2
<1>5. u[n + 1] = Add(x, s[n])
  OBVIOUS
<1> HIDE DEF u
<1>6. Sums(u, n + 1, h)
  BY <1>3, <1>4 DEF Sums
<1>7. SumTo(n + 1, h) = u[n + 1]
  <2>1. n + 1 \in Nat /\ h \in [1..n + 1 -> Elem]
    BY DEF IsHeaded
  <2> QED BY <1>6, <2>1, SumOf
<1> QED BY <1>1, <1>5, <1>7

\* A sum with one term.
IsAlone(f, j, x, n) == f \in [1..n -> Elem] /\ f[j] = x /\ \A k \in 1..n : k # j => f[k] = 0
LEMMA SumOne ==
  ASSUME NEW n \in Nat, NEW j \in 1..n, NEW x \in Elem, NEW f, IsAlone(f, j, x, n)
  PROVE  SumTo(n, f) = x
<1> DEFINE u == [k \in 0..n |-> IF k < j THEN 0 ELSE x]
<1>1. 0 \in Elem /\ Add(0, 0) = 0 /\ Add(0, x) = x /\ Add(x, 0) = x
  BY AddLaws
<1>2. u \in [0..n -> Elem] /\ u[0] = 0 /\ u[n] = x
  BY <1>1
<1>3. ASSUME NEW k \in 1..n PROVE u[k] = Add(u[k - 1], f[k])
  <2>1. k \in 0..n /\ k - 1 \in 0..n
    OBVIOUS
  <2>2. CASE k < j
    <3>1. u[k] = 0 /\ u[k - 1] = 0 /\ f[k] = 0
      BY <2>1, <2>2 DEF IsAlone
    <3> HIDE DEF u
    <3> QED BY <1>1, <3>1
  <2>3. CASE k = j
    <3>1. u[k] = x /\ u[k - 1] = 0 /\ f[k] = x
      BY <2>1, <2>3 DEF IsAlone
    <3> HIDE DEF u
    <3> QED BY <1>1, <3>1
  <2>4. CASE k > j
    <3>1. u[k] = x /\ u[k - 1] = x /\ f[k] = 0
      BY <2>1, <2>4 DEF IsAlone
    <3> HIDE DEF u
    <3> QED BY <1>1, <3>1
  <2> QED BY <2>2, <2>3, <2>4
<1> HIDE DEF u
<1>4. Sums(u, n, f)
  BY <1>2, <1>3 DEF Sums
<1> QED BY <1>2, <1>4, SumOf DEF IsAlone

\* The sum of P over a set of columns.
Picked(q, A) == [k \in 1..SparseSize |-> IF k - 1 \in A THEN q[k - 1] ELSE 0]
SetSum(q, A) == SumTo(SparseSize, Picked(q, A))
LEMMA ColsAre == SparseSize \in Nat /\ (\A k \in 1..SparseSize : k - 1 \in Cols) /\ \A c \in Cols : c + 1 \in 1..SparseSize /\ (c + 1) - 1 = c
<1>1. SparseSize \in Nat
  BY PaxosAssumption
<1> QED BY <1>1 DEF Cols, Columns

LEMMA PickedIn == ASSUME NEW q \in [Cols -> Elem], NEW A PROVE Picked(q, A) \in [1..SparseSize -> Elem]
<1>1. \A k \in 1..SparseSize : (IF k - 1 \in A THEN q[k - 1] ELSE 0) \in Elem
  BY ColsAre, AddLaws
<1> QED BY <1>1 DEF Picked

LEMMA SetSumIn == ASSUME NEW q \in [Cols -> Elem], NEW A PROVE SetSum(q, A) \in Elem
  BY PickedIn, ColsAre, SumIn DEF SetSum

LEMMA SetSumXor ==
  ASSUME NEW q \in [Cols -> Elem], NEW A, NEW B
  PROVE  SetSum(q, (A \cup B) \ (A \cap B)) = Add(SetSum(q, A), SetSum(q, B))
<1> DEFINE C == (A \cup B) \ (A \cap B)
           f == Picked(q, A)
           g == Picked(q, B)
           h == Picked(q, C)
<1>1. ASSUME NEW k \in 1..SparseSize PROVE h[k] = Add(f[k], g[k])
  <2>1. PICK x \in Elem : x = q[k - 1]
    BY ColsAre
  <2>2. f[k] = (IF k - 1 \in A THEN x ELSE 0) /\ g[k] = (IF k - 1 \in B THEN x ELSE 0) /\ h[k] = (IF k - 1 \in C THEN x ELSE 0)
    BY <2>1 DEF Picked
  <2>3. Add(x, 0) = x /\ Add(0, x) = x /\ Add(x, x) = 0 /\ Add(0, 0) = 0
    BY AddLaws
  <2> HIDE DEF f, g, h
  <2> QED BY <2>2, <2>3
<1>2. f \in [1..SparseSize -> Elem] /\ g \in [1..SparseSize -> Elem] /\ h \in [1..SparseSize -> Elem]
  BY PickedIn
<1> HIDE DEF f, g, h
<1>3. IsSumOf(h, f, g, SparseSize)
  BY <1>1, <1>2 DEF IsSumOf
<1>4. SumTo(SparseSize, h) = Add(SumTo(SparseSize, f), SumTo(SparseSize, g))
  BY <1>2, <1>3, ColsAre, SumAdd
<1> QED BY <1>4 DEF SetSum, f, g, h

LEMMA SetSumEmpty == ASSUME NEW q \in [Cols -> Elem] PROVE SetSum(q, {}) = 0
<1>1. Picked(q, {}) \in [1..SparseSize -> {0}]
  BY DEF Picked
<1> QED BY <1>1, ColsAre, SumZero DEF SetSum

LEMMA SetSumOne == ASSUME NEW q \in [Cols -> Elem], NEW c \in Cols PROVE SetSum(q, {c}) = q[c]
<1>1. c + 1 \in 1..SparseSize /\ (c + 1) - 1 = c /\ q[c] \in Elem
  BY ColsAre
<1>2. Picked(q, {c})[c + 1] = q[c]
  BY <1>1 DEF Picked
<1>3. \A k \in 1..SparseSize : k # c + 1 => Picked(q, {c})[k] = 0
  <2>1. c \in Int
    BY ColsAre DEF Cols, Columns
  <2>2. \A k \in 1..SparseSize : k # c + 1 => k - 1 # c
    BY <2>1
  <2> QED BY <2>2 DEF Picked
<1>4. IsAlone(Picked(q, {c}), c + 1, q[c], SparseSize)
  BY <1>2, <1>3, PickedIn DEF IsAlone
<1> QED BY <1>1, <1>4, ColsAre, SumOne DEF SetSum

\* It depends on P at these columns alone.
LEMMA SetSumSame ==
  ASSUME NEW q \in [Cols -> Elem], NEW r \in [Cols -> Elem], NEW A, \A c \in A \cap Cols : q[c] = r[c]
  PROVE  SetSum(q, A) = SetSum(r, A)
<1>1. \A k \in 1..SparseSize : (IF k - 1 \in A THEN q[k - 1] ELSE 0) = (IF k - 1 \in A THEN r[k - 1] ELSE 0)
  BY ColsAre
<1>2. Picked(q, A) = Picked(r, A)
  BY <1>1 DEF Picked
<1> QED BY <1>2 DEF SetSum

\* Columns at which P is zero may be left out.
LEMMA SetSumZeros ==
  ASSUME NEW q \in [Cols -> Elem], NEW A, NEW B, B \subseteq A, \A c \in (A \ B) \cap Cols : q[c] = 0
  PROVE  SetSum(q, A) = SetSum(q, B)
<1>1. ASSUME NEW k \in 1..SparseSize
      PROVE  (IF k - 1 \in A THEN q[k - 1] ELSE 0) = (IF k - 1 \in B THEN q[k - 1] ELSE 0)
  <2>1. PICK c \in Cols : c = k - 1
    BY ColsAre
  <2>2. c \in A /\ c \notin B => q[c] = 0
    OBVIOUS
  <2> QED BY <2>1, <2>2
<1>2. Picked(q, A) = Picked(q, B)
  BY <1>1 DEF Picked
<1> QED BY <1>2 DEF SetSum

\* Putting a value at a column that was zero adds it.
LEMMA SetSumPut ==
  ASSUME NEW q \in [Cols -> Elem], NEW A, NEW c \in A \cap Cols, q[c] = 0, NEW x \in Elem
  PROVE  SetSum([q EXCEPT ![c] = x], A) = Add(SetSum(q, A), x)
<1> DEFINE r == [q EXCEPT ![c] = x]
           B == A \ {c}
<1>1. r \in [Cols -> Elem] /\ r[c] = x /\ \A b \in Cols : b # c => r[b] = q[b]
  OBVIOUS
<1> HIDE DEF r
<1>2. A = (B \cup {c}) \ (B \cap {c})
  OBVIOUS
<1>3. SetSum(r, A) = Add(SetSum(r, B), SetSum(r, {c}))
  <2> HIDE DEF B
  <2> QED BY <1>1, <1>2, SetSumXor
<1>4. SetSum(r, {c}) = x
  BY <1>1, SetSumOne
<1>5. SetSum(r, B) = SetSum(q, B)
  <2>1. \A b \in B \cap Cols : r[b] = q[b]
    BY <1>1
  <2> HIDE DEF B
  <2> QED BY <1>1, <2>1, SetSumSame
<1>6. SetSum(q, A) = SetSum(q, B)
  <2>1. B \subseteq A /\ \A b \in (A \ B) \cap Cols : q[b] = 0
    OBVIOUS
  <2> HIDE DEF B
  <2> QED BY <2>1, SetSumZeros
<1> QED BY <1>3, <1>4, <1>5, <1>6 DEF r

\* So adds up a row.
LEMMA SumAtRow ==
  ASSUME NEW q \in [Cols -> Elem], NEW n \in Nat, NEW row, NEW U \in SUBSET Cols, Once(row, n, U)
  PROVE  SumAt(row, q) = SetSum(q, U)
<1> DEFINE f == [k \in 1..n |-> q[row[k]]]
           In(k) == {c \in U : \E a \in 1..k : row[a] = c}
           u == [k \in 0..n |-> SetSum(q, In(k))]
<1>1. Len(row) = n /\ (\A k \in 1..n : row[k] \in U /\ row[k] \in Cols) /\ \A a, b \in 1..n : row[a] = row[b] => a = b
  BY DEF Once
<1>2. f \in [1..n -> Elem]
  BY <1>1
<1>3. SumAt(row, q) = SumTo(n, f)
  BY <1>1 DEF SumAt
<1>4. In(0) = {} /\ In(n) = U
  <2>1. In(0) = {}
    OBVIOUS
  <2> QED BY <2>1 DEF Once
<1>5. ASSUME NEW k \in 1..n PROVE SetSum(q, In(k)) = Add(SetSum(q, In(k - 1)), q[row[k]])
  <2>1. PICK c \in Cols : c = row[k] /\ c \in U
    BY <1>1
  <2>2. c \notin In(k - 1)
    <3> SUFFICES ASSUME NEW a \in 1..k - 1, row[a] = c PROVE FALSE
      OBVIOUS
    <3>1. a \in 1..n /\ a # k
      OBVIOUS
    <3> QED BY <1>1, <2>1, <3>1
  <2>3. In(k) = (In(k - 1) \cup {c}) \ (In(k - 1) \cap {c})
    <3>1. \A a \in 1..k : a \in 1..k - 1 \/ a = k
      OBVIOUS
    <3>2. k \in 1..k /\ \A a \in 1..k - 1 : a \in 1..k
      OBVIOUS
    <3> QED BY <2>1, <2>2, <3>1, <3>2
  <2>4. PICK A : A = In(k - 1)
    OBVIOUS
  <2> HIDE DEF In
  <2>5. SetSum(q, (A \cup {c}) \ (A \cap {c})) = Add(SetSum(q, A), SetSum(q, {c}))
    BY SetSumXor
  <2>6. SetSum(q, {c}) = q[c]
    BY SetSumOne
  <2>7. SetSum(q, In(k)) = SetSum(q, (A \cup {c}) \ (A \cap {c}))
    BY <2>3, <2>4
  <2> QED BY <2>1, <2>4, <2>5, <2>6, <2>7
<1> HIDE DEF In
<1>6. u \in [0..n -> Elem] /\ u[0] = 0 /\ u[n] = SetSum(q, U)
  <2>1. \A k \in 0..n : SetSum(q, In(k)) \in Elem
    BY SetSumIn
  <2>2. SetSum(q, In(0)) = 0
    BY <1>4, SetSumEmpty
  <2> QED BY <1>4, <2>1, <2>2
<1>7. \A k \in 1..n : u[k] = Add(u[k - 1], f[k])
  <2>1. \A k \in 1..n : k \in 0..n /\ k - 1 \in 0..n
    OBVIOUS
  <2>2. \A k \in 1..n : u[k] = SetSum(q, In(k)) /\ u[k - 1] = SetSum(q, In(k - 1)) /\ f[k] = q[row[k]]
    BY <2>1
  <2> HIDE DEF u, f
  <2> QED BY <1>5, <2>2
<1> HIDE DEF u, f
<1>8. Sums(u, n, f)
  BY <1>6, <1>7 DEF Sums
<1> QED BY <1>2, <1>3, <1>6, <1>8, SumOf

(***************************************************************************)
(* Rows of dense coefficients.                                             *)
(***************************************************************************)
Terms(coefs, p) == [k \in 1..DenseSize |-> Mul(p[k - 1], coefs[k - 1])]
LEMMA DenseColsAre == DenseSize \in Nat /\ \A k \in 1..DenseSize : k - 1 \in DenseCols
<1>1. DenseSize \in Nat
  BY PaxosAssumption
<1> QED BY <1>1 DEF DenseCols

LEMMA TermsIn ==
  ASSUME NEW f \in [DenseCols -> Elem], NEW p \in [DenseCols -> Elem]
  PROVE  Terms(f, p) \in [1..DenseSize -> Elem]
<1>1. \A k \in 1..DenseSize : p[k - 1] \in Elem /\ f[k - 1] \in Elem
  BY DenseColsAre
<1>2. \A k \in 1..DenseSize : Mul(p[k - 1], f[k - 1]) \in Elem
  BY <1>1, AddLaws
<1> QED BY <1>2 DEF Terms

LEMMA TimesIn ==
  ASSUME NEW f \in [DenseCols -> Elem], NEW p \in [DenseCols -> Elem] PROVE Times(f, p) \in Elem
  BY TermsIn, DenseColsAre, SumIn DEF Times, Terms

IsRowSum(h, f, g) == h \in [DenseCols -> Elem] /\ \A c \in DenseCols : h[c] = Add(f[c], g[c])
LEMMA TimesAdd ==
  ASSUME NEW f \in [DenseCols -> Elem], NEW g \in [DenseCols -> Elem], NEW p \in [DenseCols -> Elem],
         NEW h, IsRowSum(h, f, g)
  PROVE  Times(h, p) = Add(Times(f, p), Times(g, p))
<1>1. h \in [DenseCols -> Elem]
  BY DEF IsRowSum
<1>2. ASSUME NEW k \in 1..DenseSize PROVE Terms(h, p)[k] = Add(Terms(f, p)[k], Terms(g, p)[k])
  <2>1. PICK c \in DenseCols : c = k - 1
    BY DenseColsAre
  <2>2. Mul(p[c], Add(f[c], g[c])) = Add(Mul(p[c], f[c]), Mul(p[c], g[c]))
    BY AddLaws
  <2>3. h[c] = Add(f[c], g[c])
    BY DEF IsRowSum
  <2> QED BY <2>1, <2>2, <2>3 DEF Terms
<1>3. IsSumOf(Terms(h, p), Terms(f, p), Terms(g, p), DenseSize)
  BY <1>1, <1>2, TermsIn DEF IsSumOf
<1>4. SumTo(DenseSize, Terms(h, p)) = Add(SumTo(DenseSize, Terms(f, p)), SumTo(DenseSize, Terms(g, p)))
  BY <1>3, TermsIn, DenseColsAre, SumAdd
<1> QED BY <1>4 DEF Times, Terms

LEMMA TimesZero ==
  ASSUME NEW p \in [DenseCols -> Elem], NEW f, f = [c \in DenseCols |-> 0] PROVE Times(f, p) = 0
<1>1. \A k \in 1..DenseSize : Mul(p[k - 1], f[k - 1]) = 0
  <2> TAKE k \in 1..DenseSize
  <2>1. PICK c \in DenseCols : c = k - 1
    BY DenseColsAre
  <2>2. Mul(p[c], 0) = 0
    BY MulZero
  <2> QED BY <2>1, <2>2
<1>2. Terms(f, p) \in [1..DenseSize -> {0}]
  BY <1>1 DEF Terms
<1> QED BY <1>2, DenseColsAre, SumZero DEF Times, Terms

\* The dense part of a row: bits, or powers of the key.
InputsOK == dense \in [Items -> Elem] /\ X \in [Items -> Elem]
LEMMA PowerIn == ASSUME NEW d \in Elem, NEW n \in Nat PROVE Power(d, n) \in Elem
<1> DEFINE step == [k \in 1..n |-> [x \in Elem |-> Mul(x, d)]]
           Is(p) == p = [k \in 0..n |-> IF k = 0 THEN d ELSE Mul(p[k - 1], d)]
           pow == CHOOSE p : Is(p)
<1>1. Power(d, n) = pow[n]
  BY DEF Power
<1>2. \A x \in Elem : Mul(x, d) \in Elem
  BY AddLaws
<1>3. PICK g : Follows(g, n, Elem, d, step)
  <2>1. step \in [1..n -> [Elem -> Elem]]
    BY <1>2
  <2> HIDE DEF step
  <2> QED BY <2>1, Recursion
<1>4. Is(g)
  <2>1. g = [j \in 0..n |-> g[j]] /\ g[0] = d
    BY <1>3 DEF Follows
  <2>2. ASSUME NEW j \in 1..n PROVE g[j] = Mul(g[j - 1], d)
    <3>1. j - 1 \in 0..n
      OBVIOUS
    <3>2. g[j] = step[j][g[j - 1]] /\ g[j - 1] \in Elem
      <4> HIDE DEF step
      <4> QED BY <1>3, <3>1 DEF Follows
    <3> QED BY <3>2
  <2>3. \A j \in 0..n : j # 0 => j \in 1..n
    OBVIOUS
  <2>4. \A j \in 0..n : g[j] = IF j = 0 THEN d ELSE Mul(g[j - 1], d)
    BY <2>1, <2>2, <2>3
  <2> QED BY <2>1, <2>4
<1>5. pow[0] = d /\ \A j \in 1..n : pow[j] = Mul(pow[j - 1], d)
  <2>1. Is(pow)
    <3> HIDE DEF Is
    <3> QED BY <1>4
  <2>2. pow = [j \in 0..n |-> IF j = 0 THEN d ELSE Mul(pow[j - 1], d)]
    BY <2>1
  <2>3. 0 \in 0..n /\ \A j \in 1..n : j \in 0..n /\ j # 0
    OBVIOUS
  <2> HIDE DEF pow
  <2> QED BY <2>2, <2>3
<1> HIDE DEF pow
<1> DEFINE S == {j \in Nat : j \in 0..n => pow[j] \in Elem}
<1>6. 0 \in S
  BY <1>5
<1>7. ASSUME NEW j \in Nat, j \in S PROVE j + 1 \in S
  <2> SUFFICES ASSUME j + 1 \in 0..n PROVE pow[j + 1] \in Elem
    OBVIOUS
  <2>1. j \in 0..n /\ j + 1 \in 1..n /\ (j + 1) - 1 = j
    OBVIOUS
  <2>2. pow[j] \in Elem
    BY <1>7, <2>1
  <2>3. pow[j + 1] = Mul(pow[j], d)
    BY <1>5, <2>1
  <2> QED BY <1>2, <2>2, <2>3
<1>8. n \in S
  <2> HIDE DEF S
  <2> QED BY <1>6, <1>7, Induction
<1> QED BY <1>1, <1>8

CoefRow(i) == [k \in DenseCols |-> Coef(i, k)]
LEMMA CoefIn == ASSUME InputsOK, NEW i \in Items, NEW k \in DenseCols PROVE Coef(i, k) \in Elem
<1>1. dense[i] \in Elem
  BY DEF InputsOK
<1>2. PICK d \in Elem : d = dense[i]
  BY <1>1
<1>3. BitOf(d, k) \in Elem
  <2>1. BitOf(d, k) \in 0..1 /\ 0 \in Elem /\ 1 \in Elem
    BY ElemAssumption
  <2>2. \A b \in 0..1 : b = 0 \/ b = 1
    OBVIOUS
  <2> QED BY <2>1, <2>2
<1>4. Power(d, k) \in Elem
  <2>1. k \in Nat
    BY DenseColsAre DEF DenseCols
  <2> QED BY <2>1, PowerIn
<1> QED BY <1>2, <1>3, <1>4 DEF Coef

LEMMA CoefRowIn == ASSUME InputsOK, NEW i \in Items PROVE CoefRow(i) \in [DenseCols -> Elem]
  BY CoefIn DEF CoefRow

\* So the dense part of a sum of rows is the sum of their dense parts.
Coefs(list) == [c \in DenseCols |-> SumAt(list, [i \in Items |-> Coef(i, c)])]
DenseSum(p) == [i \in Items |-> Times(CoefRow(i), p)]
LEMMA DenseSumIn == ASSUME InputsOK, NEW p \in [DenseCols -> Elem] PROVE DenseSum(p) \in [Items -> Elem]
  BY CoefRowIn, TimesIn DEF DenseSum
LEMMA TimesSum ==
  ASSUME InputsOK, NEW n \in Nat, NEW list \in Seq(Items), Len(list) = n, NEW p \in [DenseCols -> Elem]
  PROVE  Times(Coefs(list), p) = SumAt(list, DenseSum(p))
<1> DEFINE g == [j \in 1..n |-> DenseSum(p)[list[j]]]
           F(m, c) == [j \in 1..m |-> Coef(list[j], c)]
           cf(m) == [c \in DenseCols |-> SumTo(m, F(m, c))]
           u == [m \in 0..n |-> Times(cf(m), p)]
<1>1. \A j \in 1..n : list[j] \in Items
  OBVIOUS
<1>2. g \in [1..n -> Elem] /\ SumAt(list, DenseSum(p)) = SumTo(n, g)
  BY <1>1, DenseSumIn DEF SumAt
<1>3. ASSUME NEW m \in 0..n, NEW c \in DenseCols PROVE F(m, c) \in [1..m -> Elem] /\ SumTo(m, F(m, c)) \in Elem
  <2>1. \A j \in 1..m : list[j] \in Items
    BY <1>1
  <2>2. F(m, c) \in [1..m -> Elem]
    BY <2>1, CoefIn
  <2> HIDE DEF F
  <2> QED BY <2>2, SumIn
<1>4. \A m \in 0..n : cf(m) \in [DenseCols -> Elem]
  <2> HIDE DEF F
  <2> QED BY <1>3
<1>5. cf(n) = Coefs(list)
  <2>1. ASSUME NEW c \in DenseCols PROVE SumTo(n, F(n, c)) = SumAt(list, [i \in Items |-> Coef(i, c)])
    BY <1>1 DEF SumAt
  <2> QED BY <2>1 DEF Coefs
<1>6. Times(cf(0), p) = 0
  <2>1. ASSUME NEW c \in DenseCols PROVE SumTo(0, F(0, c)) = 0
    <3>1. F(0, c) \in [1..0 -> {0}]
      OBVIOUS
    <3> HIDE DEF F
    <3> QED BY <3>1, SumZero
  <2>2. cf(0) = [c \in DenseCols |-> 0]
    <3> HIDE DEF F
    <3> QED BY <2>1
  <2> HIDE DEF cf
  <2> QED BY <2>2, TimesZero
<1>7. ASSUME NEW m \in 1..n PROVE Times(cf(m), p) = Add(Times(cf(m - 1), p), g[m])
  <2>1. m - 1 \in Nat /\ m - 1 \in 0..n /\ m \in 0..n /\ (m - 1) + 1 = m /\ list[m] \in Items
    BY <1>1
  <2>2. ASSUME NEW c \in DenseCols PROVE SumTo(m, F(m, c)) = Add(SumTo(m - 1, F(m - 1, c)), CoefRow(list[m])[c])
    <3>1. F(m, c)[m] = Coef(list[m], c) /\ \A j \in 1..m - 1 : F(m, c)[j] = F(m - 1, c)[j]
      OBVIOUS
    <3>2. Coef(list[m], c) \in Elem /\ CoefRow(list[m])[c] = Coef(list[m], c)
      BY <2>1, CoefIn DEF CoefRow
    <3>3. F(m - 1, c) \in [1..m - 1 -> Elem] /\ F(m, c) \in [1..m -> Elem]
      <4> HIDE DEF F
      <4> QED BY <1>3, <2>1
    <3> HIDE DEF F
    <3>4. PICK a \in Nat : a = m - 1 /\ a + 1 = m
      BY <2>1
    <3>5. PICK f, h : f = F(m - 1, c) /\ h = F(m, c)
      OBVIOUS
    <3>6. f \in [1..a -> Elem] /\ IsLonger(h, f, Coef(list[m], c), a)
      BY <3>1, <3>3, <3>4, <3>5 DEF IsLonger
    <3>7. SumTo(a + 1, h) = Add(SumTo(a, f), Coef(list[m], c))
      BY <3>2, <3>6, SumLast
    <3> QED BY <3>2, <3>4, <3>5, <3>7
  <2>3. IsRowSum(cf(m), cf(m - 1), CoefRow(list[m]))
    <3>1. cf(m) \in [DenseCols -> Elem]
      <4> HIDE DEF cf
      <4> QED BY <1>4, <2>1
    <3> HIDE DEF F
    <3> QED BY <2>2, <3>1 DEF IsRowSum
  <2>4. g[m] = Times(CoefRow(list[m]), p)
    BY <2>1 DEF DenseSum
  <2>5. cf(m - 1) \in [DenseCols -> Elem] /\ CoefRow(list[m]) \in [DenseCols -> Elem]
    <3> HIDE DEF cf
    <3> QED BY <1>4, <2>1, CoefRowIn
  <2> HIDE DEF cf, g
  <2> QED BY <2>3, <2>4, <2>5, TimesAdd
<1>8. \A m \in 0..n : Times(cf(m), p) \in Elem
  <2> HIDE DEF cf
  <2> QED BY <1>4, TimesIn
<1>9. u \in [0..n -> Elem] /\ u[0] = 0 /\ (\A m \in 1..n : u[m] = Add(u[m - 1], g[m])) /\ u[n] = Times(Coefs(list), p)
  <2>1. \A m \in 1..n : m \in 0..n /\ m - 1 \in 0..n
    OBVIOUS
  <2> HIDE DEF cf, g
  <2> QED BY <1>5, <1>6, <1>7, <1>8, <2>1
<1> HIDE DEF u, g
<1>10. Sums(u, n, g)
  BY <1>9 DEF Sums
<1> QED BY <1>2, <1>9, <1>10, SumOf

(***************************************************************************)
(* backfill: the rows of the gap, reduced by rows on the diagonal.         *)
(***************************************************************************)
SparseSum(q) == [i \in Items |-> SumAt(rows[i], q)]
LEMMA SparseSumIs ==
  ASSUME RowsAre(rows), mWeight \in Nat, NEW q \in [Cols -> Elem], NEW i \in Items
  PROVE  /\ Range(rows[i]) \subseteq Cols /\ SparseSum(q)[i] = SetSum(q, Range(rows[i]))
         /\ SparseSum(q)[i] = SumAt(rows[i], q) /\ SparseSum(q)[i] \in Elem
<1>1. PICK U \in SUBSET Cols : Once(rows[i], mWeight, U)
  BY DEF RowsAre
<1>2. Range(rows[i]) = U
  BY <1>1, OnceDomain
<1>3. SumAt(rows[i], q) = SetSum(q, U)
  BY <1>1, SumAtRow
<1>4. SetSum(q, U) \in Elem
  BY SetSumIn
<1> QED BY <1>2, <1>3, <1>4 DEF SparseSum

\* The columns on the diagonal of a row are all that counts while the others
\* are zero.
FreeZero(q) == \A c \in Cols : c \notin Taken => q[c] = 0
LEMMA SparseSumTaken ==
  ASSUME RowsAre(rows), mWeight \in Nat, NEW q \in [Cols -> Elem], FreeZero(q), NEW i \in Items
  PROVE  SparseSum(q)[i] = SetSum(q, InC(i))
<1>1. SparseSum(q)[i] = SetSum(q, Range(rows[i]))
  BY SparseSumIs
<1>2. PICK A, B : A = Range(rows[i]) /\ B = InC(i)
  OBVIOUS
<1>3. B \subseteq A /\ \A c \in (A \ B) \cap Cols : q[c] = 0
  BY <1>2 DEF FreeZero, InC, Taken
<1>4. SetSum(q, A) = SetSum(q, B)
  BY <1>3, SetSumZeros
<1> QED BY <1>1, <1>2, <1>4

\* A sum over a list, one row longer.
LEMMA SumAppend ==
  ASSUME NEW f \in [Items -> Elem], NEW n \in Nat, NEW list \in Seq(Items), Len(list) = n, NEW i \in Items
  PROVE  SumAt(Append(list, i), f) = Add(SumAt(list, f), f[i]) /\ SumAt(list, f) \in Elem
<1> DEFINE new == Append(list, i)
           g == [k \in 1..n |-> f[list[k]]]
           h == [k \in 1..n + 1 |-> f[new[k]]]
<1>1. new \in Seq(Items) /\ Len(new) = n + 1 /\ new[n + 1] = i /\ \A k \in 1..n : new[k] = list[k]
  OBVIOUS
<1> HIDE DEF new
<1>2. g \in [1..n -> Elem]
  OBVIOUS
<1>3. h \in [1..n + 1 -> Elem]
  <2>1. \A k \in 1..n + 1 : new[k] \in Items
    BY <1>1
  <2> QED BY <2>1
<1>4. h[n + 1] = f[i] /\ \A k \in 1..n : h[k] = g[k]
  BY <1>1
<1>5. SumAt(list, f) = SumTo(n, g) /\ SumAt(new, f) = SumTo(n + 1, h)
  BY <1>1 DEF SumAt
<1> HIDE DEF g, h
<1>6. IsLonger(h, g, f[i], n)
  BY <1>3, <1>4 DEF IsLonger
<1>7. SumTo(n + 1, h) = Add(SumTo(n, g), f[i]) /\ SumTo(n, g) \in Elem
  BY <1>2, <1>6, SumLast, SumIn
<1> QED BY <1>5, <1>7 DEF new

LEMMA SumFirst ==
  ASSUME NEW f \in [Items -> Elem], NEW n \in Nat, NEW list \in Seq(Items), Len(list) = n, NEW i \in Items
  PROVE  SumAt(<<i>> \o list, f) = Add(f[i], SumAt(list, f)) /\ SumAt(list, f) \in Elem
<1> DEFINE g == [k \in 1..n |-> f[list[k]]]
<1>0. PICK one : one = <<i>> /\ one \in Seq(Items) /\ Len(one) = 1 /\ one[1] = i
  <2>1. <<i>> \in Seq(Items) /\ Len(<<i>>) = 1 /\ <<i>>[1] = i
    OBVIOUS
  <2> QED BY <2>1
<1>1. PICK new : new = one \o list
  OBVIOUS
<1>2. IsJoin(new, one, list, 1, n, Items)
  BY <1>0, <1>1, Joined
<1>3. new \in Seq(Items) /\ Len(new) = n + 1 /\ new[1] = i /\ \A k \in 1..n : new[k + 1] = list[k]
  <2>1. \A k \in 1..n : 1 + k = k + 1
    OBVIOUS
  <2>2. 1 \in 1..1 /\ 1 + n = n + 1
    OBVIOUS
  <2> QED BY <1>0, <1>2, <2>1, <2>2 DEF IsJoin
<1> DEFINE h == [k \in 1..n + 1 |-> f[new[k]]]
<1>4. g \in [1..n -> Elem]
  OBVIOUS
<1>5. h \in [1..n + 1 -> Elem]
  <2>1. \A k \in 1..n + 1 : new[k] \in Items
    BY <1>3
  <2> QED BY <2>1
<1>6. h[1] = f[i] /\ \A k \in 1..n : h[k + 1] = g[k]
  BY <1>3
<1>7. SumAt(list, f) = SumTo(n, g) /\ SumAt(new, f) = SumTo(n + 1, h)
  BY <1>3 DEF SumAt
<1> HIDE DEF g, h
<1>8. IsHeaded(h, g, f[i], n)
  BY <1>5, <1>6 DEF IsHeaded
<1>9. SumTo(n + 1, h) = Add(f[i], SumTo(n, g)) /\ SumTo(n, g) \in Elem
  BY <1>4, <1>8, SumHead, SumIn
<1> QED BY <1>0, <1>1, <1>7, <1>9

\* Reduced adds rows until no column on the diagonal is left.
Reduces(d, r, t, q) ==
  /\ d.left \in SUBSET Taken /\ d.used \in Seq(Range(mainRows))
  /\ \A s \in 1..t : mainCols[s] \notin d.left
  /\ Add(SparseSum(q)[r], SumAt(d.used, SparseSum(q))) = SetSum(q, d.left)
LEMMA ReduceIs ==
  ASSUME TriOK, RowsAre(rows), mWeight \in Nat, NEW q \in [Cols -> Elem], FreeZero(q), NEW r \in Items,
         NEW t \in 1..Len(mainCols), NEW d \in [left : SUBSET Taken, used : Seq(Range(mainRows))], Reduces(d, r, t - 1, q)
  PROVE  Reduces(Reduce(d, t), r, t, q) /\ Reduce(d, t) \in [left : SUBSET Taken, used : Seq(Range(mainRows))]
<1>1. \A s \in 1..t : s \in 1..t - 1 \/ s = t
  OBVIOUS
<1>2. CASE mainCols[t] \notin d.left
  BY <1>1, <1>2 DEF Reduce, Reduces
<1>3. CASE mainCols[t] \in d.left
  <2>0. /\ mainRows \in Seq(Items) /\ mainCols \in Seq(Cols) /\ Len(mainRows) = Len(mainCols)
    BY DEF TriOK, Triangle
  <2>1. PICK m \in Items : m = mainRows[t]
    BY <2>0
  <2>2. m \in Range(mainRows) /\ \A i \in Range(mainRows) : i \in Items
    BY <2>0, <2>1 DEF Range
  <2>3. PICK A, B : A = d.left /\ B = InC(m)
    OBVIOUS
  <2>4. PICK e : e = Reduce(d, t) /\ e.left = (A \cup B) \ (A \cap B) /\ e.used = Append(d.used, m)
    <3>1. Reduce(d, t) = [left |-> (A \cup B) \ (A \cap B), used |-> Append(d.used, m)]
      BY <1>3, <2>1, <2>3 DEF Reduce
    <3> QED BY <3>1
  <2>5. mainCols[t] \in B /\ \A s \in 1..t - 1 : mainCols[s] \notin B
    <3>1. mainCols[t] \in Range(mainCols)
      BY <2>0 DEF Range
    <3> QED BY <2>1, <2>3, <3>1 DEF InC, TriOK, Triangle
  <2>6. e.left \in SUBSET Taken /\ \A s \in 1..t : mainCols[s] \notin e.left
    <3>1. B \in SUBSET Taken
      BY <2>3 DEF InC, Taken
    <3>2. mainCols[t] \in A /\ \A s \in 1..t - 1 : mainCols[s] \notin A
      BY <1>3, <2>3 DEF Reduces
    <3> QED BY <1>1, <2>3, <2>4, <2>5, <3>1, <3>2
  <2>7. e.used \in Seq(Range(mainRows)) /\ d.used \in Seq(Items)
    <3>1. PICK V : V = Range(mainRows)
      OBVIOUS
    <3>2. d.used \in Seq(V) /\ m \in V /\ V \subseteq Items
      BY <2>2, <3>1
    <3> QED BY <2>4, <3>1, <3>2, SeqMonotonic
  <2>8. PICK S \in [Items -> Elem] : S = SparseSum(q)
    <3>1. SparseSum(q) = [i \in Items |-> SparseSum(q)[i]]
      BY DEF SparseSum
    <3>2. \A i \in Items : SparseSum(q)[i] \in Elem
      BY SparseSumIs
    <3> QED BY <3>1, <3>2
  <2>9. PICK n \in Nat : n = Len(d.used)
    BY <2>7
  <2>10. SumAt(e.used, S) = Add(SumAt(d.used, S), S[m]) /\ SumAt(d.used, S) \in Elem
    BY <2>4, <2>7, <2>9, SumAppend
  <2>11. Add(S[r], SumAt(d.used, S)) = SetSum(q, A)
    BY <2>3, <2>8 DEF Reduces
  <2>12. S[m] = SetSum(q, B)
    BY <2>3, <2>8, SparseSumTaken
  <2>13. SetSum(q, e.left) = Add(SetSum(q, A), SetSum(q, B))
    BY <2>4, SetSumXor
  <2>14. Add(Add(S[r], SumAt(d.used, S)), S[m]) = Add(S[r], Add(SumAt(d.used, S), S[m]))
    <3>1. PICK x \in Elem, y \in Elem, z \in Elem : x = S[r] /\ y = SumAt(d.used, S) /\ z = S[m]
      BY <2>10
    <3>2. Add(Add(x, y), z) = Add(x, Add(y, z))
      BY AddLaws
    <3> QED BY <3>1, <3>2
  <2>15. Add(S[r], SumAt(e.used, S)) = SetSum(q, e.left)
    BY <2>10, <2>11, <2>12, <2>13, <2>14
  <2>16. e = [left |-> e.left, used |-> e.used]
    BY <1>3, <2>4 DEF Reduce
  <2>17. e \in [left : SUBSET Taken, used : Seq(Range(mainRows))]
    BY <2>6, <2>7, <2>16
  <2> QED BY <2>4, <2>6, <2>7, <2>8, <2>15, <2>17 DEF Reduces
<1> QED BY <1>2, <1>3

Reduction == [left : SUBSET Taken, used : Seq(Range(mainRows))]
LEMMA ReduceIn ==
  ASSUME TriOK, NEW t \in 1..Len(mainCols), NEW d \in Reduction
  PROVE  Reduce(d, t) \in Reduction
<1>1. mainRows[t] \in Range(mainRows)
  <2>1. mainRows \in Seq(Items) /\ Len(mainRows) = Len(mainCols)
    BY DEF TriOK, Triangle
  <2>2. DOMAIN mainRows = 1..Len(mainCols)
    BY <2>1, LenProperties
  <2> QED BY <2>2 DEF Range
<1>2. PICK m : m = mainRows[t]
  OBVIOUS
<1>3. PICK V : V = Range(mainRows)
  OBVIOUS
<1>4. d.left \in SUBSET Taken /\ d.used \in Seq(V)
  BY <1>3 DEF Reduction
<1>5. Append(d.used, m) \in Seq(V)
  BY <1>1, <1>2, <1>3, <1>4
<1>6. (d.left \cup InC(m)) \ (d.left \cap InC(m)) \in SUBSET Taken
  BY <1>4 DEF InC, Taken
<1>7. [left |-> (d.left \cup InC(m)) \ (d.left \cap InC(m)), used |-> Append(d.used, m)] \in Reduction
  BY <1>3, <1>5, <1>6 DEF Reduction
<1> QED BY <1>2, <1>7 DEF Reduce

\* While the free columns are zero, what it has added to a row of the gap
\* cancels its sparse part.
Cancels(r, list, q) == list \in Seq(Range(mainRows)) /\ Add(SparseSum(q)[r], SumAt(list, SparseSum(q))) = 0
LEMMA ReducedIs ==
  ASSUME TriOK, RowsAre(rows), mWeight \in Nat, NEW r \in Items
  PROVE  \E d \in Reduction : Reduced(r) = d /\ \A q \in [Cols -> Elem] : FreeZero(q) => Cancels(r, d.used, q)
<1> DEFINE n == Len(mainCols)
           base == [left |-> InC(r), used |-> <<>>]
           step == [t \in 1..n |-> [d \in Reduction |-> Reduce(d, t)]]
           Is(p) == p = [t \in 0..n |-> IF t = 0 THEN base ELSE Reduce(p[t - 1], t)]
           f == CHOOSE p : Is(p)
<1>0. n \in Nat /\ mainCols \in Seq(Cols) /\ DOMAIN mainCols = 1..n
  BY LenProperties DEF TriOK, Triangle
<1>1. Reduced(r) = f[n]
  BY DEF Reduced
<1>2. base \in Reduction
  <2>1. InC(r) \in SUBSET Taken
    BY DEF InC, Taken
  <2>2. <<>> \in Seq(Range(mainRows))
    OBVIOUS
  <2> QED BY <2>1, <2>2 DEF Reduction
<1>3. step \in [1..n -> [Reduction -> Reduction]]
  <2>1. \A t \in 1..n, d \in Reduction : Reduce(d, t) \in Reduction
    BY ReduceIn
  <2> QED BY <2>1
<1>4. PICK g : Follows(g, n, Reduction, base, step)
  <2> HIDE DEF step, base, n
  <2> QED BY <1>0, <1>2, <1>3, Recursion
<1>5. g \in [0..n -> Reduction] /\ g[0] = base /\ \A t \in 1..n : g[t] = Reduce(g[t - 1], t)
  <2>1. g \in [0..n -> Reduction] /\ g[0] = base /\ \A t \in 1..n : g[t] = step[t][g[t - 1]]
    <3> HIDE DEF step, base, n
    <3> QED BY <1>4 DEF Follows
  <2>2. \A t \in 1..n : t - 1 \in 0..n
    BY <1>0
  <2> HIDE DEF base
  <2> QED BY <2>1, <2>2
<1> HIDE DEF base, n
<1>6. Is(g)
  <2>1. g = [t \in 0..n |-> g[t]]
    BY <1>5
  <2>2. \A t \in 0..n : t # 0 => t \in 1..n
    BY <1>0
  <2>3. \A t \in 0..n : g[t] = IF t = 0 THEN base ELSE Reduce(g[t - 1], t)
    BY <1>5, <2>2
  <2> QED BY <2>1, <2>3
<1>7. f[0] = base /\ \A t \in 1..n : f[t] = Reduce(f[t - 1], t)
  <2>1. Is(f)
    <3> HIDE DEF Is
    <3> QED BY <1>6
  <2>2. f = [t \in 0..n |-> IF t = 0 THEN base ELSE Reduce(f[t - 1], t)]
    BY <2>1
  <2>3. 0 \in 0..n /\ \A t \in 1..n : t \in 0..n /\ t # 0
    BY <1>0
  <2> HIDE DEF f
  <2> QED BY <2>2, <2>3
<1> HIDE DEF f
<1> DEFINE S == {t \in Nat : t \in 0..n => f[t] \in Reduction /\ \A q \in [Cols -> Elem] : FreeZero(q) => Reduces(f[t], r, t, q)}
<1>8. 0 \in S
  <2>1. ASSUME NEW q \in [Cols -> Elem], FreeZero(q) PROVE Reduces(base, r, 0, q)
    <3>1. base.left = InC(r) /\ base.used = <<>>
      BY DEF base
    <3>2. base.left \in SUBSET Taken /\ base.used \in Seq(Range(mainRows))
      BY <1>2 DEF Reduction
    <3>3. SumAt(<<>>, SparseSum(q)) = 0
      <4>1. [k \in 1..0 |-> SparseSum(q)[<<>>[k]]] \in [1..0 -> {0}]
        OBVIOUS
      <4>2. Len(<<>>) = 0
        OBVIOUS
      <4> QED BY <4>1, <4>2, SumZero DEF SumAt
    <3>4. SparseSum(q)[r] = SetSum(q, InC(r)) /\ SparseSum(q)[r] \in Elem
      BY <2>1, SparseSumTaken, SparseSumIs
    <3>5. Add(SparseSum(q)[r], 0) = SparseSum(q)[r]
      BY <3>4, AddLaws
    <3> QED BY <3>1, <3>2, <3>3, <3>4, <3>5 DEF Reduces
  <2> QED BY <1>2, <1>7, <2>1
<1>9. ASSUME NEW t \in Nat, t \in S PROVE t + 1 \in S
  <2> SUFFICES ASSUME t + 1 \in 0..n
               PROVE  f[t + 1] \in Reduction /\ \A q \in [Cols -> Elem] : FreeZero(q) => Reduces(f[t + 1], r, t + 1, q)
    OBVIOUS
  <2>1. t \in 0..n /\ t + 1 \in 1..n /\ (t + 1) - 1 = t
    BY <1>0
  <2>2. PICK d \in Reduction : d = f[t]
    BY <1>9, <2>1
  <2>3. f[t + 1] = Reduce(d, t + 1)
    BY <1>7, <2>1, <2>2
  <2>4. f[t + 1] \in Reduction
    BY <2>1, <2>3, ReduceIn DEF n
  <2>5. ASSUME NEW q \in [Cols -> Elem], FreeZero(q) PROVE Reduces(f[t + 1], r, t + 1, q)
    <3>1. Reduces(d, r, t, q)
      BY <1>9, <2>1, <2>2, <2>5
    <3>2. PICK m \in 1..Len(mainCols) : m = t + 1 /\ m - 1 = t
      BY <2>1 DEF n
    <3>3. Reduces(d, r, m - 1, q)
      BY <3>1, <3>2
    <3>4. d \in [left : SUBSET Taken, used : Seq(Range(mainRows))]
      BY DEF Reduction
    <3>5. Reduces(Reduce(d, m), r, m, q)
      BY <2>5, <3>3, <3>4, ReduceIs
    <3> QED BY <2>3, <3>2, <3>5
  <2> QED BY <2>4, <2>5
<1>10. n \in S
  <2> HIDE DEF S
  <2> QED BY <1>0, <1>8, <1>9, Induction
<1>11. PICK d \in Reduction : d = f[n] /\ \A q \in [Cols -> Elem] : FreeZero(q) => Reduces(d, r, n, q)
  BY <1>0, <1>10
<1>12. ASSUME NEW q \in [Cols -> Elem], FreeZero(q) PROVE Cancels(r, d.used, q)
  <2>1. Reduces(d, r, n, q)
    BY <1>11, <1>12
  <2>2. d.left = {}
    <3>1. \A c \in Taken : \E s \in 1..n : mainCols[s] = c
      BY <1>0 DEF Taken, Range
    <3> QED BY <2>1, <3>1 DEF Reduces
  <2>3. SetSum(q, d.left) = 0
    BY <2>2, SetSumEmpty
  <2> QED BY <2>1, <2>3 DEF Reduces, Cancels
<1> QED BY <1>1, <1>11, <1>12

\* The rows that make an equation of the gap, whatever is free: either the
\* free columns are zero, or the row repeats the diagonal one.
GapList(k) == <<gapRows[k][1]>> \o FCInv(k)
RepeatsMain(k) == rows[gapRows[k][1]] = rows[gapRows[k][2]]
LEMMA FCInvIs ==
  ASSUME TriOK, RowsAre(rows), mWeight \in Nat, NEW k \in 1..Len(gapRows)
  PROVE  /\ gapRows[k][1] \in Items /\ FCInv(k) \in Seq(Range(mainRows))
         /\ \A q \in [Cols -> Elem] : FreeZero(q) \/ RepeatsMain(k) => Cancels(gapRows[k][1], FCInv(k), q)
<1>1. /\ gapRows[k] \in Items \X Items /\ gapRows[k][2] \in Range(mainRows) /\ DOMAIN gapRows = 1..Len(gapRows)
  BY LenProperties DEF TriOK, GapOK
<1>2. PICK r \in Items, m \in Range(mainRows) : r = gapRows[k][1] /\ m = gapRows[k][2] /\ m \in Items
  BY <1>1
<1>3. CASE rows[r] = rows[m]
  <2>1. FCInv(k) = <<m>>
    BY <1>2, <1>3 DEF FCInv
  <2>2. <<m>> \in Seq(Range(mainRows))
    OBVIOUS
  <2>3. ASSUME NEW q \in [Cols -> Elem] PROVE Cancels(r, <<m>>, q)
    <3>1. PICK S \in [Items -> Elem] : S = SparseSum(q)
      <4>1. SparseSum(q) = [i \in Items |-> SparseSum(q)[i]]
        BY DEF SparseSum
      <4>2. \A i \in Items : SparseSum(q)[i] \in Elem
        BY SparseSumIs
      <4> QED BY <4>1, <4>2
    <3>2. S[r] = S[m]
      BY <1>2, <1>3, <3>1 DEF SparseSum
    <3>3. SumAt(<<m>>, S) = S[m]
      <4>1. [j \in 1..1 |-> S[<<m>>[j]]] = [j \in 1..1 |-> S[m]]
        OBVIOUS
      <4>2. Len(<<m>>) = 1 /\ S[m] \in Elem
        BY <1>2
      <4> DEFINE f == [j \in 1..1 |-> S[m]]
      <4>3. f \in [1..1 -> Elem] /\ f[1] = S[m] /\ 1 \in Nat /\ 1 \in 1..1 /\ \A j \in 1..1 : j = 1
        BY <4>2
      <4> HIDE DEF f
      <4>4. IsAlone(f, 1, S[m], 1)
        BY <4>3 DEF IsAlone
      <4>5. SumTo(1, f) = S[m]
        BY <4>2, <4>3, <4>4, SumOne
      <4> QED BY <4>1, <4>2, <4>5 DEF SumAt, f
    <3>4. Add(S[r], S[m]) = 0
      <4>1. S[m] \in Elem
        BY <1>2
      <4> QED BY <3>2, <4>1, AddLaws
    <3> QED BY <2>2, <3>1, <3>3, <3>4 DEF Cancels
  <2> QED BY <1>2, <2>1, <2>2, <2>3
<1>4. CASE rows[r] # rows[m]
  <2>1. PICK d \in Reduction : Reduced(r) = d /\ \A q \in [Cols -> Elem] : FreeZero(q) => Cancels(r, d.used, q)
    BY ReducedIs
  <2>2. FCInv(k) = d.used
    BY <1>2, <1>4, <2>1 DEF FCInv
  <2>3. d.used \in Seq(Range(mainRows))
    BY DEF Reduction
  <2>4. ~RepeatsMain(k)
    BY <1>2, <1>4 DEF RepeatsMain
  <2> QED BY <1>2, <2>1, <2>2, <2>3, <2>4
<1> QED BY <1>3, <1>4

(***************************************************************************)
(* backfill: the diagonal, from its last row to its first.                 *)
(***************************************************************************)
\* Item i decodes to its value.
Solves(q, i) == Add(SparseSum(q)[i], DenseSum(p2)[i]) = X[i]
\* The last k rows of the diagonal are solved, and P is zero on the columns of
\* the others.
Fills(q, k) ==
  /\ \A c \in Cols : c \notin Taken => q[c] = P[c]
  /\ \A s \in 1..Len(mainCols) - k : q[mainCols[s]] = 0
  /\ \A s \in 1..Len(mainCols) : s > Len(mainCols) - k => Solves(q, mainRows[s])
LEMMA DecodeIs ==
  ASSUME NEW i \in Items, NEW q
  PROVE  Decode(q, rows[i], i) = Add(SparseSum(q)[i], DenseSum(p2)[i])
  BY DEF Decode, SparseSum, DenseSum, CoefRow
LEMMA FillRowIs ==
  ASSUME InputsOK, TriOK, RowsAre(rows), mWeight \in Nat, p2 \in [DenseCols -> Elem],
         NEW k \in Nat, k < Len(mainRows), NEW q \in [Cols -> Elem]
  PROVE  /\ FillRow(Len(mainRows) - k, q) \in [Cols -> Elem]
         /\ Fills(q, k) => Fills(FillRow(Len(mainRows) - k, q), k + 1)
<1>1. /\ mainRows \in Seq(Items) /\ mainCols \in Seq(Cols) /\ Len(mainRows) = Len(mainCols)
      /\ \A t \in 1..Len(mainCols) :
           /\ mainCols[t] \in Range(rows[mainRows[t]])
           /\ \A s \in 1..t - 1 : mainCols[s] \notin Range(rows[mainRows[t]])
  BY DEF TriOK, Triangle
<1>2. PICK n \in Nat : n = Len(mainRows) /\ n = Len(mainCols)
  BY <1>1
<1>3. PICK t \in 1..n : t = n - k
  BY <1>2
<1>4. PICK m \in Items, c \in Cols : m = mainRows[t] /\ c = mainCols[t]
  BY <1>1, <1>2
<1>5. PICK A \in SUBSET Cols : A = Range(rows[m]) /\ c \in A
  BY <1>1, <1>2, <1>4, SparseSumIs
<1>6. PICK s0 \in Elem, d0 \in Elem, x0 \in Elem : s0 = SetSum(q, A) /\ s0 = SparseSum(q)[m] /\ d0 = DenseSum(p2)[m] /\ x0 = X[m]
  <2>1. SparseSum(q)[m] = SetSum(q, A) /\ SparseSum(q)[m] \in Elem
    BY <1>5, SparseSumIs
  <2>2. DenseSum(p2)[m] \in Elem
    BY DenseSumIn
  <2>3. X[m] \in Elem
    BY DEF InputsOK
  <2> QED BY <2>1, <2>2, <2>3
<1>7. PICK v \in Elem : v = Add(x0, Add(s0, d0))
  BY AddLaws
<1>8. PICK e \in [Cols -> Elem] : e = [q EXCEPT ![c] = v] /\ e[c] = v /\ \A b \in Cols : b # c => e[b] = q[b]
  <2> DEFINE e == [q EXCEPT ![c] = v]
  <2>1. e \in [Cols -> Elem] /\ e[c] = v /\ \A b \in Cols : b # c => e[b] = q[b]
    OBVIOUS
  <2> HIDE DEF e
  <2>2. \E z \in [Cols -> Elem] : z = e /\ z[c] = v /\ \A b \in Cols : b # c => z[b] = q[b]
    BY <2>1
  <2> QED BY <2>2 DEF e
<1>9. FillRow(n - k, q) = e
  <2>1. Decode(q, rows[m], m) = Add(s0, d0)
    BY <1>6, DecodeIs
  <2> QED BY <1>3, <1>4, <1>6, <1>7, <1>8, <2>1 DEF FillRow
<1>10. ASSUME Fills(q, k) PROVE Fills(e, k + 1)
  <2>1. /\ \A b \in Cols : b \notin Taken => q[b] = P[b]
        /\ \A s \in 1..n - k : q[mainCols[s]] = 0
        /\ \A s \in 1..n : s > n - k => Solves(q, mainRows[s])
    BY <1>2, <1>10 DEF Fills
  <2>2. c \in Taken
    <3>1. DOMAIN mainCols = 1..n
      BY <1>1, <1>2, LenProperties
    <3> QED BY <1>4, <3>1 DEF Taken, Range
  <2>3. \A b \in Cols : b \notin Taken => e[b] = P[b]
    BY <1>8, <2>1, <2>2
  <2>4. ASSUME NEW s \in 1..n - (k + 1) PROVE e[mainCols[s]] = 0
    <3>1. s \in 1..n - k /\ s \in 1..t - 1 /\ s \in 1..n
      BY <1>3
    <3>2. mainCols[s] \in Cols /\ mainCols[s] \notin A
      BY <1>1, <1>2, <1>4, <1>5, <3>1
    <3>3. mainCols[s] # c
      BY <1>5, <3>2
    <3> QED BY <1>8, <2>1, <3>1, <3>2, <3>3
  <2>5. Solves(e, m)
    <3>1. q[c] = 0
      <4>1. t \in 1..n - k
        BY <1>3
      <4> QED BY <1>4, <2>1, <4>1
    <3>2. SetSum(e, A) = Add(s0, v)
      <4>1. c \in A \cap Cols
        BY <1>5
      <4>2. SetSum([q EXCEPT ![c] = v], A) = Add(SetSum(q, A), v)
        BY <3>1, <4>1, SetSumPut
      <4> QED BY <1>6, <1>8, <4>2
    <3>3. SparseSum(e)[m] = Add(s0, v)
      BY <1>5, <3>2, SparseSumIs
    <3>4. Add(Add(s0, v), d0) = x0
      <4>1. PICK y \in Elem : y = Add(s0, d0)
        BY AddLaws
      <4>2. Add(s0, Add(x0, y)) = Add(x0, Add(s0, y))
        <5>1. Add(s0, Add(x0, y)) = Add(Add(s0, x0), y) /\ Add(x0, Add(s0, y)) = Add(Add(x0, s0), y)
          BY AddLaws
        <5>2. Add(s0, x0) = Add(x0, s0)
          BY AddLaws
        <5> QED BY <5>1, <5>2
      <4>3. Add(s0, y) = d0
        <5>1. Add(s0, Add(s0, d0)) = Add(Add(s0, s0), d0)
          BY AddLaws
        <5>2. Add(s0, s0) = 0 /\ Add(0, d0) = d0
          BY AddLaws
        <5> QED BY <4>1, <5>1, <5>2
      <4>4. Add(s0, v) = Add(x0, d0)
        BY <1>7, <4>1, <4>2, <4>3
      <4>5. Add(Add(x0, d0), d0) = Add(x0, Add(d0, d0))
        BY AddLaws
      <4>6. Add(d0, d0) = 0 /\ Add(x0, 0) = x0
        BY AddLaws
      <4> QED BY <4>4, <4>5, <4>6
    <3> QED BY <1>6, <3>3, <3>4 DEF Solves
  <2>6. ASSUME NEW s \in 1..n, s > n - (k + 1) PROVE Solves(e, mainRows[s])
    <3>1. CASE s = t
      BY <1>4, <2>5, <3>1
    <3>2. CASE s # t
      <4>1. s > n - k /\ t \in 1..s - 1
        BY <1>3, <2>6, <3>2
      <4>2. PICK i \in Items : i = mainRows[s]
        BY <1>1, <1>2
      <4>3. PICK B : B = Range(rows[i]) /\ c \notin B
        BY <1>1, <1>2, <1>4, <4>1, <4>2
      <4>4. \A b \in B \cap Cols : e[b] = q[b]
        BY <1>8, <4>3
      <4>5. SetSum(e, B) = SetSum(q, B)
        BY <4>4, SetSumSame
      <4>6. SparseSum(e)[i] = SparseSum(q)[i]
        BY <4>3, <4>5, SparseSumIs
      <4>7. Solves(q, i)
        BY <2>1, <4>1, <4>2
      <4> QED BY <4>2, <4>6, <4>7 DEF Solves
    <3> QED BY <3>1, <3>2
  <2> QED BY <1>2, <2>3, <2>4, <2>6 DEF Fills
<1> QED BY <1>2, <1>9, <1>10

LEMMA FilledIs ==
  ASSUME InputsOK, TriOK, RowsAre(rows), mWeight \in Nat, p2 \in [DenseCols -> Elem], P \in [Cols -> Elem],
         \A c \in Taken : P[c] = 0
  PROVE  \E q \in [Cols -> Elem] : q = Filled(Len(mainRows)) /\ Fills(q, Len(mainRows))
<1> DEFINE n == Len(mainRows)
           V == [Cols -> Elem]
           step == [k \in 1..n |-> [q \in V |-> FillRow(n + 1 - k, q)]]
           Is(p) == p = [k \in 0..n |-> IF k = 0 THEN P ELSE FillRow(n + 1 - k, p[k - 1])]
           f == CHOOSE p : Is(p)
<1>0. n \in Nat /\ n = Len(mainCols) /\ mainCols \in Seq(Cols)
  BY DEF TriOK, Triangle
<1>1. Filled(n) = f[n]
  BY DEF Filled
<1>2. ASSUME NEW k \in 1..n, NEW q \in V
      PROVE  FillRow(n + 1 - k, q) \in V /\ (Fills(q, k - 1) => Fills(FillRow(n + 1 - k, q), k))
  <2>1. PICK a \in Nat : a = k - 1 /\ a < n /\ n - a = n + 1 - k /\ a + 1 = k
    BY <1>0
  <2>2. a < Len(mainRows) /\ Len(mainRows) - a = n + 1 - k
    BY <2>1
  <2> HIDE DEF n
  <2>3. FillRow(Len(mainRows) - a, q) \in [Cols -> Elem] /\ (Fills(q, a) => Fills(FillRow(Len(mainRows) - a, q), a + 1))
    BY <2>2, FillRowIs
  <2> QED BY <2>1, <2>2, <2>3
<1> HIDE DEF n
<1>3. PICK g : Follows(g, n, V, P, step)
  <2>1. step \in [1..n -> [V -> V]]
    <3> HIDE DEF V
    <3> QED BY <1>2
  <2> HIDE DEF step
  <2> QED BY <1>0, <2>1, Recursion
<1>4. g \in [0..n -> V] /\ g[0] = P /\ \A k \in 1..n : g[k] = FillRow(n + 1 - k, g[k - 1])
  <2>1. g \in [0..n -> V] /\ g[0] = P /\ \A k \in 1..n : g[k] = step[k][g[k - 1]]
    <3> HIDE DEF step, V
    <3> QED BY <1>3 DEF Follows
  <2>2. \A k \in 1..n : k - 1 \in 0..n
    BY <1>0
  <2> HIDE DEF V
  <2> QED BY <2>1, <2>2
<1> HIDE DEF V
<1>5. Is(g)
  <2>1. g = [k \in 0..n |-> g[k]]
    BY <1>4
  <2>2. \A k \in 0..n : k # 0 => k \in 1..n
    BY <1>0
  <2>3. \A k \in 0..n : g[k] = IF k = 0 THEN P ELSE FillRow(n + 1 - k, g[k - 1])
    BY <1>4, <2>2
  <2> QED BY <2>1, <2>3
<1>6. f[0] = P /\ \A k \in 1..n : f[k] = FillRow(n + 1 - k, f[k - 1])
  <2>1. Is(f)
    <3> HIDE DEF Is
    <3> QED BY <1>5
  <2>2. f = [k \in 0..n |-> IF k = 0 THEN P ELSE FillRow(n + 1 - k, f[k - 1])]
    BY <2>1
  <2>3. 0 \in 0..n /\ \A k \in 1..n : k \in 0..n /\ k # 0
    BY <1>0
  <2> HIDE DEF f
  <2> QED BY <2>2, <2>3
<1> HIDE DEF f
<1> DEFINE S == {k \in Nat : k \in 0..n => f[k] \in V /\ Fills(f[k], k)}
<1>7. 0 \in S
  <2>1. P \in V
    BY DEF V
  <2>2. \A s \in 1..n : mainCols[s] \in Taken
    <3>1. DOMAIN mainCols = 1..n
      BY <1>0, LenProperties
    <3> QED BY <3>1 DEF Taken, Range
  <2>3. Fills(P, 0)
    BY <1>0, <2>2 DEF Fills
  <2> QED BY <1>6, <2>1, <2>3
<1>8. ASSUME NEW k \in Nat, k \in S PROVE k + 1 \in S
  <2> SUFFICES ASSUME k + 1 \in 0..n PROVE f[k + 1] \in V /\ Fills(f[k + 1], k + 1)
    OBVIOUS
  <2>1. k \in 0..n /\ k + 1 \in 1..n /\ (k + 1) - 1 = k
    BY <1>0
  <2>2. PICK m \in 1..n : m = k + 1 /\ m - 1 = k
    BY <2>1
  <2>3. PICK q \in V : q = f[k] /\ Fills(q, m - 1)
    BY <1>8, <2>1, <2>2
  <2>4. f[m] = FillRow(n + 1 - m, q)
    BY <1>6, <2>2, <2>3
  <2> QED BY <1>2, <2>2, <2>3, <2>4
<1>9. n \in S
  <2> HIDE DEF S
  <2> QED BY <1>0, <1>7, <1>8, Induction
<1>10. f[n] \in V /\ Fills(f[n], n)
  BY <1>0, <1>9
<1> QED BY <1>1, <1>10 DEF V, n

(***************************************************************************)
(* The invariant of encode after triangulate.                              *)
(***************************************************************************)
SparseOK == P \in [Cols -> Elem] /\ (prng \/ FreeZero(P))
DenseOK ==
  /\ p2 \in [DenseCols -> Elem]
  /\ \A k \in 1..Len(gapRows) : Times(Coefs(GapList(k)), p2) = SumAt(GapList(k), X)
SolveInv ==
  /\ InputsOK
  /\ pc = "back" => SparseOK /\ DenseOK /\ \A c \in Taken : P[c] = 0
  /\ pc = "gap" => SparseOK /\ \A c \in Taken : P[c] = 0
  /\ pc = "done" => SparseOK /\ DenseOK /\ \A i \in Range(mainRows) : Solves(P, i)

LEMMA TriangulatedSolve ==
  ASSUME TriInv, SolveInv, Triangulated
  PROVE  SolveInv'
<1>1. TriOK /\ pc' = "gap" /\ UNCHANGED <<inputs, weights, triangle>>
  BY DEF TriInv, Triangulated
<1>2. PICK n \in Nat : WeightLists(sets, n, Cols \ Taken, weight)
  BY <1>1 DEF TriOK, WeightsOK
<1>3. n = 1
  <2>1. n = Len(sets) /\ \A c \in Cols \ Taken : weight[c] + 1 \in 1..n
    BY <1>2 DEF WeightLists
  <2>2. n <= 1
    BY <2>1 DEF Triangulated
  <2>3. \E c \in Cols : c \notin Taken
    BY <1>1, ColumnLeft
  <2> QED BY <2>1, <2>2, <2>3
<1>4. PICK m \in Nat : Once(sets[1], m, At(Cols \ Taken, weight, 1))
  <2>1. IsList(sets[1], At(Cols \ Taken, weight, 1))
    <3>1. 1 \in 1..n
      BY <1>3
    <3> QED BY <1>2, <3>1 DEF WeightLists
  <2> QED BY <2>1 DEF IsList
<1>5. Free \subseteq Cols \ Taken
  <2>1. PICK U : U = At(Cols \ Taken, weight, 1) /\ U \subseteq Cols \ Taken
    BY DEF At
  <2>2. Range(sets[1]) = U
    BY <1>4, <2>1, OnceDomain
  <2> QED BY <2>1, <2>2 DEF Free
<1>6. /\ P' \in [Cols -> RandomElems \cup {0}]
      /\ \A c \in Cols : IF prng /\ c \in Free THEN P'[c] \in RandomElems ELSE P'[c] = 0
  BY DEF Triangulated
<1>7. P' \in [Cols -> Elem]
  <2>1. RandomElems \cup {0} \subseteq Elem
    BY AddLaws, PaxosAssumption
  <2> QED BY <1>6, <2>1
<1>8. \A c \in Taken : P'[c] = 0
  <2>1. Taken \subseteq Cols
    BY <1>1 DEF TriOK, Triangle, Taken, Range
  <2> QED BY <1>5, <1>6, <2>1
<1>9. dense' = dense /\ X' = X /\ prng' = prng /\ mainCols' = mainCols
  BY <1>1 DEF inputs, triangle
<1>10. prng \/ \A c \in Cols : P'[c] = 0
  BY <1>6
<1> QED BY <1>1, <1>7, <1>8, <1>9, <1>10 DEF SolveInv, InputsOK, SparseOK, FreeZero, Taken

\* What does not depend on P and p2 stays.
LEMMA SystemSame ==
  ASSUME UNCHANGED <<inputs, weights, triangle>>
  PROVE  /\ (InputsOK' <=> InputsOK) /\ Taken' = Taken /\ gapRows' = gapRows /\ X' = X /\ prng' = prng /\ mainRows' = mainRows
         /\ \A k : GapList(k)' = GapList(k) /\ Coefs(GapList(k))' = Coefs(GapList(k))
         /\ \A q, i : (SparseSum(q)[i])' = SparseSum(q)[i]
<1>1. /\ type' = type /\ dense' = dense /\ X' = X /\ prng' = prng /\ rows' = rows
      /\ mainRows' = mainRows /\ mainCols' = mainCols /\ gapRows' = gapRows
  BY DEF inputs, weights, triangle
<1>2. \A k : GapList(k)' = GapList(k)
  BY <1>1 DEF GapList, FCInv, Reduced, Reduce, InC
<1>3. \A k : Coefs(GapList(k))' = Coefs(GapList(k))
  BY <1>1, <1>2 DEF Coefs, Coef
<1>4. \A q, i : (SparseSum(q)[i])' = SparseSum(q)[i]
  BY <1>1 DEF SparseSum
<1> QED BY <1>1, <1>2, <1>3, <1>4 DEF InputsOK, Taken

LEMMA SolveGapSolve ==
  ASSUME TriInv, SolveInv, SolveGap
  PROVE  SolveInv'
<1>1. TriOK /\ pc = "gap" /\ pc' = "back" /\ P' = P /\ UNCHANGED <<inputs, weights, triangle>>
  BY DEF TriInv, SolveGap
<1>2. PICK E : E = GapSystem /\ \E G \in GapCols(E) :
       \E v \in [G -> Elem], r \in IF prng THEN [DenseCols \ G -> RandomElems] ELSE {Zeros(DenseCols \ G)} :
         LET p == OnGap(G, v, r) IN
           /\ \A k \in DOMAIN E : Times(E[k].coefs, p) = E[k].value
           /\ p2' = p
  BY DEF SolveGap
<1>3. PICK G \in GapCols(E) :
       \E v \in [G -> Elem], r \in IF prng THEN [DenseCols \ G -> RandomElems] ELSE {Zeros(DenseCols \ G)} :
         LET p == OnGap(G, v, r) IN
           /\ \A k \in DOMAIN E : Times(E[k].coefs, p) = E[k].value
           /\ p2' = p
  BY <1>2
<1>4. PICK v \in [G -> Elem], r \in IF prng THEN [DenseCols \ G -> RandomElems] ELSE {Zeros(DenseCols \ G)} :
           /\ \A k \in DOMAIN E : Times(E[k].coefs, OnGap(G, v, r)) = E[k].value
           /\ p2' = OnGap(G, v, r)
  BY <1>3
<1>5. r \in [DenseCols \ G -> Elem]
  <2>1. CASE prng
    <3>1. RandomElems \subseteq Elem
      BY PaxosAssumption
    <3> QED BY <1>4, <2>1, <3>1
  <2>2. CASE ~prng
    <3>1. Zeros(DenseCols \ G) \in [DenseCols \ G -> Elem]
      BY AddLaws DEF Zeros
    <3> QED BY <1>4, <2>2, <3>1
  <2> QED BY <2>1, <2>2
<1>6. p2' \in [DenseCols -> Elem]
  <2>1. \A c \in DenseCols : (IF c \in G THEN v[c] ELSE r[c]) \in Elem
    BY <1>5
  <2> QED BY <1>4, <2>1 DEF OnGap
<1>7. DOMAIN gapRows = 1..Len(gapRows)
  BY <1>1, LenProperties DEF TriOK, GapOK
<1>8. ASSUME NEW k \in 1..Len(gapRows) PROVE Times(Coefs(GapList(k)), p2') = SumAt(GapList(k), X)
  <2>1. k \in DOMAIN E
    BY <1>2, <1>7 DEF GapSystem
  <2>2. E[k] = Equation(GapList(k))
    BY <1>2, <1>7 DEF GapSystem, GapList
  <2>3. Equation(GapList(k)).coefs = Coefs(GapList(k)) /\ Equation(GapList(k)).value = SumAt(GapList(k), X)
    BY DEF Equation, Coefs
  <2> QED BY <1>4, <2>1, <2>2, <2>3
<1>9. ASSUME NEW k \in 1..Len(gapRows) PROVE Coefs(GapList(k))' = Coefs(GapList(k)) /\ GapList(k)' = GapList(k)
  BY <1>1, SystemSame
<1>10. X' = X /\ gapRows' = gapRows /\ Taken' = Taken /\ prng' = prng /\ (InputsOK' <=> InputsOK)
  BY <1>1, SystemSame
<1>11. DenseOK'
  <2>1. \A k \in 1..Len(gapRows) : Times(Coefs(GapList(k))', p2') = SumAt(GapList(k)', X')
    BY <1>8, <1>9, <1>10
  <2> QED BY <1>6, <1>10, <2>1 DEF DenseOK
<1>12. SparseOK' /\ \A c \in Taken' : P'[c] = 0
  BY <1>1, <1>10 DEF SolveInv, SparseOK, FreeZero
<1> QED BY <1>1, <1>10, <1>11, <1>12 DEF SolveInv

LEMMA BackfillSolve ==
  ASSUME TriInv, SolveInv, Backfill
  PROVE  SolveInv'
<1>1. TriOK /\ pc = "back" /\ pc' = "done" /\ p2' = p2 /\ UNCHANGED <<inputs, weights, triangle>>
  BY DEF TriInv, Backfill
<1>2. RowsAre(rows) /\ mWeight \in Nat
  BY <1>1, RowsOK DEF TriInv, TriOK
<1>3. InputsOK /\ SparseOK /\ DenseOK /\ \A c \in Taken : P[c] = 0
  BY <1>1 DEF SolveInv
<1>4. PICK q \in [Cols -> Elem] : q = Filled(Len(mainRows)) /\ Fills(q, Len(mainRows))
  BY <1>1, <1>2, <1>3, FilledIs DEF SparseOK, DenseOK
<1>5. P' = q
  BY <1>4 DEF Backfill
<1>6. /\ type' = type /\ dense' = dense /\ X' = X /\ prng' = prng /\ rows' = rows
      /\ mainRows' = mainRows /\ mainCols' = mainCols /\ gapRows' = gapRows /\ (InputsOK' <=> InputsOK)
  BY <1>1, SystemSame DEF inputs, weights, triangle
<1>7. SparseOK'
  <2>1. prng \/ \A c \in Cols : c \notin Taken => q[c] = 0
    BY <1>3, <1>4 DEF SparseOK, FreeZero, Fills
  <2> QED BY <1>5, <1>6, <2>1 DEF SparseOK, FreeZero, Taken
<1>8. DenseOK'
  <2>1. ASSUME NEW k \in 1..Len(gapRows) PROVE Coefs(GapList(k))' = Coefs(GapList(k)) /\ GapList(k)' = GapList(k)
    BY <1>1, SystemSame
  <2>2. \A k \in 1..Len(gapRows) : Times(Coefs(GapList(k))', p2') = SumAt(GapList(k)', X')
    BY <1>1, <1>3, <1>6, <2>1 DEF DenseOK
  <2> QED BY <1>1, <1>3, <1>6, <2>2 DEF DenseOK
<1>9. ASSUME NEW i \in Range(mainRows) PROVE Solves(P, i)'
  <2>1. Len(mainRows) = Len(mainCols) /\ Len(mainRows) \in Nat /\ DOMAIN mainRows = 1..Len(mainRows)
    BY <1>1, LenProperties DEF TriOK, Triangle
  <2>2. PICK s \in 1..Len(mainRows) : mainRows[s] = i
    BY <2>1 DEF Range
  <2>3. Solves(q, i)
    <3>1. s \in 1..Len(mainCols) /\ s > Len(mainCols) - Len(mainRows)
      BY <2>1
    <3> QED BY <1>4, <2>2, <3>1 DEF Fills
  <2> QED BY <1>1, <1>5, <1>6, <2>3 DEF Solves, SparseSum, DenseSum, CoefRow, Coef
<1>10. \A i \in Range(mainRows)' : Solves(P, i)'
  BY <1>6, <1>9
<1> QED BY <1>1, <1>3, <1>6, <1>7, <1>8, <1>10 DEF SolveInv

LEMMA SolveInvInit == Init => SolveInv
<1>1. Init => InputsOK
  BY PaxosAssumption DEF Init, InputsOK
<1> QED BY <1>1 DEF Init, SolveInv

LEMMA SolveInvNext ==
  ASSUME TriInv, SolveInv, [Next]_vars
  PROVE  SolveInv'
<1>1. CASE SetInput \/ TakeColumn \/ ThrowColumn \/ ThrowGap
  <2>1. pc' \notin {"gap", "back", "done"} /\ dense' = dense /\ X' = X
    BY <1>1 DEF SetInput, TakeColumn, ThrowColumn, ThrowGap, inputs
  <2> QED BY <2>1 DEF SolveInv, InputsOK
<1>2. CASE Triangulated
  BY <1>2, TriangulatedSolve
<1>3. CASE SolveGap
  BY <1>3, SolveGapSolve
<1>4. CASE Backfill
  BY <1>4, BackfillSolve
<1>5. CASE Ended \/ UNCHANGED vars
  <2>1. UNCHANGED vars
    BY <1>5 DEF Ended
  <2>2. pc' = pc /\ P' = P /\ p2' = p2 /\ UNCHANGED <<inputs, weights, triangle>>
    BY <2>1 DEF vars, inputs, weights, triangle
  <2>3. /\ type' = type /\ dense' = dense /\ X' = X /\ prng' = prng /\ rows' = rows
        /\ mainRows' = mainRows /\ mainCols' = mainCols /\ gapRows' = gapRows /\ (InputsOK' <=> InputsOK) /\ Taken' = Taken
    BY <2>2, SystemSame DEF inputs, weights, triangle
  <2>4. SparseOK' <=> SparseOK
    BY <2>2, <2>3 DEF SparseOK, FreeZero
  <2>5. DenseOK' <=> DenseOK
    <3>1. \A k : Coefs(GapList(k))' = Coefs(GapList(k)) /\ GapList(k)' = GapList(k)
      BY <2>2, SystemSame
    <3> QED BY <2>2, <2>3, <3>1 DEF DenseOK
  <2>6. \A i : Solves(P, i)' <=> Solves(P, i)
    BY <2>2, <2>3 DEF Solves, SparseSum, DenseSum, CoefRow, Coef
  <2> QED BY <2>2, <2>3, <2>4, <2>5, <2>6 DEF SolveInv
<1> QED BY <1>1, <1>2, <1>3, <1>4, <1>5 DEF Next

LEMMA SolveInvAlways == Spec => [](TriInv /\ SolveInv)
  BY TriInvInit, TriInvNext, SolveInvInit, SolveInvNext, PTL DEF Spec

(***************************************************************************)
(* Every row is solved, and decodes to its value.                          *)
(***************************************************************************)
LEMMA SumAgree ==
  ASSUME NEW f, NEW g, NEW V, NEW list \in Seq(V), \A i \in V : f[i] = g[i]
  PROVE  SumAt(list, f) = SumAt(list, g)
<1>1. \A k \in 1..Len(list) : f[list[k]] = g[list[k]]
  OBVIOUS
<1>2. [k \in 1..Len(list) |-> f[list[k]]] = [k \in 1..Len(list) |-> g[list[k]]]
  BY <1>1
<1> QED BY <1>2 DEF SumAt

LEMMA SumPairs ==
  ASSUME NEW f \in [Items -> Elem], NEW g \in [Items -> Elem], NEW h \in [Items -> Elem], NEW n \in Nat,
         NEW list \in Seq(Items), Len(list) = n, \A i \in Items : h[i] = Add(f[i], g[i])
  PROVE  SumAt(list, h) = Add(SumAt(list, f), SumAt(list, g))
<1> DEFINE F == [k \in 1..n |-> f[list[k]]]
           G == [k \in 1..n |-> g[list[k]]]
           H == [k \in 1..n |-> h[list[k]]]
<1>1. \A k \in 1..n : list[k] \in Items
  OBVIOUS
<1>2. F \in [1..n -> Elem] /\ G \in [1..n -> Elem] /\ H \in [1..n -> Elem] /\ \A k \in 1..n : H[k] = Add(F[k], G[k])
  BY <1>1
<1>3. SumAt(list, f) = SumTo(n, F) /\ SumAt(list, g) = SumTo(n, G) /\ SumAt(list, h) = SumTo(n, H)
  BY DEF SumAt
<1> HIDE DEF F, G, H
<1>4. IsSumOf(H, F, G, n)
  BY <1>2 DEF IsSumOf
<1>5. SumTo(n, H) = Add(SumTo(n, F), SumTo(n, G))
  BY <1>2, <1>4, SumAdd
<1> QED BY <1>3, <1>5

\* A row of the gap: the rows its equation adds to it are solved, so it is.
LEMMA GapRowSolved ==
  ASSUME TriOK, RowsAre(rows), mWeight \in Nat, InputsOK, SparseOK, DenseOK,
         \A i \in Range(mainRows) : Solves(P, i), NEW k \in 1..Len(gapRows), ~prng \/ RepeatsMain(k)
  PROVE  Solves(P, gapRows[k][1])
<1>1. PICK q \in [Cols -> Elem], p \in [DenseCols -> Elem] : q = P /\ p = p2
  BY DEF SparseOK, DenseOK
<1>2. PICK r \in Items : r = gapRows[k][1]
  BY FCInvIs
<1>3. PICK list : list = FCInv(k) /\ Cancels(r, list, q)
  <2>1. FreeZero(q) \/ RepeatsMain(k)
    BY <1>1 DEF SparseOK
  <2> QED BY <1>2, <2>1, FCInvIs
<1>4. PICK V \in SUBSET Items : V = Range(mainRows)
  <2>1. \A i \in Range(mainRows) : i \in Items
    BY DEF TriOK, Triangle, Range
  <2> QED BY <2>1
<1>5. list \in Seq(V) /\ list \in Seq(Items)
  <2>1. list \in Seq(V)
    BY <1>3, <1>4 DEF Cancels
  <2> QED BY <2>1, SeqMonotonic
<1>6. PICK n \in Nat : n = Len(list)
  BY <1>5
<1>7. PICK S \in [Items -> Elem], D \in [Items -> Elem] : S = SparseSum(q) /\ D = DenseSum(p)
  <2>1. SparseSum(q) = [i \in Items |-> SparseSum(q)[i]] /\ \A i \in Items : SparseSum(q)[i] \in Elem
    BY SparseSumIs DEF SparseSum
  <2>2. SparseSum(q) \in [Items -> Elem]
    BY <2>1
  <2> QED BY <2>2, DenseSumIn
<1>8. PICK x \in [Items -> Elem] : x = X
  BY DEF InputsOK
<1> DEFINE h == [i \in Items |-> Add(S[i], D[i])]
<1>9. h \in [Items -> Elem] /\ \A i \in Items : h[i] = Add(S[i], D[i])
  BY AddLaws
<1>10. \A i \in V : h[i] = x[i]
  BY <1>1, <1>4, <1>7, <1>8, <1>9 DEF Solves
<1> HIDE DEF h
<1>11. SumAt(list, h) = SumAt(list, x)
  BY <1>5, <1>10, SumAgree
<1>12. SumAt(list, h) = Add(SumAt(list, S), SumAt(list, D))
  BY <1>5, <1>6, <1>9, SumPairs
\* The equation of the gap.
<1>13. Add(D[r], SumAt(list, D)) = Add(x[r], SumAt(list, x)) /\ SumAt(list, D) \in Elem /\ SumAt(list, x) \in Elem
  <2>1. PICK all : all = <<r>> \o list
    OBVIOUS
  <2>2. all = GapList(k)
    BY <1>2, <1>3, <2>1 DEF GapList
  <2>3. Times(Coefs(all), p) = SumAt(all, x)
    BY <1>1, <1>8, <2>2 DEF DenseOK
  <2>4. all \in Seq(Items)
    <3>1. <<r>> \in Seq(Items)
      OBVIOUS
    <3> QED BY <1>5, <2>1, <3>1
  <2>5. Times(Coefs(all), p) = SumAt(all, D)
    <3>1. PICK m \in Nat : m = Len(all)
      BY <2>4
    <3> QED BY <1>7, <2>4, <3>1, TimesSum
  <2>6. SumAt(all, D) = Add(D[r], SumAt(list, D)) /\ SumAt(list, D) \in Elem
    BY <1>5, <1>6, <2>1, SumFirst
  <2>7. SumAt(all, x) = Add(x[r], SumAt(list, x)) /\ SumAt(list, x) \in Elem
    BY <1>5, <1>6, <2>1, SumFirst
  <2> QED BY <2>3, <2>5, <2>6, <2>7
<1>14. Add(S[r], SumAt(list, S)) = 0 /\ SumAt(list, S) \in Elem
  <2>1. SumAt(list, S) \in Elem
    BY <1>5, <1>6, SumFirst
  <2> QED BY <1>3, <1>7, <2>1 DEF Cancels
<1>15. PICK sr \in Elem, dr \in Elem, xr \in Elem, ss \in Elem, dd \in Elem, xx \in Elem :
         /\ sr = S[r] /\ dr = D[r] /\ xr = x[r]
         /\ ss = SumAt(list, S) /\ dd = SumAt(list, D) /\ xx = SumAt(list, x)
  BY <1>13, <1>14
<1>16. Add(sr, ss) = 0 /\ Add(dr, dd) = Add(xr, xx) /\ Add(ss, dd) = xx
  BY <1>11, <1>12, <1>13, <1>14, <1>15
<1>17. Add(Add(sr, dr), xx) = Add(xr, xx)
  <2>1. Add(Add(sr, dr), Add(ss, dd)) = Add(Add(sr, ss), Add(dr, dd))
    BY AddSwap
  <2>2. Add(dr, dd) \in Elem
    BY AddLaws
  <2>3. Add(0, Add(dr, dd)) = Add(dr, dd)
    BY <2>2, AddLaws
  <2> QED BY <1>16, <2>1, <2>3
<1>18. Add(sr, dr) = xr
  <2>1. Add(sr, dr) \in Elem
    BY AddLaws
  <2> QED BY <1>17, <2>1, AddCancel
<1> QED BY <1>1, <1>2, <1>7, <1>8, <1>15, <1>18 DEF Solves

\* decode of a sequence of items: those that are solved get their values.
LEMMA DecodeAllIs ==
  ASSUME HashesOK, rows = RowsBuilt(hash), NEW n \in Nat, NEW is \in [1..n -> Items],
         NEW k \in 1..n, Solves(P, is[k])
  PROVE  DecodeAll(P, is)[k] = X[is[k]]
<1> DEFINE hs == [j \in 1..n |-> hash[is[j]]]
           built == RowsBuilt(hs)
<1>1. hs \in [1..n -> HashChoices] /\ mWeight \in Weights
  BY DEF HashesOK
<1>2. built = [j \in 1..n |-> BuildRow(hs[j], mWeight, SparseSize)]
  <2> HIDE DEF hs
  <2> QED BY <1>1, RowsBuiltAre
<1>3. rows = [i \in Items |-> BuildRow(hash[i], mWeight, SparseSize)]
  BY HashRowsAre
<1>4. PICK i \in Items : i = is[k]
  OBVIOUS
<1>5. built[k] = rows[i]
  <2>1. hs[k] = hash[i]
    BY <1>4
  <2> HIDE DEF built, hs
  <2> QED BY <1>2, <1>3, <2>1
<1>6. DOMAIN is = 1..n
  OBVIOUS
<1>7. DecodeAll(P, is) = [j \in 1..n |-> Decode(P, built[j], is[j])]
  BY <1>6 DEF DecodeAll
<1> HIDE DEF built
<1>8. Decode(P, rows[i], i) = X[i]
  BY <1>4, DecodeIs DEF Solves
<1> QED BY <1>4, <1>5, <1>7, <1>8

\* For any field, sizes, hashes and keys: when encode returns, decode gives
\* every item its value, but for the items of the gap that a prng loses.
THEOREM PaxosEncodeSolves == Spec => []EncodeSolves
<1>1. TriInv /\ SolveInv => EncodeSolves
  <2> SUFFICES ASSUME TriInv, SolveInv, pc = "done",
                      NEW is \in {Reverse([i \in Items |-> i])} \cup {<<i>> : i \in Items},
                      NEW k \in DOMAIN is, is[k] \notin Lost
               PROVE  DecodeAll(P, is)[k] = X[is[k]]
    BY DEF EncodeSolves
  <2>1. TriOK /\ rowSet = Items /\ HashesOK /\ rows = RowsBuilt(hash)
    BY DEF TriInv, TriOK, RowsInv
  <2>2. RowsAre(rows) /\ mWeight \in Nat
    BY <2>1, RowsOK DEF TriInv
  <2>3. InputsOK /\ SparseOK /\ DenseOK /\ \A i \in Range(mainRows) : Solves(P, i)
    BY DEF SolveInv
  <2>4. ASSUME NEW n \in 1..Len(gapRows), gapRows[n][1] \notin Lost PROVE Solves(P, gapRows[n][1])
    <3>1. ~prng \/ RepeatsMain(n)
      <4>1. DOMAIN gapRows = 1..Len(gapRows)
        BY <2>1, LenProperties DEF TriOK, GapOK
      <4>2. gapRows[n] \in Range(gapRows)
        BY <4>1 DEF Range
      <4> QED BY <2>4, <4>2 DEF Lost, RepeatsMain
    <3> QED BY <2>1, <2>2, <2>3, <3>1, GapRowSolved
  <2>5. \A i \in Items \ Lost : Solves(P, i)
    <3>1. Items = Range(mainRows) \cup {gapRows[n][1] : n \in 1..Len(gapRows)}
      BY <2>1 DEF TriOK, GapOK
    <3> QED BY <2>3, <2>4, <3>1
  <2>6. \E n \in Nat : is \in [1..n -> Items]
    <3>1. CASE is = Reverse([i \in Items |-> i])
      <4>1. NumItems \in Nat
        BY PaxosAssumption
      <4>2. Len([i \in Items |-> i]) = NumItems
        BY <4>1 DEF Items
      <4>3. \A i \in 1..NumItems : (NumItems - i) + 1 \in Items
        BY <4>1 DEF Items
      <4>4. is \in [1..NumItems -> Items]
        BY <3>1, <4>2, <4>3 DEF Reverse
      <4> QED BY <4>1, <4>4
    <3>2. CASE is \in {<<i>> : i \in Items}
      <4>1. PICK i \in Items : is = <<i>>
        BY <3>2
      <4>2. is \in [1..1 -> Items]
        BY <4>1
      <4> QED BY <4>2
    <3> QED BY <3>1, <3>2
  <2>7. PICK n \in Nat : is \in [1..n -> Items]
    BY <2>6
  <2>8. k \in 1..n /\ is[k] \in Items \ Lost
    BY <2>7
  <2> QED BY <2>1, <2>5, <2>7, <2>8, DecodeAllIs
<1> QED BY <1>1, SolveInvAlways, PTL
=============================================================================
