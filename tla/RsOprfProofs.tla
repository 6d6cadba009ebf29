---------------------------- MODULE RsOprfProofs ----------------------------
(***************************************************************************)
(* The OPRF agrees: for every field, encoding, coin toss and VOLE, and     *)
(* every interleaving of the two parties, what the sender evaluates is     *)
(* what the receiver has put out, as long as the encoding needs no more    *)
(* than two chunks and does not fill the second (below 2^29 blocks; from   *)
(* there on it is false, see the run RsOprfChunks).  And, for an encoding  *)
(* of any size, ws is not opened before wr, nor wr before the commitment.  *)
(***************************************************************************)
EXTENDS RsOprf, TLAPS

(***************************************************************************)
(* Which half of w is opened when: a message with a half of w says what    *)
(* the other side knew when it was sent.                                   *)
(***************************************************************************)
Elems(q) == {q[i] : i \in DOMAIN q}
IsQueue(q) == q \in Seq(Elems(q))
OpenInv ==
  /\ coin \in Coins /\ IsQueue(toS) /\ IsQueue(toR)
  /\ \A m \in Elems(toS) : m.type = "w" => hws # Nothing /\ m.body = coin.wr
  /\ \A m \in Elems(toR) : \/ m.type = "w" /\ sW # Nothing /\ m.body = coin.ws
                           \/ m.type = "hash" /\ m.body = Commit(coin.ws)
  /\ (coin.mal /\ rpc \notin {"seed", "commit"}) => hws # Nothing
  /\ sW # Nothing => hws # Nothing
  /\ spc = "mal" => coin.mal

(***************************************************************************)
(* The messages of the receiver are one stream: its seed, its half of w    *)
(* (in the malicious protocol), the first Cut slots of the masked vector,  *)
(* and the rest.  The socket holds those it has sent and the sender not    *)
(* yet taken.  Window(g, a, b) is g from a + 1 to b.                       *)
(***************************************************************************)
Cut == Least(NumSlots, Chunk)
Piece(v, from, n) == [type |-> "chunk", body |-> [k \in 1..n |-> v[from + k - 1]]]
Half == IF coin.mal THEN 1 ELSE 0
StreamOf(v) == [j \in 1..4 |-> IF j = 1 THEN [type |-> "seed", body |-> coin.seed]
                               ELSE IF coin.mal /\ j = 2 THEN [type |-> "w", body |-> coin.wr]
                               ELSE IF j = 2 + Half THEN Piece(v, 0, Cut) ELSE Piece(v, Cut, NumSlots - Cut)]
Stream == StreamOf(p)
Window(g, a, b) == [i \in 1..b - a |-> g[a + i]]
Turns(at) == IF at = 0 THEN 0 ELSE IF at = Cut THEN 1 ELSE 2
Sent == IF rpc = "seed" THEN 0
        ELSE IF rpc \in {"commit", "fork", "solve", "vole"} THEN 1 ELSE 1 + Half + Turns(cAt)
Taken == IF spc \in {"commit", "fork", "seed"} THEN 0
         ELSE IF spc \in {"vole", "mal"} THEN 1 ELSE 1 + Half + Turns(sAt)

\* The solution the receiver masks: its vector with the mask taken off again.
Sol == [i \in Slots |-> IF i < cAt THEN Add(p[i], ac.c[i]) ELSE p[i]]

(***************************************************************************)
(* The inductive invariant.                                                *)
(***************************************************************************)
ForkInv ==
  /\ spc \in {"commit", "fork", "seed", "vole", "mal", "chunk", "done"}
  /\ rpc \in {"seed", "commit", "fork", "solve", "vole", "chunk", "decode", "open", "done"}
  /\ ("s" \in vole \/ vole = {"done"}) => spc \notin {"commit", "fork"}
  /\ ("r" \in vole \/ vole = {"done"}) => rpc \notin {"seed", "commit", "fork"}
  /\ spc \in {"mal", "chunk", "done"} => vole = {"done"}
  /\ rpc \in {"chunk", "decode", "open", "done"} => vole = {"done"}
FlowInv == Taken <= Sent /\ toS = Window(Stream, Taken, Sent)
\* How far the two are in the vector.
TurnInv ==
  /\ sAt \in {0, Cut, NumSlots} /\ cAt \in {0, Cut, NumSlots}
  /\ sAt = NumSlots <=> spc = "done"
  /\ sAt # 0 => spc \in {"chunk", "done"}
  /\ cAt = NumSlots <=> rpc \in {"decode", "open", "done"}
  /\ cAt # 0 => rpc \in {"chunk", "decode", "open", "done"}
  /\ rpc \notin {"decode", "open", "done"} => ~pGone /\ pAt = cAt
  /\ rpc \in {"vole", "chunk"} => pLen = NumSlots - cAt
SeedInv == spc \in {"vole", "mal", "chunk", "done"} => sSeed = coin.seed
HalfInv == (coin.mal /\ spc \in {"chunk", "done"}) => sW = Add(coin.wr, coin.ws)
SolInv == rpc \notin {"seed", "commit", "fork", "solve"} => p \in Vec /\ Sol \in Solutions(coin.seed)
\* The sender's vector: d times c, plus a, and once its slot is taken a plus d times the solution.
SendInv == vole = {"done"} =>
  /\ ac \in [a : Vec, c : Vec]
  /\ sB = [i \in Slots |-> IF i < sAt THEN Add(ac.a[i], Mul(coin.d, Sol[i]))
                                      ELSE Add(Mul(coin.d, ac.c[i]), ac.a[i])]
OutInv ==
  /\ rpc = "open" => coin.mal /\ outputs = [x \in Items |-> Raw(Decode(coin.seed, x, ac.a))]
  /\ rpc = "done" =>
       outputs = [x \in Items |-> Prf(IF coin.mal THEN Add(Decode(coin.seed, x, ac.a), Add(coin.ws, coin.wr))
                                                  ELSE Decode(coin.seed, x, ac.a), x)]
OprfInv == OpenInv /\ ForkInv /\ FlowInv /\ TurnInv /\ SeedInv /\ HalfInv /\ SolInv /\ SendInv /\ OutInv

(***************************************************************************)
(* Facts about the operators.                                              *)
(***************************************************************************)
LEMMA CoinFacts ==
  ASSUME coin \in Coins
  PROVE  /\ coin.seed \in Seeds /\ coin.wr \in F /\ coin.ws \in F /\ coin.d \in F /\ coin.mal \in BOOLEAN
         /\ Add(coin.wr, coin.ws) \in F /\ Add(coin.wr, coin.ws) # Nothing
         /\ Add(coin.wr, coin.ws) = Add(coin.ws, coin.wr)
<1>1. /\ coin.seed \in Seeds /\ coin.wr \in F /\ coin.ws \in F /\ coin.d \in F /\ coin.mal \in BOOLEAN
  BY OprfAssumption
<1>2. Add(coin.wr, coin.ws) \in F /\ Add(coin.wr, coin.ws) = Add(coin.ws, coin.wr)
  BY <1>1, FieldAssumption, Zenon
<1>3. Add(coin.wr, coin.ws) # Nothing
  BY <1>2, OprfAssumption, Zenon
<1> QED BY <1>1, <1>2, <1>3

LEMMA SeqWider ==
  ASSUME NEW S, NEW T, S \subseteq T, NEW q \in Seq(S)
  PROVE  q \in Seq(T)
<1>1. PICK n \in Nat : q \in [1..n -> S]
  OBVIOUS
<1> QED BY <1>1

LEMMA SolutionIn ==
  ASSUME NEW seed, NEW s \in Solutions(seed)
  PROVE  s \in Vec /\ \A x \in Items : Decode(seed, x, s) = HashItem(x)
  BY DEF Solutions

\* d * (c + s) added to d * c + a is a + d * s.
LEMMA Unmask ==
  ASSUME NEW a \in F, NEW c \in F, NEW d \in F, NEW s \in F
  PROVE  Add(Add(Mul(d, c), a), Mul(d, Add(s, c))) = Add(a, Mul(d, s))
<1> DEFINE u == Mul(d, c)
           v == Mul(d, s)
<1>1. u \in F /\ v \in F /\ Mul(d, Add(s, c)) = Add(v, u)
  BY FieldAssumption
<1> HIDE DEF u, v
<1>2. Add(Add(u, a), Add(v, u)) = Add(a, v)
  <2>1. Add(u, a) = Add(a, u) /\ Add(v, u) = Add(u, v) /\ Add(a, u) \in F /\ Add(u, v) \in F
    BY <1>1, FieldAssumption
  <2>2. Add(Add(a, u), Add(u, v)) = Add(a, Add(u, Add(u, v)))
    BY <1>1, <2>1, FieldAssumption
  <2>3. Add(u, Add(u, v)) = Add(Add(u, u), v) /\ Add(u, u) = Zero
    BY <1>1, FieldAssumption
  <2>4. Add(Zero, v) = v
    BY <1>1, FieldAssumption
  <2>5. Add(u, Add(u, v)) = v
    BY <2>3, <2>4, Zenon
  <2> QED BY <2>1, <2>2, <2>5, Zenon
<1> QED BY <1>1, <1>2, Zenon DEF u, v

LEMMA MaskTwice ==
  ASSUME NEW x \in F, NEW c \in F
  PROVE  Add(Add(x, c), c) = x
<1>1. Add(Add(x, c), c) = Add(x, Add(c, c)) /\ Add(c, c) = Zero /\ Add(x, Zero) = x
  BY FieldAssumption
<1> QED BY <1>1, Zenon

LEMMA VecClosed ==
  ASSUME NEW u \in Vec, NEW v \in Vec, NEW d \in F
  PROVE  AddV(u, v) \in Vec /\ Scale(d, v) \in Vec
  BY FieldAssumption DEF AddV, Scale, Vec

\* Append and Tail as functions.
LEMMA SeqFacts ==
  ASSUME NEW S, NEW q \in Seq(S), NEW m \in S
  PROVE  /\ Len(q) \in Nat /\ q = [i \in 1..Len(q) |-> q[i]]
         /\ Append(q, m) = [i \in 1..Len(q) + 1 |-> IF i = Len(q) + 1 THEN m ELSE q[i]]
         /\ q # <<>> => Len(q) > 0 /\ Head(q) = q[1] /\ Tail(q) = [i \in 1..Len(q) - 1 |-> q[i + 1]]
<1>1. Len(q) \in Nat /\ q = [i \in 1..Len(q) |-> q[i]]
  OBVIOUS
<1>2. Append(q, m) = [i \in 1..Len(q) + 1 |-> IF i = Len(q) + 1 THEN m ELSE q[i]]
  <2> DEFINE t == Append(q, m)
  <2>1. t \in Seq(S) /\ Len(t) = Len(q) + 1 /\ \A i \in 1..Len(q) + 1 : t[i] = IF i = Len(q) + 1 THEN m ELSE q[i]
    OBVIOUS
  <2>2. t = [i \in 1..Len(t) |-> t[i]]
    <3> HIDE DEF t
    <3> QED BY <2>1
  <2> HIDE DEF t
  <2>3. t = [i \in 1..Len(q) + 1 |-> IF i = Len(q) + 1 THEN m ELSE q[i]]
    BY <2>1, <2>2, Zenon
  <2> QED BY <2>3 DEF t
<1>3. ASSUME q # <<>> PROVE Len(q) > 0 /\ Head(q) = q[1] /\ Tail(q) = [i \in 1..Len(q) - 1 |-> q[i + 1]]
  <2> DEFINE t == Tail(q)
  <2>1. Len(q) > 0 /\ Head(q) = q[1] /\ t \in Seq(S) /\ Len(t) = Len(q) - 1 
    BY <1>3
  <2>4. \A i \in 1..Len(q) - 1 : t[i] = q[i + 1]
    BY <1>3
  <2>2. t = [i \in 1..Len(t) |-> t[i]]
    <3> HIDE DEF t
    <3> QED BY <2>1
  <2> HIDE DEF t
  <2>3. t = [i \in 1..Len(q) - 1 |-> q[i + 1]]
    BY <2>1, <2>2, <2>4, Zenon
  <2> QED BY <2>1, <2>3 DEF t
<1> QED BY <1>1, <1>2, <1>3

LEMMA QueueElems ==
  ASSUME NEW q, IsQueue(q)
  PROVE  /\ q # <<>> => Head(q) \in Elems(q) /\ IsQueue(Tail(q)) /\ Elems(Tail(q)) \subseteq Elems(q)
         /\ \A m : IsQueue(Append(q, m)) /\ Elems(Append(q, m)) = Elems(q) \cup {m}
<1>1. PICK n \in Nat : q \in [1..n -> Elems(q)] /\ Len(q) = n /\ DOMAIN q = 1..n
  BY DEF IsQueue
<1>2. ASSUME q # <<>> PROVE Head(q) \in Elems(q) /\ IsQueue(Tail(q)) /\ Elems(Tail(q)) \subseteq Elems(q)
  <2>1. n > 0 /\ Head(q) = q[1] /\ 1 \in DOMAIN q
    BY <1>1, <1>2 DEF IsQueue
  <2>2. Tail(q) = [i \in 1..n - 1 |-> q[i + 1]]
    BY <1>1, <1>2, <2>1, SeqFacts, Zenon DEF IsQueue
  <2>3. DOMAIN Tail(q) = 1..n - 1 /\ \A i \in 1..n - 1 : Tail(q)[i] = q[i + 1] /\ i + 1 \in DOMAIN q
    BY <1>1, <2>1, <2>2
  <2>4. Elems(Tail(q)) \subseteq Elems(q)
    BY <2>3 DEF Elems
  <2>5. Tail(q) \in Seq(Elems(Tail(q)))
    <3> DEFINE t == Tail(q)
    <3>1. \A i \in 1..n - 1 : t[i] \in Elems(t)
      BY <2>3 DEF Elems
    <3>2. t = [i \in 1..n - 1 |-> t[i]]
      BY <2>2, <2>3, Zenon
    <3>3. n - 1 \in Nat
      BY <1>1, <2>1
    <3> HIDE DEF t
    <3>4. t \in [1..n - 1 -> Elems(t)]
      BY <3>1, <3>2
    <3>5. t \in Seq(Elems(t))
      BY <3>3, <3>4
    <3> QED BY <3>5 DEF t
  <2> QED BY <2>1, <2>4, <2>5 DEF Elems, IsQueue
<1>3. ASSUME NEW m PROVE IsQueue(Append(q, m)) /\ Elems(Append(q, m)) = Elems(q) \cup {m}
  <2> DEFINE t == Append(q, m)
  <2>1. t = [i \in 1..n + 1 |-> IF i = n + 1 THEN m ELSE q[i]]
    <3>1. q \in Seq(Elems(q) \cup {m})
      BY SeqWider DEF IsQueue
    <3> QED BY <1>1, <3>1, SeqFacts
  <2>2. DOMAIN t = 1..n + 1 /\ t[n + 1] = m /\ \A i \in 1..n : t[i] = q[i]
    BY <1>1, <2>1
  <2> HIDE DEF t
  <2>3. Elems(t) = Elems(q) \cup {m}
    <3>1. \A i \in 1..n + 1 : i = n + 1 \/ i \in 1..n
      BY <1>1
    <3>2. \A i \in 1..n : i \in 1..n + 1
      BY <1>1
    <3>3. n + 1 \in 1..n + 1
      BY <1>1
    <3> QED BY <1>1, <2>2, <3>1, <3>2, <3>3 DEF Elems
  <2>4. t \in [1..n + 1 -> Elems(t)]
    <3>1. \A i \in 1..n + 1 : t[i] \in Elems(t)
      BY <2>2 DEF Elems
    <3> QED BY <2>1, <2>2, <3>1
  <2>5. t \in Seq(Elems(t))
    BY <1>1, <2>4
  <2> QED BY <2>3, <2>5 DEF IsQueue, t
<1> QED BY <1>2, <1>3

LEMMA WindowSeq ==
  ASSUME NEW g, NEW a \in Nat, NEW b \in Nat, a <= b
  PROVE  Window(g, a, b) \in Seq(Elems(Window(g, a, b))) /\ Len(Window(g, a, b)) = b - a
<1> DEFINE w == Window(g, a, b)
<1>1. PICK n \in Nat : n = b - a
  OBVIOUS
<1>2. w = [i \in 1..n |-> g[a + i]]
  BY <1>1 DEF Window
<1>3. \A i \in 1..n : w[i] \in Elems(w)
  BY <1>2 DEF Elems
<1> HIDE DEF w
<1>4. w \in [1..n -> Elems(w)]
  BY <1>2, <1>3
<1>5. w \in Seq(Elems(w)) /\ Len(w) = n
  BY <1>4
<1> QED BY <1>1, <1>5 DEF w

LEMMA WindowHead ==
  ASSUME NEW g, NEW a \in Nat, NEW b \in Nat, a <= b, Window(g, a, b) # <<>>
  PROVE  a + 1 <= b /\ Head(Window(g, a, b)) = g[a + 1] /\ Tail(Window(g, a, b)) = Window(g, a + 1, b)
<1> DEFINE w == Window(g, a, b)
           n == b - a
<1>1. n \in Nat /\ w = [i \in 1..n |-> g[a + i]]
  BY DEF Window
<1>2. w \in Seq(Elems(w)) /\ Len(w) = n
  BY WindowSeq
<1>3. n > 0
  <2> HIDE DEF w, n
  <2> QED BY <1>1, <1>2 DEF w
<1>4. Head(w) = g[a + 1]
  <2> HIDE DEF w
  <2>1. Head(w) = w[1]
    BY <1>2, <1>3
  <2> QED BY <1>1, <1>3, <2>1
<1>5. Tail(w) = Window(g, a + 1, b)
  <2> HIDE DEF w
  <2>1. Tail(w) = [i \in 1..n - 1 |-> w[i + 1]]
    <3> HIDE DEF n
    <3>1. w # <<>>
      BY <1>2, <1>3
    <3> QED BY <1>2, <3>1, SeqFacts
  <2>2. \A i \in 1..n - 1 : w[i + 1] = g[(a + 1) + i]
    BY <1>1
  <2>3. Window(g, a + 1, b) = [i \in 1..n - 1 |-> g[(a + 1) + i]]
    <3>1. b - (a + 1) = n - 1
      OBVIOUS
    <3> HIDE DEF n
    <3> QED BY <3>1 DEF Window
  <2> QED BY <2>1, <2>2, <2>3
<1> QED BY <1>3, <1>4, <1>5

LEMMA WindowMore ==
  ASSUME NEW g, NEW a \in Nat, NEW b \in Nat, a <= b
  PROVE  Append(Window(g, a, b), g[b + 1]) = Window(g, a, b + 1)
<1> DEFINE w == Window(g, a, b)
           n == b - a
<1>1. n \in Nat /\ w = [i \in 1..n |-> g[a + i]]
  BY DEF Window
<1>2. w \in Seq(Elems(w)) /\ Len(w) = n
  BY WindowSeq
<1>3. PICK m : m = g[b + 1]
  OBVIOUS
<1>4. Append(w, m) = [i \in 1..n + 1 |-> IF i = n + 1 THEN m ELSE w[i]]
  <2> HIDE DEF w, n
  <2>1. w \in Seq(Elems(w) \cup {m})
    BY <1>2, SeqWider
  <2> QED BY <1>2, <2>1, SeqFacts
<1>5. Window(g, a, b + 1) = [i \in 1..n + 1 |-> g[a + i]]
  <2>1. (b + 1) - a = n + 1
    OBVIOUS
  <2> HIDE DEF n
  <2> QED BY <2>1 DEF Window
<1>6. \A i \in 1..n + 1 : (IF i = n + 1 THEN m ELSE w[i]) = g[a + i]
  <2>1. a + (n + 1) = b + 1
    OBVIOUS
  <2> HIDE DEF w, n
  <2>2. \A i \in 1..n + 1 : i = n + 1 \/ i \in 1..n
    BY <1>1
  <2> QED BY <1>1, <1>3, <2>1, <2>2
<1> HIDE DEF w, n
<1>7. Append(w, m) = Window(g, a, b + 1)
  BY <1>4, <1>5, <1>6
<1> QED BY <1>3, <1>7 DEF w

LEMMA WindowSame ==
  ASSUME NEW g, NEW h, NEW a \in Nat, NEW b \in Nat, \A j \in a + 1..b : g[j] = h[j]
  PROVE  Window(g, a, b) = Window(h, a, b)
<1>1. \A i \in 1..b - a : g[a + i] = h[a + i]
  <2> TAKE i \in 1..b - a
  <2>1. a + i \in a + 1..b
    OBVIOUS
  <2> QED BY <2>1
<1> QED BY <1>1 DEF Window

LEMMA SizeFacts ==
  /\ NumSlots \in Nat /\ NumSlots > 0 /\ Chunk \in Nat /\ Chunk > 0 /\ Unroll \in Nat /\ Unroll > 0
  /\ Cut \in Nat /\ 0 < Cut /\ Cut <= NumSlots /\ Cut <= Chunk
  /\ Cut < NumSlots => Cut = Chunk
  BY OprfAssumption DEF Cut, Least

(***************************************************************************)
(* The halves of w, for an encoding of any size.                           *)
(***************************************************************************)
LEMMA OpenInit == ASSUME Init PROVE OpenInv
<1>1. Elems(toS) = {} /\ Elems(toR) = {} /\ IsQueue(toS) /\ IsQueue(toR)
  BY DEF Init, Elems, IsQueue
<1> QED BY <1>1 DEF Init, OpenInv

\* One receives, and what is left are messages that were there before.
LEMMA OpenTake ==
  ASSUME OpenInv
  PROVE  /\ toS # <<>> => Head(toS) \in Elems(toS) /\ IsQueue(Tail(toS)) /\ Elems(Tail(toS)) \subseteq Elems(toS)
         /\ toR # <<>> => Head(toR) \in Elems(toR) /\ IsQueue(Tail(toR)) /\ Elems(Tail(toR)) \subseteq Elems(toR)
  BY QueueElems DEF OpenInv

LEMMA OpenPut ==
  ASSUME OpenInv, NEW m
  PROVE  /\ IsQueue(Append(toS, m)) /\ Elems(Append(toS, m)) = Elems(toS) \cup {m}
         /\ IsQueue(Append(toR, m)) /\ Elems(Append(toR, m)) = Elems(toR) \cup {m}
  BY QueueElems DEF OpenInv

LEMMA OpenSender == ASSUME OpenInv, Sender PROVE OpenInv'
<1>1. CASE SCommit
  <2>1. PICK m : m = [type |-> "hash", body |-> Commit(coin.ws)]
    OBVIOUS
  <2>2. /\ toR' = IF coin.mal THEN Append(toR, m) ELSE toR
        /\ spc' = "fork" /\ UNCHANGED <<coin, hws, sW, rpc, toS>>
    BY <1>1, <2>1 DEF SCommit, recvState
  <2>3. IsQueue(toR') /\ Elems(toR') \subseteq Elems(toR) \cup {m}
    BY <2>2, OpenPut DEF OpenInv
  <2> QED BY <2>1, <2>2, <2>3 DEF OpenInv, Commit
<1>2. CASE SFork \/ SVole
  <2>1. UNCHANGED <<coin, hws, sW, rpc, toS, toR>> /\ (spc' = "mal" => coin.mal)
    BY <1>2 DEF SFork, SVole, recvState
  <2> QED BY <2>1 DEF OpenInv, Commit
<1>3. CASE SSeed \/ SChunk
  <2>1. /\ toS # <<>> /\ toS' = Tail(toS) /\ spc' # "mal"
        /\ UNCHANGED <<coin, hws, sW, rpc, toR>>
    BY <1>3 DEF SSeed, SChunk, recvState
  <2>2. IsQueue(toS') /\ Elems(toS') \subseteq Elems(toS)
    BY <2>1, OpenTake
  <2> QED BY <2>1, <2>2 DEF OpenInv, Commit
<1>4. CASE SMal
  <2>1. PICK m : m = [type |-> "w", body |-> coin.ws]
    OBVIOUS
  <2>2. /\ toS # <<>> /\ Head(toS).type = "w" /\ toS' = Tail(toS) /\ toR' = Append(toR, m)
        /\ sW' = Add(Head(toS).body, coin.ws)
        /\ spc' = "chunk" /\ UNCHANGED <<coin, hws, rpc>>
    BY <1>4, <2>1 DEF SMal, recvState
  <2>3. /\ IsQueue(toS') /\ Elems(toS') \subseteq Elems(toS) /\ Head(toS) \in Elems(toS)
        /\ IsQueue(toR') /\ Elems(toR') = Elems(toR) \cup {m}
    BY <2>2, OpenTake, OpenPut
  <2>4. hws # Nothing /\ Head(toS).body = coin.wr
    BY <2>2, <2>3 DEF OpenInv
  <2>5. sW' = Add(coin.wr, coin.ws)
    BY <2>2, <2>4, Zenon
  <2>6. sW' # Nothing
    BY <2>5, CoinFacts, Zenon DEF OpenInv
  <2> QED BY <2>1, <2>2, <2>3, <2>4, <2>6 DEF OpenInv, Commit
<1> QED BY <1>1, <1>2, <1>3, <1>4 DEF Sender

LEMMA OpenReceiver == ASSUME OpenInv, Receiver PROVE OpenInv'
<1>1. CASE RSeed
  <2>1. PICK m : m = [type |-> "seed", body |-> coin.seed]
    OBVIOUS
  <2>2. /\ toS' = Append(toS, m) /\ rpc' = (IF coin.mal THEN "commit" ELSE "fork")
        /\ UNCHANGED <<coin, hws, sW, spc, toR>>
    BY <1>1, <2>1 DEF RSeed, sendState
  <2>3. IsQueue(toS') /\ Elems(toS') = Elems(toS) \cup {m}
    BY <2>2, OpenPut
  <2> QED BY <2>1, <2>2, <2>3 DEF OpenInv, Commit
<1>2. CASE RCommit
  <2>1. /\ toR # <<>> /\ Head(toR).type = "hash" /\ toR' = Tail(toR) /\ hws' = Head(toR).body
        /\ UNCHANGED <<coin, sW, spc, toS>>
    BY <1>2 DEF RCommit, sendState
  <2>2. IsQueue(toR') /\ Elems(toR') \subseteq Elems(toR) /\ Head(toR) \in Elems(toR)
    BY <2>1, OpenTake
  <2>3. hws' = Commit(coin.ws)
    BY <2>1, <2>2 DEF OpenInv
  <2>4. hws' # Nothing
    BY <2>3, CoinFacts, OprfAssumption, Zenon DEF Commit, OpenInv
  <2> QED BY <2>1, <2>2, <2>4 DEF OpenInv, Commit
<1>3. CASE RFork \/ RSolve \/ RDecode
  <2>1. UNCHANGED <<coin, hws, sW, spc, toS, toR>> /\ rpc \notin {"seed", "commit"}
    BY <1>3 DEF RFork, RSolve, RDecode, sendState
  <2> QED BY <2>1 DEF OpenInv, Commit
<1>4. CASE RVole
  <2>1. PICK m : m = [type |-> "w", body |-> coin.wr]
    OBVIOUS
  <2>2. /\ toS' = (IF coin.mal THEN Append(toS, m) ELSE toS) /\ rpc = "vole"
        /\ UNCHANGED <<coin, hws, sW, spc, toR>>
    BY <1>4, <2>1 DEF RVole, sendState
  <2>3. IsQueue(toS') /\ Elems(toS') \subseteq Elems(toS) \cup (IF coin.mal THEN {m} ELSE {})
    BY <2>2, OpenPut DEF OpenInv
  <2> QED BY <2>1, <2>2, <2>3 DEF OpenInv, Commit
<1>5. CASE RChunk
  <2>1. PICK m : toS' = Append(toS, m) /\ m.type = "chunk"
    <3>1. PICK b : toS' = Append(toS, [type |-> "chunk", body |-> b])
      BY <1>5, Zenon DEF RChunk
    <3>2. PICK m : m = [type |-> "chunk", body |-> b]
      OBVIOUS
    <3> QED BY <3>1, <3>2
  <2>2. UNCHANGED <<coin, hws, sW, spc, toR>> /\ rpc \notin {"seed", "commit"}
    BY <1>5 DEF RChunk, sendState
  <2>3. IsQueue(toS') /\ Elems(toS') = Elems(toS) \cup {m}
    BY <2>1, OpenPut
  <2> QED BY <2>1, <2>2, <2>3 DEF OpenInv, Commit
<1>6. CASE ROpen
  <2>1. /\ toR # <<>> /\ toR' = Tail(toR) /\ rpc = "open"
        /\ UNCHANGED <<coin, hws, sW, spc, toS>>
    BY <1>6 DEF ROpen, sendState
  <2>2. IsQueue(toR') /\ Elems(toR') \subseteq Elems(toR)
    BY <2>1, OpenTake
  <2> QED BY <2>1, <2>2 DEF OpenInv, Commit
<1> QED BY <1>1, <1>2, <1>3, <1>4, <1>5, <1>6 DEF Receiver

LEMMA OpenStep == ASSUME OpenInv, [Next]_vars PROVE OpenInv'
<1>1. CASE Vole \/ Terminated \/ UNCHANGED vars
  <2>1. UNCHANGED <<coin, hws, sW, spc, rpc, toS, toR>>
    BY <1>1 DEF Vole, Terminated, vars
  <2> QED BY <2>1 DEF OpenInv, Commit
<1> QED BY <1>1, OpenSender, OpenReceiver DEF Next

\* For every field, coin toss, number of slots and interleaving, and however the vector is cut
\* into chunks: the sender opens ws only after it has read wr, and the receiver sends wr only
\* after it holds the commitment (RsOprfSender::send and RsOprfReceiver::receive, mMalicious).
THEOREM OprfCommitFirst == Spec => []CommitFirst
<1>1. Init => OpenInv
  BY OpenInit
<1>2. OpenInv /\ [Next]_vars => OpenInv'
  BY OpenStep
<1>3. OpenInv => CommitFirst
  <2> SUFFICES ASSUME OpenInv PROVE CommitFirst
    OBVIOUS
  <2>1. \A q, i : IsQueue(q) /\ i \in 1..Len(q) => q[i] \in Elems(q)
    BY DEF IsQueue, Elems
  <2> QED BY <2>1 DEF OpenInv, CommitFirst
<1> QED BY <1>1, <1>2, <1>3, PTL DEF Spec

(***************************************************************************)
(* Agreement: what the steps of one side leave alone.                      *)
(***************************************************************************)
LEMMA SameVec ==
  ASSUME UNCHANGED <<coin, p, cAt, ac>>
  PROVE  Sol' = Sol /\ Stream' = Stream /\ Solutions(coin.seed)' = Solutions(coin.seed)
  BY Zenon DEF Sol, Stream, StreamOf, Piece, Half, Cut, Solutions

LEMMA FlowKept ==
  ASSUME FlowInv, UNCHANGED <<coin, p, toS>>, Taken' = Taken, Sent' = Sent
  PROVE  FlowInv'
<1>1. Stream' = Stream
  BY Zenon DEF Stream, StreamOf, Piece, Half, Cut
<1> QED BY <1>1 DEF FlowInv, Window

LEMMA SendSide ==
  ASSUME OprfInv, UNCHANGED <<coin, recvState, sAt, sB>>, vole' = {"done"} <=> vole = {"done"}
  PROVE  SolInv' /\ SendInv' /\ OutInv'
<1>1. /\ rpc' = rpc /\ p' = p /\ pAt' = pAt /\ pLen' = pLen /\ cAt' = cAt
      /\ pGone' = pGone /\ ac' = ac /\ outputs' = outputs /\ coin' = coin /\ sAt' = sAt /\ sB' = sB
  BY DEF recvState
<1>2. Sol' = Sol /\ Solutions(coin.seed)' = Solutions(coin.seed)
  BY <1>1, SameVec
<1>3. SolInv'
  BY <1>1, <1>2, Zenon DEF OprfInv, SolInv
<1>4. SendInv'
  BY <1>1, <1>2, Zenon DEF OprfInv, SendInv
<1>5. OutInv'
  BY <1>1, Zenon DEF OprfInv, OutInv, Raw, Prf
<1> QED BY <1>3, <1>4, <1>5

LEMMA RecvSide ==
  ASSUME OprfInv, UNCHANGED <<coin, sendState, p, cAt, ac>>, vole' = {"done"} <=> vole = {"done"}
  PROVE  SeedInv' /\ HalfInv' /\ SendInv'
<1>1. /\ spc' = spc /\ sSeed' = sSeed /\ sB' = sB /\ sW' = sW /\ sAt' = sAt /\ ac' = ac /\ coin' = coin
  BY DEF sendState
<1>2. Sol' = Sol
  BY SameVec
<1>3. SendInv'
  BY <1>1, <1>2, Zenon DEF OprfInv, SendInv
<1> QED BY <1>1, <1>3 DEF OprfInv, SeedInv, HalfInv

LEMMA AgreeInit == ASSUME Init PROVE OprfInv
<1>1. Turns(sAt) = 0 /\ Turns(cAt) = 0
  BY DEF Init, Turns
<1>2. FlowInv
  <2>1. Taken = 0 /\ Sent = 0
    BY DEF Init, Taken, Sent
  <2>2. Window(Stream, 0, 0) = <<>>
    BY DEF Window
  <2> QED BY <2>1, <2>2 DEF Init, FlowInv
<1>3. ForkInv /\ SeedInv /\ HalfInv /\ OutInv
  BY DEF Init, ForkInv, SeedInv, HalfInv, OutInv
<1>4. TurnInv /\ SolInv /\ SendInv
  BY SizeFacts DEF Init, TurnInv, SolInv, SendInv
<1> QED BY <1>2, <1>3, <1>4, OpenInit DEF OprfInv

\* How many messages have gone, by where each side is.
LEMMA CountFacts ==
  ASSUME OprfInv
  PROVE  /\ Half \in {0, 1} /\ (Half = 1 <=> coin.mal)
         /\ Taken \in Nat /\ Sent \in Nat /\ Taken <= Sent /\ Sent <= 4
         /\ Turns(0) = 0 /\ Turns(Cut) = 1 /\ (Cut < NumSlots => Turns(NumSlots) = 2)
         /\ Turns(sAt) \in 0..2 /\ Turns(cAt) \in 0..2
<1>1. Half \in {0, 1} /\ (Half = 1 <=> coin.mal)
  BY DEF Half
<1>2. /\ Turns(0) = 0 /\ Turns(Cut) = 1 /\ (Cut < NumSlots => Turns(NumSlots) = 2)
      /\ Turns(sAt) \in 0..2 /\ Turns(cAt) \in 0..2
  BY SizeFacts DEF Turns
<1> HIDE DEF Half
<1>3. Taken \in Nat /\ Sent \in Nat /\ Sent <= 4
  BY <1>1, <1>2 DEF Taken, Sent
<1> QED BY <1>1, <1>2, <1>3 DEF OprfInv, FlowInv

\* The sender takes the next message of the stream.
LEMMA Next1 ==
  ASSUME OprfInv, toS # <<>>
  PROVE  /\ Taken + 1 <= Sent /\ Head(toS) = Stream[Taken + 1]
         /\ Tail(toS) = Window(Stream, Taken + 1, Sent)
<1>1. PICK a \in Nat, b \in Nat : a = Taken /\ b = Sent /\ a <= b
  BY CountFacts
<1>2. toS = Window(Stream, a, b)
  BY <1>1 DEF OprfInv, FlowInv
<1> QED BY <1>1, <1>2, WindowHead

LEMMA StreamIs ==
  ASSUME NEW v
  PROVE  /\ StreamOf(v)[1] = [type |-> "seed", body |-> coin.seed]
         /\ coin.mal => StreamOf(v)[2] = [type |-> "w", body |-> coin.wr]
         /\ Half \in {0, 1} => /\ StreamOf(v)[2 + Half] = Piece(v, 0, Cut)
                               /\ StreamOf(v)[3 + Half] = Piece(v, Cut, NumSlots - Cut)
<1>1. StreamOf(v)[1] = [type |-> "seed", body |-> coin.seed]
  BY DEF StreamOf
<1>2. coin.mal => StreamOf(v)[2] = [type |-> "w", body |-> coin.wr]
  BY DEF StreamOf
<1>3. ASSUME coin.mal
      PROVE  StreamOf(v)[3] = Piece(v, 0, Cut) /\ StreamOf(v)[4] = Piece(v, Cut, NumSlots - Cut) /\ Half = 1
  BY <1>3 DEF StreamOf, Half
<1>4. ASSUME ~coin.mal
      PROVE  StreamOf(v)[2] = Piece(v, 0, Cut) /\ StreamOf(v)[3] = Piece(v, Cut, NumSlots - Cut) /\ Half = 0
  BY <1>4 DEF StreamOf, Half
<1> QED BY <1>1, <1>2, <1>3, <1>4

\* A step of the receiver changes only what the vector's pieces hold.
LEMMA StreamNow ==
  ASSUME coin' = coin, NEW v, v = p'
  PROVE  Stream' = StreamOf(v) /\ Half' = Half
  BY Zenon DEF Stream, StreamOf, Half, Cut, Piece

(***************************************************************************)
(* The sender's actions.                                                   *)
(***************************************************************************)
LEMMA SQuietInv == ASSUME OprfInv, OpenInv', SCommit \/ SFork \/ SVole PROVE OprfInv'
<1>1. /\ UNCHANGED <<coin, recvState, sAt, sB, sSeed, sW, toS>> /\ rpc' = rpc /\ p' = p /\ cAt' = cAt
      /\ pAt' = pAt /\ pLen' = pLen /\ pGone' = pGone
  BY DEF SCommit, SFork, SVole, recvState
<1>2. vole' = {"done"} <=> vole = {"done"}
  BY DEF SCommit, SFork, SVole, OprfInv, ForkInv
<1>3. ForkInv' /\ SeedInv'
  BY <1>1 DEF SCommit, SFork, SVole, OprfInv, ForkInv, SeedInv
<1>4. HalfInv'
  BY <1>1 DEF SCommit, SFork, SVole, OprfInv, HalfInv
<1>5. TurnInv'
  BY <1>1, SizeFacts DEF SCommit, SFork, SVole, OprfInv, TurnInv, Cut
<1>6. FlowInv'
  <2>1. Turns(cAt)' = Turns(cAt) /\ Turns(sAt)' = Turns(sAt) /\ Half' = Half
    BY <1>1, Zenon DEF Turns, Half, Cut
  <2>2. Sent' = Sent
    BY <1>1, <2>1, Zenon DEF Sent
  <2>3. Taken' = Taken
    <3>1. CASE SCommit \/ SFork
      BY <3>1 DEF SCommit, SFork, Taken
    <3>2. CASE SVole
      <4>1. sAt = 0 /\ Turns(sAt) = 0 /\ Half = IF coin.mal THEN 1 ELSE 0
        BY <3>2, SizeFacts DEF SVole, OprfInv, TurnInv, Half, Turns
      <4>2. spc = "vole" /\ spc' = IF coin.mal THEN "mal" ELSE "chunk"
        BY <3>2 DEF SVole
      <4> QED BY <2>1, <4>1, <4>2 DEF Taken
    <3> QED BY <3>1, <3>2
  <2> QED BY <1>1, <2>2, <2>3, FlowKept DEF OprfInv
<1> QED BY <1>1, <1>2, <1>3, <1>4, <1>5, <1>6, SendSide DEF OprfInv

LEMMA STakeInv == ASSUME OprfInv, OpenInv', SSeed \/ SMal PROVE OprfInv'
<1>1. /\ UNCHANGED <<coin, recvState, sAt, sB, vole>> /\ rpc' = rpc /\ p' = p /\ cAt' = cAt
      /\ pAt' = pAt /\ pLen' = pLen /\ pGone' = pGone
      /\ toS # <<>> /\ toS' = Tail(toS)
  BY DEF SSeed, SMal, recvState
<1>2. /\ Taken + 1 <= Sent /\ Head(toS) = Stream[Taken + 1] /\ toS' = Window(Stream, Taken + 1, Sent)
  BY <1>1, Next1
<1>3. sAt = 0
  BY DEF SSeed, SMal, OprfInv, TurnInv
<1>4. ForkInv'
  BY <1>1 DEF SSeed, SMal, OprfInv, ForkInv
<1>5. SeedInv'
  <2>1. CASE SSeed
    <3>1. Taken = 0 /\ sSeed' = Head(toS).body
      BY <2>1 DEF SSeed, Taken
    <3>2. sSeed' = coin.seed
      BY <1>2, <3>1, StreamIs DEF Stream
    <3> QED BY <1>1, <3>2 DEF SeedInv
  <2>2. CASE SMal
    BY <2>2 DEF SMal, OprfInv, SeedInv
  <2> QED BY <2>1, <2>2
<1>6. HalfInv'
  <2>1. CASE SSeed
    BY <2>1 DEF SSeed, HalfInv
  <2>2. CASE SMal
    <3>1. Taken = 1 /\ sW' = Add(Head(toS).body, coin.ws) /\ coin.mal
      BY <2>2 DEF SMal, Taken, OprfInv, OpenInv
    <3>2. Head(toS) = [type |-> "w", body |-> coin.wr]
      BY <1>2, <3>1, StreamIs DEF Stream
    <3>3. sW' = Add(coin.wr, coin.ws)
      BY <3>1, <3>2
    <3> QED BY <1>1, <3>3, Zenon DEF HalfInv
  <2> QED BY <2>1, <2>2
<1>7. TurnInv'
  BY <1>1, <1>3, SizeFacts DEF SSeed, SMal, OprfInv, TurnInv, Cut
<1>8. FlowInv'
  <2>1. Turns(cAt)' = Turns(cAt) /\ Half' = Half /\ Stream' = Stream /\ Turns(sAt)' = 0
    <3>1. Turns(sAt)' = 0
      BY <1>1, <1>3 DEF Turns
    <3> QED BY <1>1, <3>1, Zenon DEF Turns, Half, Cut, Stream, StreamOf, Piece
  <2>2. Sent' = Sent
    BY <1>1, <2>1, Zenon DEF Sent
  <2>3. Taken' = Taken + 1
    <3>1. CASE SSeed
      BY <3>1 DEF SSeed, Taken
    <3>2. CASE SMal
      <4>1. Half = 1
        BY <3>2 DEF SMal, OprfInv, OpenInv, Half
      <4> QED BY <3>2, <4>1, <2>1 DEF SMal, Taken
    <3> QED BY <3>1, <3>2
  <2> QED BY <1>2, <2>1, <2>2, <2>3 DEF FlowInv, Window
<1> QED BY <1>1, <1>4, <1>5, <1>6, <1>7, <1>8, SendSide DEF OprfInv

(***************************************************************************)
(* The turns: below two full chunks, both sides cut the vector at the same *)
(* slots, into the pieces of the stream.                                   *)
(***************************************************************************)
LEMMA TurnFacts ==
  ASSUME NumSlots < 2 * Chunk, NEW at \in {0, Cut, NumSlots}, at < NumSlots,
         NEW n, n = Least(NumSlots - at, Chunk)
  PROVE  /\ at \in Nat /\ n \in Nat /\ n > 0 /\ at + n \in {Cut, NumSlots} /\ at + n <= NumSlots
         /\ (at = 0 /\ n = Cut) \/ (at = Cut /\ at + n = NumSlots /\ Cut = Chunk /\ n < Chunk)
         /\ Turns(at) \in {0, 1} /\ Turns(at + n) = Turns(at) + 1
         /\ Half \in {0, 1} => \A v : StreamOf(v)[2 + Half + Turns(at)] = Piece(v, at, n)
<1>1. \/ at = 0 /\ n = Cut
      \/ at = Cut /\ Cut = Chunk /\ n = NumSlots - Cut /\ n < Chunk
  BY SizeFacts DEF Least, Cut
<1>2. CASE at = 0 /\ n = Cut
  <2>1. Turns(at) = 0 /\ Turns(at + n) = 1
    BY <1>2, SizeFacts DEF Turns
  <2>2. Half \in {0, 1} => \A v : StreamOf(v)[2 + Half + Turns(at)] = Piece(v, at, n)
    <3>1. Half \in {0, 1} => 2 + Half + Turns(at) = 2 + Half
      BY <2>1
    <3> QED BY <1>2, <3>1, StreamIs, Zenon
  <2> QED BY <1>2, <2>1, <2>2, SizeFacts
<1>3. CASE at = Cut /\ Cut = Chunk /\ n = NumSlots - Cut /\ n < Chunk
  <2>1. at + n = NumSlots /\ n \in Nat /\ n > 0
    BY <1>3, SizeFacts
  <2>2. Turns(at) = 1 /\ Turns(at + n) = 2
    BY <1>3, <2>1, SizeFacts DEF Turns
  <2>3. Half \in {0, 1} => \A v : StreamOf(v)[2 + Half + Turns(at)] = Piece(v, at, n)
    <3>1. Half \in {0, 1} => 2 + Half + Turns(at) = 3 + Half
      BY <2>2
    <3> QED BY <1>3, <3>1, StreamIs, Zenon
  <2> QED BY <1>3, <2>1, <2>2, <2>3, SizeFacts
<1> QED BY <1>1, <1>2, <1>3

\* The sender's turn settles its slots.
LEMMA SChunkInv == ASSUME NumSlots < 2 * Chunk, OprfInv, OpenInv', SChunk PROVE OprfInv'
<1> DEFINE at == sAt
<1>1. PICK n : n = Least(NumSlots - at, Chunk)
  OBVIOUS
<1>2. PICK q : q = Head(toS).body
  OBVIOUS
<1>3. /\ spc = "chunk" /\ at < NumSlots /\ toS # <<>> /\ toS' = Tail(toS) /\ sAt' = at + n
      /\ sB' = [i \in Slots |-> IF i \in at..at + n - 1
                                THEN Add(sB[i], Mul(coin.d, q[i - at + 1])) ELSE sB[i]]
      /\ spc' = IF sAt' = NumSlots THEN "done" ELSE "chunk"
      /\ UNCHANGED <<coin, sSeed, sW, recvState, vole, toR>>
  BY <1>1, <1>2 DEF SChunk
<1>4. /\ rpc' = rpc /\ p' = p /\ cAt' = cAt /\ pAt' = pAt /\ pLen' = pLen /\ pGone' = pGone
      /\ ac' = ac /\ outputs' = outputs
  BY <1>3 DEF recvState
<1>5. at \in {0, Cut, NumSlots} /\ vole = {"done"}
  BY <1>3 DEF OprfInv, TurnInv, ForkInv
<1>6. /\ at \in Nat /\ n \in Nat /\ n > 0 /\ at + n \in {Cut, NumSlots} /\ at + n <= NumSlots
      /\ Turns(at) \in {0, 1} /\ Turns(at + n) = Turns(at) + 1
      /\ Half \in {0, 1} => \A v : StreamOf(v)[2 + Half + Turns(at)] = Piece(v, at, n)
      /\ (at = 0 /\ n = Cut) \/ (at = Cut /\ at + n = NumSlots /\ Cut = Chunk /\ n < Chunk)
  BY <1>1, <1>3, <1>5, TurnFacts
<1>7. /\ Taken + 1 <= Sent /\ Head(toS) = Stream[Taken + 1] /\ toS' = Window(Stream, Taken + 1, Sent)
  BY <1>3, Next1
<1>8. Half \in {0, 1} /\ Taken = 1 + Half + Turns(at)
  BY <1>3, CountFacts DEF Taken
\* What it reads is that part of the receiver's vector, which is masked by now.
<1>9. q = [k \in 1..n |-> p[at + k - 1]]
  <2>1. Taken + 1 = 2 + Half + Turns(at)
    BY <1>6, <1>8
  <2>2. Head(toS) = Piece(p, at, n)
    BY <1>6, <1>7, <1>8, <2>1 DEF Stream
  <2> QED BY <1>2, <2>2 DEF Piece
<1>10. at + n <= cAt
  <2>1. 1 + Half + Turns(at) + 1 <= Sent
    BY <1>7, <1>8
  <2>2. Sent = 1 + Half + Turns(cAt) /\ cAt \in {0, Cut, NumSlots}
    BY <1>6, <1>8, <2>1, CountFacts DEF OprfInv, TurnInv, Sent
  <2>3. Turns(at) + 1 <= Turns(cAt)
    BY <1>6, <1>8, <2>1, <2>2, CountFacts
  <2> HIDE DEF at
  <2>4. CASE at = 0 /\ n = Cut
    <3>1. cAt # 0
      BY <1>6, <2>3, CountFacts
    <3> QED BY <2>2, <2>4, <3>1, SizeFacts
  <2>5. CASE at = Cut /\ at + n = NumSlots
    <3>1. cAt # 0 /\ cAt # Cut
      BY <1>6, <2>3, <2>5, CountFacts
    <3> QED BY <2>2, <2>5, <3>1, SizeFacts
  <2> QED BY <1>6, <2>4, <2>5
<1>11. Sol' = Sol /\ Stream' = Stream /\ Solutions(coin.seed)' = Solutions(coin.seed) /\ Half' = Half
  BY <1>3, <1>4, SameVec DEF Half
<1>12. SendInv'
  <2>1. /\ ac \in [a : Vec, c : Vec]
        /\ sB = [i \in Slots |-> IF i < at THEN Add(ac.a[i], Mul(coin.d, Sol[i]))
                                           ELSE Add(Mul(coin.d, ac.c[i]), ac.a[i])]
    BY <1>5 DEF OprfInv, SendInv
  <2>2. p \in Vec /\ Sol \in Vec /\ coin.d \in F
    <3>1. rpc \notin {"seed", "commit", "fork", "solve"}
      BY <1>6, <1>10, SizeFacts DEF OprfInv, TurnInv
    <3> QED BY <3>1, SolutionIn, CoinFacts DEF OprfInv, OpenInv, SolInv
  <2>3. ASSUME NEW i \in Slots
        PROVE  sB'[i] = IF i < at + n THEN Add(ac.a[i], Mul(coin.d, Sol[i]))
                                      ELSE Add(Mul(coin.d, ac.c[i]), ac.a[i])
    <3>1. CASE i \in at..at + n - 1
      <4> DEFINE a == ac.a[i]
                 c == ac.c[i]
                 t == p[i]
                 s == Sol[i]
      <4>1. a \in F /\ c \in F /\ t \in F /\ s \in F
        BY <2>1, <2>2 DEF Vec
      <4>2. sB[i] = Add(Mul(coin.d, c), a) /\ i < at + n
        <5>1. ~(i < at) /\ i < at + n
          BY <1>6, <3>1 DEF Slots
        <5> QED BY <2>1, <5>1, Zenon
      <4>3. q[i - at + 1] = t
        <5>1. i - at + 1 \in 1..n /\ at + (i - at + 1) - 1 = i
          BY <1>6, <3>1 DEF Slots
        <5> QED BY <1>9, <5>1
      <4>4. s = Add(t, c)
        <5>1. i < cAt
          BY <1>6, <1>10, <3>1, SizeFacts DEF Slots, OprfInv, TurnInv
        <5> QED BY <5>1, Zenon DEF Sol
      <4>5. sB'[i] = Add(Add(Mul(coin.d, c), a), Mul(coin.d, t))
        BY <1>3, <3>1, <4>2, <4>3, Zenon
      <4> HIDE DEF a, c, t, s
      <4>6. t = Add(s, c)
        BY <4>1, <4>4, FieldAssumption
      <4>7. Add(Add(Mul(coin.d, c), a), Mul(coin.d, Add(s, c))) = Add(a, Mul(coin.d, s))
        BY <2>2, <4>1, Unmask
      <4>8. sB'[i] = Add(a, Mul(coin.d, s))
        BY <4>5, <4>6, <4>7, Zenon
      <4> QED BY <4>2, <4>8, Zenon DEF a, s
    <3>2. CASE i \notin at..at + n - 1
      <4>1. i < at + n <=> i < at
        BY <1>6, <3>2 DEF Slots
      <4>2. sB'[i] = sB[i]
        BY <1>3, <3>2, Zenon
      <4> QED BY <2>1, <4>1, <4>2, Zenon
    <3> QED BY <3>1, <3>2
  <2>4. sB' = [i \in Slots |-> IF i < at + n THEN Add(ac.a[i], Mul(coin.d, Sol[i]))
                                            ELSE Add(Mul(coin.d, ac.c[i]), ac.a[i])]
    <3>1. sB' = [i \in Slots |-> sB'[i]]
      BY <1>3, Zenon
    <3> QED BY <2>3, <3>1, Zenon
  <2>5. sAt' = at + n /\ coin' = coin /\ ac' = ac
    BY <1>3, <1>4
  <2> QED BY <1>11, <2>1, <2>4, <2>5, Zenon DEF SendInv
<1>13. ForkInv' /\ SeedInv' /\ HalfInv'
  BY <1>3, <1>4 DEF OprfInv, ForkInv, SeedInv, HalfInv
<1>14. TurnInv'
  <2>1. sAt' = at + n /\ sAt' \in {0, Cut, NumSlots} /\ sAt' # 0 /\ Cut' = Cut
        /\ (sAt' = NumSlots <=> spc' = "done") /\ spc' \in {"chunk", "done"}
    BY <1>3, <1>6, SizeFacts DEF Cut
  <2> QED BY <1>4, <2>1 DEF OprfInv, TurnInv
<1>15. FlowInv'
  <2>1. Turns(cAt)' = Turns(cAt) /\ Turns(sAt)' = Turns(at + n)
    BY <1>3, <1>4 DEF Turns, Cut
  <2>2. Sent' = Sent
    BY <1>4, <1>11, <2>1, Zenon DEF Sent
  <2>3. Taken' = Taken + 1
    <3>1. Taken' = 1 + Half + Turns(at + n)
      BY <1>3, <1>11, <2>1 DEF Taken
    <3> QED BY <1>6, <1>8, <3>1
  <2> QED BY <1>7, <1>11, <2>2, <2>3 DEF FlowInv, Window
<1>16. SolInv' /\ OutInv'
  <2>1. coin' = coin
    BY <1>3
  <2> QED BY <1>4, <1>11, <2>1, Zenon DEF OprfInv, SolInv, OutInv, Raw, Prf
<1> QED BY <1>12, <1>13, <1>14, <1>15, <1>16 DEF OprfInv

(***************************************************************************)
(* The VOLE.                                                               *)
(***************************************************************************)
LEMMA VoleInv == ASSUME OprfInv, OpenInv', Vole PROVE OprfInv'
<1>1. /\ vole # {"done"} /\ "s" \in vole /\ "r" \in vole /\ vole' = {"done"}
      /\ UNCHANGED <<coin, spc, sSeed, sW, sAt, rpc, hws, p, pAt, pLen, cAt, pGone, outputs, toS, toR>>
  BY DEF Vole
<1>2. spc \in {"seed", "vole"} /\ rpc \in {"solve", "vole"}
  BY <1>1 DEF OprfInv, ForkInv
<1>3. sAt = 0 /\ cAt = 0
  BY <1>2 DEF OprfInv, TurnInv
<1>4. Sol' = Sol
  <2>1. \A i \in Slots : ~(i < 0)
    BY SizeFacts DEF Slots
  <2>2. cAt' = 0 /\ p' = p
    BY <1>1, <1>3
  <2> QED BY <1>3, <2>1, <2>2, Zenon DEF Sol
<1>5. SendInv'
  <2>1. PICK v \in Voles : ac' = v /\ sB' = AddV(Scale(coin.d, v.c), v.a)
    BY DEF Vole
  <2>2. v \in [a : Vec, c : Vec]
    BY OprfAssumption
  <2>3. \A i \in Slots : ~(i < 0)
    BY SizeFacts DEF Slots
  <2>4. AddV(Scale(coin.d, v.c), v.a) = [i \in Slots |-> Add(Mul(coin.d, v.c[i]), v.a[i])]
    BY Zenon DEF AddV, Scale
  <2>5. sB' = [i \in Slots |-> IF i < 0 THEN Add(v.a[i], Mul(coin.d, Sol[i]))
                                        ELSE Add(Mul(coin.d, v.c[i]), v.a[i])]
    BY <2>1, <2>3, <2>4, Zenon
  <2>6. sAt' = 0 /\ coin' = coin
    BY <1>1, <1>3
  <2> QED BY <1>4, <2>1, <2>2, <2>5, <2>6, Zenon DEF SendInv
<1>6. ForkInv' /\ SeedInv' /\ HalfInv'
  BY <1>1, <1>2 DEF OprfInv, ForkInv, SeedInv, HalfInv
<1>7. TurnInv'
  BY <1>1 DEF OprfInv, TurnInv, Cut
<1>8. FlowInv'
  <2>1. Taken' = Taken /\ Sent' = Sent
    BY <1>1, Zenon DEF Taken, Sent, Turns, Half, Cut
  <2> QED BY <1>1, <2>1, FlowKept DEF OprfInv
<1>9. SolInv'
  <2>1. rpc' = rpc /\ p' = p /\ coin' = coin
    BY <1>1
  <2>2. Solutions(coin.seed)' = Solutions(coin.seed)
    BY <2>1, Zenon DEF Solutions
  <2> QED BY <1>4, <2>1, <2>2, Zenon DEF OprfInv, SolInv
<1>10. OutInv'
  BY <1>1, <1>2 DEF OutInv
<1> QED BY <1>5, <1>6, <1>7, <1>8, <1>9, <1>10 DEF OprfInv

(***************************************************************************)
(* The receiver's actions.                                                 *)
(***************************************************************************)
\* The receiver's next message is the next one of the stream.
LEMMA Put1 ==
  ASSUME OprfInv, NEW m, m = Stream'[Sent + 1], toS' = Append(toS, m),
         Taken' = Taken, Sent' = Sent + 1, \A j \in 1..Sent : Stream'[j] = Stream[j]
  PROVE  FlowInv'
<1>1. PICK a \in Nat, b \in Nat : a = Taken /\ b = Sent /\ a <= b
  BY CountFacts
<1>2. PICK g : g = Stream'
  OBVIOUS
<1>3. toS = Window(Stream, a, b)
  BY <1>1 DEF OprfInv, FlowInv
<1>4. Window(Stream, a, b) = Window(g, a, b)
  <2>1. \A j \in a + 1..b : Stream[j] = g[j]
    BY <1>1, <1>2
  <2> HIDE DEF Stream
  <2> QED BY <2>1, WindowSame
<1>5. Append(Window(g, a, b), g[b + 1]) = Window(g, a, b + 1)
  BY <1>1, WindowMore
<1>6. toS' = Window(g, Taken', Sent')
  BY <1>1, <1>2, <1>3, <1>4, <1>5
<1>7. Taken' <= Sent'
  BY <1>1
<1> QED BY <1>2, <1>6, <1>7 DEF FlowInv, Window

\* Before it has its solution, it touches neither the vector nor the outputs.
LEMMA RBeforeInv ==
  ASSUME OprfInv, OpenInv', RSeed \/ RCommit \/ RFork PROVE OprfInv'
<1>1. /\ UNCHANGED <<coin, sendState, p, pAt, pLen, cAt, pGone, ac, outputs>> /\ spc' = spc /\ sAt' = sAt
      /\ rpc \in {"seed", "commit", "fork"} /\ rpc' \in {"commit", "fork", "solve"}
  BY DEF RSeed, RCommit, RFork, sendState
<1>2. vole' = {"done"} <=> vole = {"done"}
  BY DEF RSeed, RCommit, RFork, OprfInv, ForkInv
<1>3. SeedInv' /\ HalfInv' /\ SendInv'
  BY <1>1, <1>2, RecvSide
<1>4. SolInv' /\ OutInv'
  BY <1>1 DEF SolInv, OutInv
<1>5. ForkInv'
  BY <1>1 DEF RSeed, RCommit, RFork, OprfInv, ForkInv
<1>6. TurnInv'
  BY <1>1 DEF OprfInv, TurnInv, Cut
<1>7. FlowInv'
  <2>1. Taken' = Taken
    BY <1>1, Zenon DEF Taken, Turns, Half, Cut
  <2>2. CASE RSeed
    <3>1. PICK m : m = [type |-> "seed", body |-> coin.seed]
      OBVIOUS
    <3>2. toS' = Append(toS, m) /\ Sent = 0 /\ Sent' = 1
      BY <1>1, <2>2, <3>1 DEF RSeed, Sent
    <3>3. Stream' = Stream
      BY <1>1, SameVec
    <3>4. m = Stream'[Sent + 1]
      BY <3>1, <3>2, <3>3, StreamIs DEF Stream
    <3> QED BY <2>1, <3>2, <3>3, <3>4, Put1
  <2>3. CASE RCommit \/ RFork
    <3>1. toS' = toS /\ Sent' = Sent
      BY <1>1, <2>3 DEF RCommit, RFork, Sent
    <3> QED BY <1>1, <2>1, <3>1, FlowKept DEF OprfInv
  <2> QED BY <2>2, <2>3
<1> QED BY <1>3, <1>4, <1>5, <1>6, <1>7 DEF OprfInv

LEMMA RSolveInv == ASSUME OprfInv, OpenInv', RSolve PROVE OprfInv'
<1>1. /\ rpc = "solve" /\ rpc' = "vole" /\ p' \in Solutions(coin.seed) /\ pLen' = NumSlots
      /\ UNCHANGED <<coin, sendState, hws, pAt, cAt, pGone, ac, outputs, vole, toS, toR>>
      /\ spc' = spc /\ sAt' = sAt /\ sSeed' = sSeed /\ sB' = sB /\ sW' = sW
  BY DEF RSolve, sendState
<1>2. cAt = 0 /\ Sent = 1 /\ Sent' = 1
  BY <1>1 DEF OprfInv, TurnInv, Sent
<1>3. sAt = 0
  <2>1. CASE spc \in {"chunk", "done"}
    <3>1. 1 + Half + Turns(sAt) <= 1
      BY <1>2, <2>1 DEF OprfInv, FlowInv, Taken
    <3>2. Turns(sAt) = 0
      BY <3>1, CountFacts
    <3> QED BY <3>2 DEF Turns
  <2>2. CASE spc \notin {"chunk", "done"}
    BY <2>2 DEF OprfInv, TurnInv
  <2> QED BY <2>1, <2>2
<1>4. \A i \in Slots : ~(i < 0)
  BY SizeFacts DEF Slots
<1>5. p' \in Vec /\ Sol' = p'
  <2>1. p' \in Vec
    BY <1>1, SolutionIn
  <2>2. cAt' = 0
    BY <1>1, <1>2
  <2>3. Sol' = [i \in Slots |-> p'[i]]
    BY <1>4, <2>2, Zenon DEF Sol
  <2> QED BY <2>1, <2>3 DEF Vec
<1>6. SolInv'
  <2>1. Solutions(coin.seed)' = Solutions(coin.seed)
    BY <1>1, Zenon DEF Solutions
  <2> QED BY <1>1, <1>5, <2>1, Zenon DEF SolInv
<1>7. SendInv'
  <2>1. vole = {"done"} => sB = [i \in Slots |-> IF i < 0 THEN Add(ac.a[i], Mul(coin.d, Sol'[i]))
                                                          ELSE Add(Mul(coin.d, ac.c[i]), ac.a[i])]
    BY <1>3, <1>4, Zenon DEF OprfInv, SendInv
  <2>2. vole' = vole /\ sB' = sB /\ ac' = ac /\ coin' = coin /\ sAt' = 0
    BY <1>1, <1>3
  <2>3. vole = {"done"} => ac \in [a : Vec, c : Vec]
    BY DEF OprfInv, SendInv
  <2> QED BY <2>1, <2>2, <2>3, Zenon DEF SendInv
<1>8. FlowInv'
  <2>1. Taken' = Taken
    BY <1>1, Zenon DEF Taken, Turns, Half, Cut
  <2>2. PICK a \in Nat : a = Taken /\ a <= 1
    BY <1>2, CountFacts
  <2>3. PICK g, h : g = Stream /\ h = Stream'
    OBVIOUS
  <2>4. g[1] = h[1]
    BY <1>1, <2>3 DEF Stream, StreamOf
  <2>5. Window(g, a, 1) = Window(h, a, 1)
    <3>1. PICK b \in Nat : b = 1
      OBVIOUS
    <3>2. \A j \in a + 1..b : g[j] = h[j]
      BY <2>2, <2>4, <3>1
    <3>3. Window(g, a, b) = Window(h, a, b)
      BY <3>2, WindowSame
    <3> QED BY <3>1, <3>3
  <2>6. toS' = Window(h, a, 1)
    BY <1>1, <1>2, <2>2, <2>3, <2>5 DEF OprfInv, FlowInv
  <2> QED BY <1>2, <2>1, <2>2, <2>3, <2>6 DEF FlowInv, Window
<1>9. ForkInv' /\ SeedInv' /\ HalfInv' /\ OutInv'
  BY <1>1 DEF OprfInv, ForkInv, SeedInv, HalfInv, OutInv
<1>10. TurnInv'
  <2>1. cAt' = 0 /\ pAt' = 0 /\ ~pGone'
    BY <1>1, <1>2 DEF OprfInv, TurnInv
  <2> QED BY <1>1, <1>3, <2>1, SizeFacts DEF OprfInv, TurnInv, Cut
<1> QED BY <1>6, <1>7, <1>8, <1>9, <1>10 DEF OprfInv

LEMMA RVoleInv == ASSUME OprfInv, OpenInv', RVole PROVE OprfInv'
<1>1. /\ rpc = "vole" /\ vole = {"done"} /\ rpc' = "chunk"
      /\ UNCHANGED <<coin, sendState, hws, p, pAt, pLen, cAt, pGone, ac, outputs, vole, toR>>
      /\ spc' = spc /\ sAt' = sAt
  BY DEF RVole, sendState
<1>2. SeedInv' /\ HalfInv' /\ SendInv'
  BY <1>1, RecvSide
<1>3. Sol' = Sol /\ Stream' = Stream /\ Solutions(coin.seed)' = Solutions(coin.seed)
  BY <1>1, SameVec
<1>4. SolInv' /\ OutInv'
  <2>1. p' = p
    BY <1>1
  <2> QED BY <1>1, <1>3, <2>1 DEF OprfInv, SolInv, OutInv
<1>5. ForkInv'
  BY <1>1 DEF OprfInv, ForkInv
<1>6. TurnInv'
  BY <1>1, SizeFacts DEF OprfInv, TurnInv, Cut
<1>7. FlowInv'
  <2>1. Taken' = Taken
    BY <1>1, Zenon DEF Taken, Turns, Half, Cut
  <2>2. Sent = 1 /\ Sent' = 1 + Half
    <3>1. cAt' = 0
      BY <1>1 DEF OprfInv, TurnInv
    <3>2. Turns(cAt)' = 0 /\ Half' = Half
      BY <1>1, <3>1 DEF Turns, Half
    <3>3. Half \in {0, 1}
      BY DEF Half
    <3> QED BY <1>1, <3>2, <3>3 DEF Sent
  <2>3. CASE coin.mal
    <3>1. PICK m : m = [type |-> "w", body |-> coin.wr]
      OBVIOUS
    <3>2. toS' = Append(toS, m) /\ Half = 1
      BY <2>3, <3>1 DEF RVole, Half
    <3>3. m = Stream'[Sent + 1] /\ Sent' = Sent + 1
      BY <1>3, <2>2, <2>3, <3>1, <3>2, StreamIs DEF Stream
    <3> QED BY <1>3, <2>1, <3>2, <3>3, Put1
  <2>4. CASE ~coin.mal
    <3>1. toS' = toS /\ Half = 0
      BY <2>4 DEF RVole, Half
    <3> QED BY <1>1, <2>1, <2>2, <3>1, FlowKept DEF OprfInv
  <2> QED BY <2>3, <2>4
<1> QED BY <1>2, <1>4, <1>5, <1>6, <1>7 DEF OprfInv

(***************************************************************************)
(* One turn of the receiver's loop masks the slots [cAt, cAt + n) and no   *)
(* other, and sends them: the tail loop, which counts to the size of what  *)
(* is left of p, stays within them, and what is left has the size of the   *)
(* chunk only in the last turn.                                            *)
(***************************************************************************)
LEMMA Groups ==
  ASSUME NEW n \in Nat
  PROVE  /\ (n \div Unroll) * Unroll \in Nat
         /\ n = Chunk => (n \div Unroll) * Unroll = n
<1>1. Unroll \in Nat /\ Unroll > 0 /\ Chunk % Unroll = 0 /\ Chunk \in Nat
  BY OprfAssumption
<1>2. n \div Unroll \in Nat
  BY <1>1
<1>3. (n \div Unroll) * Unroll \in Nat
  BY <1>1, <1>2
<1>4. n = Chunk => (n \div Unroll) * Unroll = n
  BY <1>1
<1> QED BY <1>3, <1>4

LEMMA TurnIs ==
  ASSUME NumSlots < 2 * Chunk, OprfInv, RChunk, NEW at, at = cAt, NEW n, n = Least(NumSlots - at, Chunk)
  PROVE  /\ p' = [i \in Slots |-> IF i \in cAt..cAt + n - 1 THEN Add(p[i], ac.c[i]) ELSE p[i]]
         /\ toS' = Append(toS, Piece(p', at, n)) /\ cAt' = cAt + n
         /\ rpc' = (IF cAt' = NumSlots THEN "decode" ELSE "chunk")
         /\ cAt' # NumSlots => ~pGone' /\ pAt' = cAt' /\ pLen' = NumSlots - cAt'
<1> DEFINE left == IF pLen = n THEN n ELSE pLen - n
           from == IF pLen = n THEN pAt ELSE pAt + n
           main == (n \div Unroll) * Unroll
           masked == {pAt + k : k \in (0..main - 1) \cup (main..left - 1)}
           first == IF left = n THEN from ELSE pAt
<1>1. rpc = "chunk" /\ cAt < NumSlots /\ cAt \in {0, Cut, NumSlots} /\ ~pGone /\ pAt = cAt /\ pLen = NumSlots - cAt
  BY DEF RChunk, OprfInv, TurnInv
<1>2. /\ cAt \in Nat /\ n \in Nat /\ n > 0 /\ cAt + n \in {Cut, NumSlots} /\ cAt + n <= NumSlots
      /\ (cAt = 0 /\ n = Cut) \/ (cAt = Cut /\ cAt + n = NumSlots /\ Cut = Chunk /\ n < Chunk)
  BY <1>1, TurnFacts
<1>3. n = Least(pLen, Chunk)
  BY <1>1
<1>4. /\ p' = [i \in Slots |-> IF i \in masked THEN Add(p[i], ac.c[i + cAt - pAt]) ELSE p[i]]
      /\ toS' = Append(toS, [type |-> "chunk", body |-> [k \in 1..n |-> p'[first + k - 1]]])
      /\ pAt' = from /\ pLen' = left /\ pGone' = (pGone \/ left = n) /\ cAt' = cAt + n
      /\ rpc' = IF cAt' = NumSlots THEN "decode" ELSE "chunk"
  BY <1>1, <1>3, Zenon DEF RChunk
<1>5. main \in Nat /\ (n = Chunk => main = n)
  BY <1>2, Groups
<1> HIDE DEF main
<1>6. CASE pLen = n
  <2>1. cAt + n = NumSlots /\ left = n /\ first = cAt
    BY <1>1, <1>2, <1>6, SizeFacts
  <2>2. \A i \in Slots : i \in masked <=> i \in cAt..cAt + n - 1
    <3> TAKE i \in Slots
    <3>1. ASSUME i \in masked PROVE i \in cAt..cAt + n - 1
      <4>1. PICK k \in (0..main - 1) \cup (main..left - 1) : i = pAt + k
        BY <3>1
      <4> QED BY <1>1, <1>2, <1>5, <2>1, <4>1 DEF Slots
    <3>2. ASSUME i \in cAt..cAt + n - 1 PROVE i \in masked
      <4>1. i - cAt \in (0..main - 1) \cup (main..n - 1) /\ i = cAt + (i - cAt)
        BY <1>2, <1>5, <3>2
      <4> QED BY <1>1, <2>1, <4>1
    <3> QED BY <3>1, <3>2
  <2> HIDE DEF masked, first, left, from
  <2>3. \A i \in Slots : i + cAt - pAt = i
    BY <1>1, <1>2 DEF Slots
  <2>4. p' = [i \in Slots |-> IF i \in cAt..cAt + n - 1 THEN Add(p[i], ac.c[i]) ELSE p[i]]
    BY <1>4, <2>2, <2>3, Zenon
  <2>5. toS' = Append(toS, Piece(p', at, n))
    <3>1. first = at
      BY <1>1, <2>1 DEF first
    <3>2. toS' = Append(toS, [type |-> "chunk", body |-> [k \in 1..n |-> p'[at + k - 1]]])
      BY <1>4, <3>1
    <3>3. Piece(p', at, n) = [type |-> "chunk", body |-> [k \in 1..n |-> p'[at + k - 1]]]
      BY Zenon DEF Piece
    <3> QED BY <3>2, <3>3, Zenon
  <2>6. cAt' # NumSlots => ~pGone' /\ pAt' = cAt' /\ pLen' = NumSlots - cAt'
    BY <1>1, <1>2, <1>4, <2>1, SizeFacts
  <2> QED BY <1>4, <2>4, <2>5, <2>6
<1>7. CASE pLen # n
  <2>1. n = Chunk /\ cAt = 0 /\ left = NumSlots - n /\ left < n /\ left > 0 /\ from = n /\ first = 0 /\ main = n
    BY <1>1, <1>2, <1>5, <1>7, SizeFacts
  <2>2. \A i \in Slots : i \in masked <=> i \in cAt..cAt + n - 1
    <3> TAKE i \in Slots
    <3>1. ASSUME i \in masked PROVE i \in cAt..cAt + n - 1
      <4>1. PICK k \in (0..main - 1) \cup (main..left - 1) : i = pAt + k
        BY <3>1
      <4> QED BY <1>1, <1>2, <2>1, <4>1
    <3>2. ASSUME i \in cAt..cAt + n - 1 PROVE i \in masked
      <4>1. i \in 0..main - 1 /\ i = pAt + i
        BY <1>1, <1>2, <2>1, <3>2
      <4> QED BY <4>1
    <3> QED BY <3>1, <3>2
  <2> HIDE DEF masked, first, left, from
  <2>3. \A i \in Slots : i + cAt - pAt = i
    BY <1>1, <1>2 DEF Slots
  <2>4. p' = [i \in Slots |-> IF i \in cAt..cAt + n - 1 THEN Add(p[i], ac.c[i]) ELSE p[i]]
    BY <1>4, <2>2, <2>3, Zenon
  <2>5. toS' = Append(toS, Piece(p', at, n))
    <3>1. first = at
      BY <1>1, <2>1 DEF first
    <3>2. toS' = Append(toS, [type |-> "chunk", body |-> [k \in 1..n |-> p'[at + k - 1]]])
      BY <1>4, <3>1
    <3>3. Piece(p', at, n) = [type |-> "chunk", body |-> [k \in 1..n |-> p'[at + k - 1]]]
      BY Zenon DEF Piece
    <3> QED BY <3>2, <3>3, Zenon
  <2>6. cAt' # NumSlots => ~pGone' /\ pAt' = cAt' /\ pLen' = NumSlots - cAt'
    <3>1. ~pGone'
      <4>1. left # n
        BY <1>2, <2>1
      <4> QED BY <1>1, <1>4, <4>1, Zenon
    <3>2. pAt' = cAt' /\ pLen' = NumSlots - cAt'
      BY <1>1, <1>2, <1>4, <2>1, SizeFacts
    <3> QED BY <3>1, <3>2
  <2> QED BY <1>4, <2>4, <2>5, <2>6
<1> QED BY <1>6, <1>7

LEMMA RChunkInv == ASSUME NumSlots < 2 * Chunk, OprfInv, OpenInv', RChunk PROVE OprfInv'
<1>1. PICK at, n : at = cAt /\ n = Least(NumSlots - at, Chunk)
  OBVIOUS
<1>2. /\ rpc = "chunk" /\ vole = {"done"} /\ at < NumSlots /\ at \in {0, Cut, NumSlots}
      /\ UNCHANGED <<coin, hws, sendState, ac, outputs, vole, toR>> /\ spc' = spc /\ sAt' = sAt
  BY <1>1 DEF RChunk, sendState, OprfInv, TurnInv, ForkInv
<1>3. /\ p' = [i \in Slots |-> IF i \in at..at + n - 1 THEN Add(p[i], ac.c[i]) ELSE p[i]]
      /\ toS' = Append(toS, Piece(p', at, n)) /\ cAt' = at + n
      /\ rpc' = (IF cAt' = NumSlots THEN "decode" ELSE "chunk")
      /\ cAt' # NumSlots => ~pGone' /\ pAt' = cAt' /\ pLen' = NumSlots - cAt'
  BY <1>1, TurnIs
<1>4. /\ at \in Nat /\ n \in Nat /\ n > 0 /\ at + n \in {Cut, NumSlots} /\ at + n <= NumSlots
      /\ (at = 0 /\ n = Cut) \/ (at = Cut /\ at + n = NumSlots /\ Cut = Chunk /\ n < Chunk)
      /\ Turns(at) \in {0, 1} /\ Turns(at + n) = Turns(at) + 1
  BY <1>1, <1>2, TurnFacts
<1>5. p \in Vec /\ Sol \in Solutions(coin.seed) /\ ac \in [a : Vec, c : Vec]
  BY <1>2 DEF OprfInv, SolInv, SendInv
<1>6. \A i \in Slots : i \in at..at + n - 1 <=> i < at + n /\ ~(i < at)
  BY <1>4 DEF Slots
<1>7. p' \in Vec
  BY <1>3, <1>5, FieldAssumption DEF Vec
\* The mask is taken off the slots that were masked just now.
<1>8. Sol' = Sol
  <2>1. ASSUME NEW i \in Slots
        PROVE  (IF i < at + n THEN Add(p'[i], ac.c[i]) ELSE p'[i]) = (IF i < at THEN Add(p[i], ac.c[i]) ELSE p[i])
    <3>1. p[i] \in F /\ ac.c[i] \in F
      BY <1>5 DEF Vec
    <3>2. Add(Add(p[i], ac.c[i]), ac.c[i]) = p[i]
      BY <3>1, MaskTwice
    <3>3. p'[i] = IF i \in at..at + n - 1 THEN Add(p[i], ac.c[i]) ELSE p[i]
      BY <1>3, Zenon
    <3>4. i < at => i < at + n
      BY <1>4 DEF Slots
    <3> QED BY <1>6, <3>2, <3>3, <3>4, Zenon
  <2>2. cAt' = at + n /\ ac' = ac
    BY <1>2, <1>3
  <2> QED BY <1>1, <2>1, <2>2, Zenon DEF Sol
<1>9. SolInv'
  <2>1. Solutions(coin.seed)' = Solutions(coin.seed)
    BY <1>2, Zenon DEF Solutions
  <2> QED BY <1>5, <1>7, <1>8, <2>1, Zenon DEF SolInv
<1>10. SeedInv' /\ HalfInv' /\ SendInv'
  <2>1. /\ spc' = spc /\ sSeed' = sSeed /\ sB' = sB /\ sW' = sW /\ sAt' = sAt /\ ac' = ac /\ coin' = coin
        /\ vole' = vole
    BY <1>2 DEF sendState
  <2>2. SendInv'
    BY <1>8, <2>1, Zenon DEF OprfInv, SendInv
  <2> QED BY <2>1, <2>2 DEF OprfInv, SeedInv, HalfInv
<1>11. ForkInv' /\ OutInv'
  BY <1>2, <1>3 DEF OprfInv, ForkInv, OutInv
<1>12. TurnInv'
  <2>1. Cut' = Cut /\ cAt' \in {Cut, NumSlots} /\ cAt' # 0 /\ rpc' \in {"chunk", "decode"}
        /\ (cAt' = NumSlots <=> rpc' = "decode")
    BY <1>3, <1>4, SizeFacts DEF Cut
  <2> QED BY <1>2, <1>3, <2>1 DEF OprfInv, TurnInv
<1>13. FlowInv'
  <2>1. Half \in {0, 1} /\ Half' = Half
    BY <1>2 DEF Half
  <2>2. Sent = 1 + Half + Turns(at)
    BY <1>1, <1>2 DEF Sent
  <2>3. Taken' = Taken
    BY <1>2, Zenon DEF Taken, Turns, Half, Cut
  <2>4. Sent' = Sent + 1
    <3>1. Turns(cAt)' = Turns(at + n)
      BY <1>3 DEF Turns, Cut
    <3>2. Sent' = 1 + Half + Turns(at + n)
      BY <1>3, <2>1, <3>1 DEF Sent
    <3> QED BY <1>4, <2>1, <2>2, <3>2
  <2>5. PICK m : m = Piece(p', at, n)
    OBVIOUS
  <2>6. PICK u : u = p'
    OBVIOUS
  <2>7. Stream' = StreamOf(u)
    BY <1>2, <2>6, StreamNow
  <2>8. m = Stream'[Sent + 1]
    <3>1. StreamOf(u)[2 + Half + Turns(at)] = Piece(u, at, n)
      BY <1>1, <1>2, <2>1, TurnFacts
    <3>2. Sent + 1 = 2 + Half + Turns(at)
      BY <1>4, <2>1, <2>2
    <3> QED BY <2>5, <2>6, <2>7, <3>1, <3>2
  <2>9. \A j \in 1..Sent : StreamOf(u)[j] = StreamOf(p)[j]
    <3>1. \A j \in 1..1 + Half : StreamOf(u)[j] = StreamOf(p)[j]
      BY DEF StreamOf, Half
    <3>2. CASE at = 0
      <4>1. Sent = 1 + Half
        BY <1>2, <2>1, <2>2, <3>2, CountFacts
      <4> QED BY <3>1, <4>1
    <3>3. CASE at = Cut
      <4>1. Piece(u, 0, Cut) = Piece(p, 0, Cut)
        <5>1. ASSUME NEW k \in 1..Cut PROVE u[0 + k - 1] = p[0 + k - 1]
          <6>1. 0 + k - 1 \in Slots /\ 0 + k - 1 \notin at..at + n - 1
            BY <1>4, <3>3, SizeFacts DEF Slots
          <6> QED BY <1>3, <2>6, <6>1, Zenon
        <5> QED BY <5>1, Zenon DEF Piece
      <4>2. StreamOf(u)[2 + Half] = StreamOf(p)[2 + Half]
        BY <2>1, <4>1, StreamIs
      <4>3. Sent = 2 + Half
        BY <2>1, <2>2, <3>3, CountFacts
      <4>4. \A j \in 1..Sent : j \in 1..1 + Half \/ j = 2 + Half
        BY <2>1, <4>3
      <4> QED BY <3>1, <4>2, <4>4
    <3> QED BY <1>4, <3>2, <3>3
  <2>10. \A j \in 1..Sent : Stream'[j] = Stream[j]
    BY <2>7, <2>9 DEF Stream
  <2> QED BY <1>3, <2>3, <2>4, <2>5, <2>8, <2>10, Put1
<1> QED BY <1>9, <1>10, <1>11, <1>12, <1>13 DEF OprfInv

LEMMA RDecodeInv == ASSUME OprfInv, OpenInv', RDecode PROVE OprfInv'
<1>1. /\ rpc = "decode" /\ rpc' = (IF coin.mal THEN "open" ELSE "done")
      /\ outputs' = [x \in Items |-> IF coin.mal THEN Raw(Decode(coin.seed, x, ac.a))
                                     ELSE Prf(Decode(coin.seed, x, ac.a), x)]
      /\ UNCHANGED <<coin, sendState, p, pAt, pLen, cAt, pGone, ac, vole, toS>> /\ spc' = spc /\ sAt' = sAt
  BY DEF RDecode, sendState
<1>2. SeedInv' /\ HalfInv' /\ SendInv'
  BY <1>1, RecvSide
<1>3. Sol' = Sol /\ Solutions(coin.seed)' = Solutions(coin.seed)
  BY <1>1, SameVec
<1>4. SolInv'
  <2>1. p' = p
    BY <1>1
  <2> QED BY <1>1, <1>3, <2>1 DEF OprfInv, SolInv
<1>5. ForkInv' /\ TurnInv'
  BY <1>1 DEF OprfInv, ForkInv, TurnInv, Cut
<1>6. FlowInv'
  <2>1. Taken' = Taken
    BY <1>1, Zenon DEF Taken, Turns, Half, Cut
  <2>2. Sent' = Sent
    <3>1. Turns(cAt)' = Turns(cAt) /\ Half' = Half
      BY <1>1, Zenon DEF Turns, Half, Cut
    <3> QED BY <1>1, <3>1 DEF Sent
  <2> QED BY <1>1, <2>1, <2>2, FlowKept DEF OprfInv
<1>7. OutInv'
  <2>1. coin' = coin /\ ac' = ac /\ coin.mal \in BOOLEAN
    BY <1>1, CoinFacts DEF OprfInv, OpenInv
  <2>2. CASE coin.mal
    <3>1. rpc' = "open" /\ outputs' = [x \in Items |-> Raw(Decode(coin.seed, x, ac.a))]
      BY <1>1, <2>2, Zenon
    <3> QED BY <2>1, <2>2, <3>1, Zenon DEF OutInv, Raw
  <2>3. CASE ~coin.mal
    <3>1. rpc' = "done" /\ outputs' = [x \in Items |-> Prf(Decode(coin.seed, x, ac.a), x)]
      BY <1>1, <2>3, Zenon
    <3> QED BY <2>1, <2>3, <3>1, Zenon DEF OutInv, Prf
  <2> QED BY <2>1, <2>2, <2>3
<1> QED BY <1>2, <1>4, <1>5, <1>6, <1>7 DEF OprfInv

LEMMA ROpenInv == ASSUME OprfInv, OpenInv', ROpen PROVE OprfInv'
<1>1. /\ rpc = "open" /\ rpc' = "done" /\ toR # <<>> /\ Head(toR).type = "w"
      /\ outputs' = [x \in Items |-> Prf(Add(outputs[x][1], Add(Head(toR).body, coin.wr)), x)]
      /\ UNCHANGED <<coin, sendState, p, pAt, pLen, cAt, pGone, ac, vole, toS>> /\ spc' = spc /\ sAt' = sAt
  BY DEF ROpen, sendState
<1>2. SeedInv' /\ HalfInv' /\ SendInv'
  BY <1>1, RecvSide
<1>3. Sol' = Sol /\ Solutions(coin.seed)' = Solutions(coin.seed)
  BY <1>1, SameVec
<1>4. SolInv'
  <2>1. p' = p
    BY <1>1
  <2> QED BY <1>1, <1>3, <2>1 DEF OprfInv, SolInv
<1>5. ForkInv' /\ TurnInv'
  BY <1>1 DEF OprfInv, ForkInv, TurnInv, Cut
<1>6. FlowInv'
  <2>1. Taken' = Taken
    BY <1>1, Zenon DEF Taken, Turns, Half, Cut
  <2>2. Sent' = Sent
    <3>1. Turns(cAt)' = Turns(cAt) /\ Half' = Half
      BY <1>1, Zenon DEF Turns, Half, Cut
    <3> QED BY <1>1, <3>1 DEF Sent
  <2> QED BY <1>1, <2>1, <2>2, FlowKept DEF OprfInv
<1>7. OutInv'
  <2> DEFINE r(x) == Decode(coin.seed, x, ac.a)
  <2>1. Head(toR).body = coin.ws
    <3>1. Head(toR) \in Elems(toR)
      BY <1>1, OpenTake DEF OprfInv
    <3> QED BY <1>1, <3>1 DEF OprfInv, OpenInv
  <2>2. outputs = [x \in Items |-> Raw(r(x))] /\ coin.mal
    BY <1>1 DEF OprfInv, OutInv
  <2>3. outputs' = [x \in Items |-> Prf(Add(outputs[x][1], Add(coin.ws, coin.wr)), x)]
    BY <1>1, <2>1, Zenon
  <2>4. \A x \in Items : outputs[x][1] = r(x)
    <3>1. \A x \in Items : outputs[x] = Raw(r(x))
      BY <2>2, Zenon
    <3>2. \A u : Raw(u)[1] = u
      BY DEF Raw
    <3> QED BY <3>1, <3>2, Zenon
  <2>5. outputs' = [x \in Items |-> Prf(Add(r(x), Add(coin.ws, coin.wr)), x)]
    BY <2>3, <2>4, Zenon
  <2>6. coin' = coin /\ ac' = ac
    BY <1>1
  <2> QED BY <1>1, <2>2, <2>5, <2>6, Zenon DEF OutInv, Prf
<1> QED BY <1>2, <1>4, <1>5, <1>6, <1>7 DEF OprfInv

(***************************************************************************)
(* The theorem.                                                            *)
(***************************************************************************)
LEMMA StutterInv == ASSUME OprfInv, OpenInv', UNCHANGED vars PROVE OprfInv'
<1>1. /\ UNCHANGED <<coin, recvState, sendState, sAt, sB, vole, p, toS>>
      /\ spc' = spc /\ rpc' = rpc /\ cAt' = cAt /\ pAt' = pAt /\ pLen' = pLen /\ pGone' = pGone
      /\ sAt' = sAt /\ sSeed' = sSeed /\ sW' = sW
  BY DEF vars, recvState, sendState
<1>2. SolInv' /\ SendInv' /\ OutInv'
  BY <1>1, SendSide
<1>3. ForkInv' /\ SeedInv' /\ HalfInv' /\ TurnInv'
  BY <1>1 DEF OprfInv, ForkInv, SeedInv, HalfInv, TurnInv, Cut
<1>4. FlowInv'
  <2>1. Taken' = Taken /\ Sent' = Sent
    BY <1>1, Zenon DEF Taken, Sent, Turns, Half, Cut
  <2> QED BY <1>1, <2>1, FlowKept DEF OprfInv
<1> QED BY <1>2, <1>3, <1>4 DEF OprfInv

LEMMA StepInv == ASSUME NumSlots < 2 * Chunk, OprfInv, [Next]_vars PROVE OprfInv'
<1>1. OpenInv'
  BY OpenStep DEF OprfInv
<1>2. CASE Sender
  BY <1>1, <1>2, SQuietInv, STakeInv, SChunkInv DEF Sender
<1>3. CASE Receiver
  BY <1>1, <1>3, RBeforeInv, RSolveInv, RVoleInv, RChunkInv, RDecodeInv, ROpenInv DEF Receiver
<1>4. CASE Vole
  BY <1>1, <1>4, VoleInv
<1>5. CASE Terminated \/ UNCHANGED vars
  BY <1>1, <1>5, StutterInv DEF Terminated
<1> QED BY <1>2, <1>3, <1>4, <1>5 DEF Next

LEMMA EndsAgree == ASSUME OprfInv PROVE EvalAgrees
<1> SUFFICES ASSUME spc = "done", rpc = "done", NEW x \in Items PROVE Eval(x) = outputs[x]
  BY DEF EvalAgrees
<1> DEFINE a == Decode(coin.seed, x, ac.a)
           h == Mul(coin.d, HashItem(x))
<1>1. /\ sSeed = coin.seed /\ vole = {"done"} /\ ac.a \in Vec /\ sAt = NumSlots
  BY DEF OprfInv, SeedInv, ForkInv, SendInv, TurnInv
<1>2. PICK s \in Solutions(coin.seed) : sB = AddV(ac.a, Scale(coin.d, s))
  <2>1. Sol \in Solutions(coin.seed)
    BY DEF OprfInv, SolInv
  <2>2. \A i \in Slots : i < sAt
    BY <1>1, SizeFacts DEF Slots
  <2>3. sB = [i \in Slots |-> Add(ac.a[i], Mul(coin.d, Sol[i]))]
    BY <1>1, <2>2, Zenon DEF OprfInv, SendInv
  <2>4. AddV(ac.a, Scale(coin.d, Sol)) = [i \in Slots |-> Add(ac.a[i], Mul(coin.d, Sol[i]))]
    BY Zenon DEF AddV, Scale
  <2> QED BY <2>1, <2>3, <2>4
<1>3. /\ coin.d \in F /\ coin.seed \in Seeds /\ s \in Vec /\ Decode(coin.seed, x, s) = HashItem(x)
      /\ Scale(coin.d, s) \in Vec
  BY CoinFacts, SolutionIn, VecClosed DEF OprfInv, OpenInv
<1>4. Decode(sSeed, x, sB) = Add(a, h)
  <2>1. Decode(coin.seed, x, AddV(ac.a, Scale(coin.d, s))) = Add(a, Decode(coin.seed, x, Scale(coin.d, s)))
    BY <1>1, <1>3, DecodeAssumption, Zenon
  <2>2. Decode(coin.seed, x, Scale(coin.d, s)) = Mul(coin.d, Decode(coin.seed, x, s))
    BY <1>3, DecodeAssumption, Zenon
  <2> QED BY <1>1, <1>2, <1>3, <2>1, <2>2, Zenon
<1>5. a \in F /\ h \in F
  <2>1. a \in F
    BY <1>1, <1>3, DecodeAssumption, Zenon
  <2>2. HashItem(x) \in F
    BY DecodeAssumption, Zenon
  <2> QED BY <1>3, <2>1, <2>2, FieldAssumption, Zenon
<1> HIDE DEF a, h
<1>6. Add(Add(a, h), h) = a
  BY <1>5, MaskTwice
<1>7. Add(Decode(sSeed, x, sB), h) = a
  BY <1>4, <1>6, Zenon
<1>8. coin.mal => sW = Add(coin.ws, coin.wr)
  BY CoinFacts DEF OprfInv, OpenInv, HalfInv
<1>9. outputs[x] = Prf(IF coin.mal THEN Add(a, Add(coin.ws, coin.wr)) ELSE a, x)
  BY Zenon DEF OprfInv, OutInv, a
<1>10. Eval(x) = Prf(IF coin.mal THEN Add(a, sW) ELSE a, x)
  BY <1>7, Zenon DEF Eval, h
<1> QED BY <1>8, <1>9, <1>10, Zenon

\* For every field, linear decoding, coin toss, VOLE, number of items and interleaving, semi-honest
\* and malicious, and every number of slots below two full chunks (2^29; the receiver's tail loop
\* goes wrong from there on): when RsOprfSender::send and RsOprfReceiver::receive have returned,
\* eval of a value of the receiver is its output.
THEOREM OprfEvalAgrees ==
  ASSUME NumSlots < 2 * Chunk
  PROVE  Spec => []EvalAgrees
<1>1. Init => OprfInv
  BY AgreeInit
<1>2. OprfInv /\ [Next]_vars => OprfInv'
  BY StepInv
<1>3. OprfInv => EvalAgrees
  BY EndsAgree
<1> QED BY <1>1, <1>2, <1>3, PTL DEF Spec
=============================================================================
