------------------------------- MODULE RsOprf -------------------------------
(***************************************************************************)
(* The VOLE-based oblivious PRF (RsOprfSender::send and eval,              *)
(* RsOprfReceiver::receive).  The receiver encodes its values as a vector  *)
(* p; the VOLE gives it a and c, the sender b and d with a + b = c * d;    *)
(* p + c travels in chunks, and the sender adds d * (p + c) to b.  Then    *)
(* both decode the same value of every item the receiver has.              *)
(*                                                                         *)
(* The field, and the decoding of a row of the encoding, are parameters:   *)
(* only that decoding is linear matters here.                              *)
(***************************************************************************)
EXTENDS Integers, Sequences, FiniteSets

CONSTANTS F, Add(_, _), Mul(_, _), Zero,   \* the field (GF(2^128))
          Items,            \* the receiver's values
          NumSlots,         \* mPaxos.size(), the same on both sides
          Seeds,            \* hashing seeds
          Decode(_, _, _),  \* Decode(seed, item, vector): Baxos::decode of one value
          HashItem(_),      \* mAesFixedKey.hashBlock of an item
          Chunk,            \* blocks per message (1 << 28)
          Unroll,           \* the unrolled loops' step (8)
          Coins, Voles,     \* the random choices to consider
          Nothing           \* the value of what is not there yet

Slots == 0..NumSlots - 1
Vec == [Slots -> F]
AddV(u, v) == [i \in Slots |-> Add(u[i], v[i])]
Scale(d, v) == [i \in Slots |-> Mul(d, v[i])]

ASSUME FieldAssumption ==
  /\ Zero \in F
  /\ \A x, y \in F : Add(x, y) \in F /\ Mul(x, y) \in F /\ Add(x, y) = Add(y, x)
  /\ \A x, y, z \in F : Add(Add(x, y), z) = Add(x, Add(y, z))
  /\ \A x \in F : Add(x, Zero) = x /\ Add(x, x) = Zero
  /\ \A x, y, z \in F : Mul(x, Add(y, z)) = Add(Mul(x, y), Mul(x, z))

ASSUME DecodeAssumption ==
  /\ \A s \in Seeds, x \in Items, v \in Vec : Decode(s, x, v) \in F
  /\ \A s \in Seeds, x \in Items, u, v \in Vec :
        Decode(s, x, AddV(u, v)) = Add(Decode(s, x, u), Decode(s, x, v))
  /\ \A s \in Seeds, x \in Items, v \in Vec, d \in F :
        Decode(s, x, Scale(d, v)) = Mul(d, Decode(s, x, v))
  /\ \A x \in Items : HashItem(x) \in F

\* A coin toss names the receiver's seed and wr, the sender's ws and d, and
\* whether both run the malicious protocol; a VOLE names a and c.
ASSUME OprfAssumption ==
  /\ NumSlots \in Nat \ {0} /\ Chunk \in Nat \ {0} /\ Unroll \in Nat \ {0}
  /\ Chunk % Unroll = 0
  /\ Coins \subseteq [seed : Seeds, wr : F, ws : F, d : F, mal : BOOLEAN]
  /\ Voles \subseteq [a : Vec, c : Vec]
  /\ Nothing \notin F /\ \A w \in F : <<"H", w>> # Nothing

\* paxos.solve: any vector that decodes to the hash of every value.
Solutions(seed) == {v \in Vec : \A x \in Items : Decode(seed, x, v) = HashItem(x)}

VARIABLES
  coin,
  spc,     \* sender: "commit", "fork", "seed", "vole", "mal", "chunk" or "done"
  sSeed,   \* mPaxos.mSeed
  sB,      \* mB
  sW,      \* mW
  sAt,     \* how many slots the sender has taken from the chunks
  rpc,     \* receiver: "seed", "commit", "fork", "solve", "vole", "mal", "chunk",
           \* "decode", "open" or "done"
  hws,     \* the commitment the receiver holds
  p,       \* its encoding, masked chunk by chunk in place
  pAt, pLen, \* the part of p the span p still covers
  cAt,     \* how much of c is used up
  pGone,   \* the memory of p went away with a message
  ac,      \* mA, mC of the receiver
  outputs,
  vole,    \* the parties whose VOLE task runs on the forked socket, or "done"
  toS, toR \* the two directions of the socket

vars == <<coin, spc, sSeed, sB, sW, sAt, rpc, hws, p, pAt, pLen, cAt, pGone, ac,
          outputs, vole, toS, toR>>
sendState == <<spc, sSeed, sB, sW, sAt>>
recvState == <<rpc, hws, p, pAt, pLen, cAt, pGone, ac, outputs>>

Commit(ws) == <<"H", ws>>   \* RandomOracle of ws
\* A decoded value before it is hashed, and after: AES_u(x) + x, or AES(u) + u with a fixed key.
Raw(u) == <<u>>
Prf(u, x) == <<u, IF coin.mal THEN x ELSE Nothing>>

Init ==
  /\ coin \in Coins
  /\ spc = "commit" /\ rpc = "seed"
  /\ sSeed = Nothing /\ sB = Nothing /\ sW = Nothing /\ sAt = 0
  /\ hws = Nothing /\ p = Nothing /\ pAt = 0 /\ pLen = 0 /\ cAt = 0 /\ pGone = FALSE
  /\ ac = Nothing /\ outputs = Nothing
  /\ vole = {} /\ toS = <<>> /\ toR = <<>>

----------------------------------------------------------------------------
\* Sender.
SCommit ==
  /\ spc = "commit" /\ spc' = "fork"
  /\ toR' = IF coin.mal THEN Append(toR, [type |-> "hash", body |-> Commit(coin.ws)]) ELSE toR
  /\ UNCHANGED <<coin, sSeed, sB, sW, sAt, recvState, vole, toS>>

SFork ==
  /\ spc = "fork" /\ spc' = "seed"
  /\ vole' = vole \cup {"s"}
  /\ UNCHANGED <<coin, sSeed, sB, sW, sAt, recvState, toS, toR>>

SSeed ==
  /\ spc = "seed" /\ toS # <<>> /\ Head(toS).type = "seed"
  /\ sSeed' = Head(toS).body /\ toS' = Tail(toS)
  /\ spc' = "vole"
  /\ UNCHANGED <<coin, sB, sW, sAt, recvState, vole, toR>>

SVole ==
  /\ spc = "vole" /\ vole = {"done"}
  /\ spc' = IF coin.mal THEN "mal" ELSE "chunk"
  /\ UNCHANGED <<coin, sSeed, sB, sW, sAt, recvState, vole, toS, toR>>

\* Mutants: wr is taken for w; ws goes out before wr is there.
SMalNoXor ==
  /\ spc = "mal" /\ toS # <<>> /\ Head(toS).type = "w"
  /\ sW' = Head(toS).body /\ toS' = Tail(toS)
  /\ toR' = Append(toR, [type |-> "w", body |-> coin.ws])
  /\ spc' = "chunk"
  /\ UNCHANGED <<coin, sSeed, sB, sAt, recvState, vole>>
SMalEarly ==
  /\ spc = "mal" /\ toR' = Append(toR, [type |-> "w", body |-> coin.ws])
  /\ spc' = "chunk"
  /\ UNCHANGED <<coin, sSeed, sB, sW, sAt, recvState, vole, toS>>

\* mW = wr + ws; ws is revealed only now.
SMal ==
  /\ spc = "mal" /\ toS # <<>> /\ Head(toS).type = "w"
  /\ sW' = Add(Head(toS).body, coin.ws) /\ toS' = Tail(toS)
  /\ toR' = Append(toR, [type |-> "w", body |-> coin.ws])
  /\ spc' = "chunk"
  /\ UNCHANGED <<coin, sSeed, sB, sAt, recvState, vole>>

Least(m, n) == IF m < n THEN m ELSE n

SChunk ==
  LET n == Least(NumSlots - sAt, Chunk)
      q == Head(toS).body
  IN /\ spc = "chunk" /\ sAt < NumSlots
     /\ toS # <<>> /\ Head(toS).type = "chunk" /\ Len(q) = n
     /\ sB' = [i \in Slots |-> IF i \in sAt..sAt + n - 1
                               THEN Add(sB[i], Mul(coin.d, q[i - sAt + 1])) ELSE sB[i]]
     /\ sAt' = sAt + n /\ toS' = Tail(toS)
     /\ spc' = IF sAt' = NumSlots THEN "done" ELSE "chunk"
     /\ UNCHANGED <<coin, sSeed, sW, recvState, vole, toR>>

\* The silent VOLE on the forked socket: needs both tasks, finishes for both.
Vole ==
  /\ vole = {"s", "r"}
  /\ \E v \in Voles : ac' = v /\ sB' = AddV(Scale(coin.d, v.c), v.a)
  /\ vole' = {"done"}
  /\ UNCHANGED <<coin, spc, sSeed, sW, sAt, rpc, hws, p, pAt, pLen, cAt, pGone, outputs, toS, toR>>

----------------------------------------------------------------------------
\* Receiver.
RSeed ==
  /\ rpc = "seed"
  /\ toS' = Append(toS, [type |-> "seed", body |-> coin.seed])
  /\ rpc' = IF coin.mal THEN "commit" ELSE "fork"
  /\ UNCHANGED <<coin, sendState, hws, p, pAt, pLen, cAt, pGone, ac, outputs, vole, toR>>

RCommit ==
  /\ rpc = "commit" /\ toR # <<>> /\ Head(toR).type = "hash"
  /\ hws' = Head(toR).body /\ toR' = Tail(toR)
  /\ rpc' = "fork"
  /\ UNCHANGED <<coin, sendState, p, pAt, pLen, cAt, pGone, ac, outputs, vole, toS>>

RFork ==
  /\ rpc = "fork" /\ rpc' = "solve"
  /\ vole' = vole \cup {"r"}
  /\ UNCHANGED <<coin, sendState, hws, p, pAt, pLen, cAt, pGone, ac, outputs, toS, toR>>

RSolve ==
  /\ rpc = "solve" /\ rpc' = "vole"
  /\ p' \in Solutions(coin.seed)
  /\ pLen' = NumSlots
  /\ UNCHANGED <<coin, sendState, hws, pAt, cAt, pGone, ac, outputs, vole, toS, toR>>

\* Mutant: wr stays with the receiver.
RVoleSilent ==
  /\ rpc = "vole" /\ vole = {"done"} /\ rpc' = "chunk"
  /\ UNCHANGED <<coin, sendState, hws, p, pAt, pLen, cAt, pGone, ac, outputs, vole, toS, toR>>

\* Await the VOLE; the malicious protocol sends wr before the chunks.
RVole ==
  /\ rpc = "vole" /\ vole = {"done"} /\ rpc' = "chunk"
  /\ toS' = IF coin.mal THEN Append(toS, [type |-> "w", body |-> coin.wr]) ELSE toS
  /\ UNCHANGED <<coin, sendState, hws, p, pAt, pLen, cAt, pGone, ac, outputs, vole, toR>>

(***************************************************************************)
(* One turn of the chunk loop.  The span p moves past the chunk unless the *)
(* chunk is all of it.  The unrolled loop masks whole groups of the chunk, *)
(* the tail loop counts up to the size of p, not of the chunk; and when    *)
(* what is left of p has the chunk's size, p itself is sent and its memory *)
(* goes with it.                                                           *)
(***************************************************************************)
RChunk ==
  LET n == Least(pLen, Chunk)
      left == IF pLen = n THEN n ELSE pLen - n
      from == IF pLen = n THEN pAt ELSE pAt + n
      main == (n \div Unroll) * Unroll
      masked == {pAt + k : k \in (0..main - 1) \cup (main..left - 1)}
      first == IF left = n THEN from ELSE pAt
  IN /\ rpc = "chunk" /\ cAt < NumSlots
     /\ \E mem \in IF pGone THEN Vec ELSE {p} :
          /\ p' = [i \in Slots |-> IF i \in masked THEN Add(mem[i], ac.c[i + cAt - pAt]) ELSE mem[i]]
          /\ toS' = Append(toS, [type |-> "chunk", body |-> [k \in 1..n |-> p'[first + k - 1]]])
     /\ pAt' = from /\ pLen' = left
     /\ pGone' = (pGone \/ left = n)
     /\ cAt' = cAt + n
     /\ rpc' = IF cAt' = NumSlots THEN "decode" ELSE "chunk"
     /\ UNCHANGED <<coin, sendState, hws, ac, outputs, vole, toR>>

RDecode ==
  /\ rpc = "decode"
  /\ outputs' = [x \in Items |-> IF coin.mal THEN Raw(Decode(coin.seed, x, ac.a))
                                 ELSE Prf(Decode(coin.seed, x, ac.a), x)]
  /\ rpc' = IF coin.mal THEN "open" ELSE "done"
  /\ UNCHANGED <<coin, sendState, hws, p, pAt, pLen, cAt, pGone, ac, vole, toS, toR>>

\* Check the commitment, then add w = ws + wr and hash.
ROpen ==
  /\ rpc = "open" /\ toR # <<>> /\ Head(toR).type = "w"
  /\ Commit(Head(toR).body) = hws
  /\ outputs' = [x \in Items |-> Prf(Add(outputs[x][1], Add(Head(toR).body, coin.wr)), x)]
  /\ toR' = Tail(toR) /\ rpc' = "done"
  /\ UNCHANGED <<coin, sendState, hws, p, pAt, pLen, cAt, pGone, ac, vole, toS>>

Sender == SCommit \/ SFork \/ SSeed \/ SVole \/ SMal \/ SChunk
Receiver == RSeed \/ RCommit \/ RFork \/ RSolve \/ RVole \/ RChunk \/ RDecode \/ ROpen
Terminated == spc = "done" /\ rpc = "done" /\ UNCHANGED vars
Next == Sender \/ Receiver \/ Vole \/ Terminated
Spec == Init /\ [][Next]_vars
FairSpec == Spec /\ WF_vars(Sender) /\ WF_vars(Receiver) /\ WF_vars(Vole)

----------------------------------------------------------------------------
(***************************************************************************)
(* Properties.                                                             *)
(***************************************************************************)
\* RsOprfSender::eval of a value.
Eval(x) ==
  LET o == Add(Decode(sSeed, x, sB), Mul(coin.d, HashItem(x)))
  IN Prf(IF coin.mal THEN Add(o, sW) ELSE o, x)

\* After send and receive, the sender evaluates every value of the receiver to
\* the receiver's output: seeds, masks, chunks and w all have to agree.
EvalAgrees == (spc = "done" /\ rpc = "done") => \A x \in Items : Eval(x) = outputs[x]

\* The same, as the test RsOprf_eval_test expects it of any number of values.
EvalAgreesAnySize == EvalAgrees

\* Nobody opens its half of w early: ws is on its way only after the sender
\* has read wr, and wr only after the receiver has the commitment.
CommitFirst ==
  coin.mal =>
    /\ (\E i \in 1..Len(toS) : toS[i].type = "w") \/ sW # Nothing => hws # Nothing
    /\ (\E i \in 1..Len(toR) : toR[i].type = "w") => sW # Nothing

\* send and receive return on both sides.
BothReturn == <>(spc = "done" /\ rpc = "done")
=============================================================================
