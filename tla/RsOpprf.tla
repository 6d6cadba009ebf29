------------------------------ MODULE RsOpprf ------------------------------
(***************************************************************************)
(* The oblivious programmable PRF (RsOpprfSender::send, oprfEval and eval, *)
(* RsOpprfReceiver::receive).  The sender has keys with a value of Width   *)
(* bytes each; it hides the difference of every value and the OPRF of its  *)
(* key in a Baxos encoding P.  Whoever adds the OPRF of a key to what P    *)
(* decodes to at that key gets the value, and for other keys an            *)
(* unrelated one.                                                          *)
(*                                                                         *)
(* The OPRF (module RsOprf) is one joint step that leaves both sides with  *)
(* the same function.  A byte is one bit, a block BlockBytes of them.      *)
(***************************************************************************)
EXTENDS Integers, Sequences

CONSTANTS Widths,            \* the value widths m to consider
          BlockBytes,        \* sizeof(block)
          Keys,
          Prfs,              \* functions the OPRF may be, from keys to blocks
          Ctr(_, _),         \* AES in counter mode: key block, number of bytes
          Seeds,
          Decode(_, _, _, _),\* seed, dense type, key and table: Baxos::decode
          Tables(_),         \* what mP may hold for a width
          Programs(_),       \* the sender's [keys, vals] for a width
          Queries,           \* the receiver's sequences of keys
          Nothing

Bytes(m) == [0..m - 1 -> 0..1]
ASSUME OpprfAssumption ==
  /\ Widths \subseteq Nat \ {0} /\ BlockBytes \in Nat \ {0}
  /\ Prfs \subseteq [Keys -> Bytes(BlockBytes)]
  /\ Queries \subseteq Seq(Keys)
  /\ \A m \in Widths :
       /\ \A b \in Bytes(BlockBytes) : Ctr(b, m) \in Bytes(m)
       /\ \A s \in Seeds, t \in {"Binary", "GF128"}, k \in Keys, P \in Tables(m) :
            Decode(s, t, k, P) \in Bytes(m)
       /\ \A g \in Programs(m) : g.keys \in Seq(Keys) /\ g.vals \in [DOMAIN g.keys -> Bytes(m)]

VARIABLES
  m,         \* the columns of val and of outputs
  prf,       \* the OPRF of this run
  program,   \* the sender's X and val
  query,     \* the receiver's values
  spc,       \* sender: "start", "oprf", "solve" or "done"
  sPaxos,    \* mPaxos: [seed, type] once initialized
  mP,
  rpc,       \* receiver: "seed", "oprf", "recv" or "done"
  rPaxos,
  oprfOutput,
  outputs,
  toReceiver

vars == <<m, prf, program, query, spc, sPaxos, mP, rpc, rPaxos, oprfOutput, outputs, toReceiver>>
inputs == <<m, prf, program, query>>

Xor(a, b) == [j \in DOMAIN a |-> (a[j] + b[j]) % 2]

\* The arguments, with anything in the receiver's outputs.
Init ==
  /\ m \in Widths /\ prf \in Prfs /\ program \in Programs(m) /\ query \in Queries
  /\ spc = "start" /\ rpc = "seed"
  /\ sPaxos = Nothing /\ rPaxos = Nothing /\ mP = Nothing /\ oprfOutput = Nothing
  /\ \E b \in 0..1 : outputs = [i \in DOMAIN query |-> [j \in 0..m - 1 |-> b]]
  /\ toReceiver = <<>>

\* The dense part of the encoding depends on the width on both sides.
TypeFor(width) == IF width % BlockBytes # 0 THEN "Binary" ELSE "GF128"

\* An OPRF output as m bytes: cut for a short value, stretched for a long one.
Stretch(b) == IF m <= BlockBytes THEN [j \in 0..m - 1 |-> b[j]] ELSE Ctr(b, m)

(***************************************************************************)
(* oprfEval: out = add + the OPRF of the keys.  For values of one block    *)
(* the OPRF goes to out itself unless add is that memory, where it would   *)
(* take the place of what is to be added.                                  *)
(***************************************************************************)
\* Mutant: also when out and add are the same memory.
IntoOutAlways(aliased) == m = BlockBytes
IntoOut(aliased) == m = BlockBytes /\ ~aliased
OprfEval(key, add, aliased) ==
  Xor(IF IntoOut(aliased) /\ aliased THEN prf[key] ELSE add, Stretch(prf[key]))

\* send: the hashing seed.
SStart ==
  /\ spc = "start"
  /\ \E s \in Seeds : /\ sPaxos' = [seed |-> s, type |-> TypeFor(m)]
                      /\ toReceiver' = Append(toReceiver, s)
  /\ spc' = "oprf"
  /\ UNCHANGED <<inputs, mP, rpc, rPaxos, oprfOutput, outputs>>

\* receive: its own Baxos under that seed.
\* Mutant: always of the binary type.
RSeedBinary ==
  /\ rpc = "seed" /\ toReceiver # <<>>
  /\ rPaxos' = [seed |-> Head(toReceiver), type |-> "Binary"]
  /\ toReceiver' = Tail(toReceiver)
  /\ rpc' = "oprf"
  /\ UNCHANGED <<inputs, spc, sPaxos, mP, oprfOutput, outputs>>
RSeed ==
  /\ rpc = "seed" /\ toReceiver # <<>>
  /\ rPaxos' = [seed |-> Head(toReceiver), type |-> TypeFor(m)]
  /\ toReceiver' = Tail(toReceiver)
  /\ rpc' = "oprf"
  /\ UNCHANGED <<inputs, spc, sPaxos, mP, oprfOutput, outputs>>

\* mOprfSender.send and mOprfReceiver.receive.
Oprf ==
  /\ spc = "oprf" /\ rpc = "oprf"
  /\ oprfOutput' = [i \in DOMAIN query |-> prf[query[i]]]
  /\ spc' = "solve" /\ rpc' = "recv"
  /\ UNCHANGED <<inputs, sPaxos, mP, rPaxos, outputs, toReceiver>>

\* The sender encodes the differences and sends the table.
Diff(i) == OprfEval(program.keys[i], program.vals[i], FALSE)
Solutions ==
  {P \in Tables(m) : \A i \in DOMAIN program.keys :
                       Decode(sPaxos.seed, sPaxos.type, program.keys[i], P) = Diff(i)}
\* Mutant: only the branch for byte strings sends it.
SSolveBytes ==
  /\ spc = "solve"
  /\ mP' \in Solutions
  /\ toReceiver' = IF m = BlockBytes THEN toReceiver ELSE Append(toReceiver, mP')
  /\ spc' = "done"
  /\ UNCHANGED <<inputs, sPaxos, rpc, rPaxos, oprfOutput, outputs>>
SSolve ==
  /\ spc = "solve"
  /\ mP' \in Solutions
  /\ toReceiver' = Append(toReceiver, mP')
  /\ spc' = "done"
  /\ UNCHANGED <<inputs, sPaxos, rpc, rPaxos, oprfOutput, outputs>>

(***************************************************************************)
(* receive: the OPRF outputs are written to outputs first and the decoded  *)
(* values added to them (mAddToDecode); with values of one block they are  *)
(* added to what outputs held.                                             *)
(***************************************************************************)
Before(i) == IF m = BlockBytes THEN outputs[i] ELSE Stretch(oprfOutput[i])
RDecode ==
  /\ rpc = "recv" /\ toReceiver # <<>>
  /\ outputs' = [i \in DOMAIN query |->
       Xor(Before(i), Decode(rPaxos.seed, rPaxos.type, query[i], Head(toReceiver)))]
  /\ toReceiver' = Tail(toReceiver)
  /\ oprfOutput' = Nothing /\ rpc' = "done"
  /\ UNCHANGED <<inputs, spc, sPaxos, mP, rPaxos>>

Done == spc = "done" /\ rpc = "done" /\ UNCHANGED vars

Next == SStart \/ RSeed \/ Oprf \/ SSolve \/ RDecode \/ Done
Spec == Init /\ [][Next]_vars
\* Both coroutines keep running and the socket delivers.
FairSpec == Spec /\ WF_vars(Next)

\* RsOpprfSender::eval, after send: the decoded value and the OPRF, in place.
Eval(key) == OprfEval(key, Decode(sPaxos.seed, sPaxos.type, key, mP), TRUE)

(***************************************************************************)
(* Properties                                                              *)
(***************************************************************************)

\* After send, the sender's eval of its own keys gives their values, for
\* every width (the three cases of oprfEval with separate and with shared
\* memory).
EvalProgrammed ==
  spc = "done" => \A i \in DOMAIN program.keys : Eval(program.keys[i]) = program.vals[i]

\* What the receiver gets for any of its keys is what the sender's eval gives.
EvalAgreesAnyWidth ==
  rpc = "done" => \A i \in DOMAIN query : outputs[i] = Eval(query[i])

\* The same for values that are not exactly one block.
EvalAgrees == m # BlockBytes => EvalAgreesAnyWidth

\* Both sides return.
BothReturn == <>(spc = "done" /\ rpc = "done")
=============================================================================
