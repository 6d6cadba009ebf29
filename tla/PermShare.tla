----------------------------- MODULE PermShare -----------------------------
(***************************************************************************)
(* Permute and share (PS/PSSender.cpp, PS/PSReceiver.cpp).  The receiver   *)
(* has the values, the sender the permutation; they end with xor shares    *)
(* of the permuted values.  The receiver walks its masks through the       *)
(* network and sends a correction for every switch; the sender walks the   *)
(* masked values through it with one OT message a switch.                  *)
(*                                                                         *)
(* A block is the set of its one bits, so xor is the symmetric difference. *)
(* The network is a sequence of switches [at, lo, hi, last], which module  *)
(* Benes computes; each step of a walk is one switch.                      *)
(***************************************************************************)
EXTENDS Integers, Sequences, FiniteSets

CONSTANTS Instances,       \* records [n, perm, net, switches] of a routed network
          Atoms,           \* the bits a block may have
          Input(_),        \* the receiver's values
          Mask(_),         \* the masks it draws
          OtMsg(_, _, _),  \* half h of message c of OT i: the block, and its encryption
          ChoicesOf(_),    \* the random choices of so many OTs
          Surplus          \* how many OTs more than switches setOT may give

Block == SUBSET Atoms

\* mNumSwitches: both sides compute it from mN.
Ots(inst) == DOMAIN inst.switches
Places(inst) == 0..inst.n - 1
NumSwitches(inst) == Cardinality(Ots(inst))
\* How many OTs setOT may give, if any.
Counts(inst) == {NumSwitches(inst) + d : d \in Surplus}

ASSUME PermShareAssumption ==
  /\ Surplus \subseteq Nat
  /\ \A inst \in Instances :
       /\ inst.n \in Nat
       /\ inst.net \in Seq([at : Ots(inst), lo : Places(inst), hi : Places(inst), last : BOOLEAN])
       /\ \A k \in DOMAIN inst.net : inst.net[k].lo # inst.net[k].hi
       /\ IsFiniteSet(Ots(inst)) /\ Ots(inst) = 0..NumSwitches(inst) - 1
       /\ inst.switches \in [Ots(inst) -> 0..1]
       /\ \A i \in Places(inst) : {Input(i), Mask(i)} \subseteq Block
       /\ \A i \in Ots(inst), c, h \in 0..1 : OtMsg(i, c, h) \in Block
       /\ \A count \in Counts(inst) \cup {NumSwitches(inst)} :
            ChoicesOf(count) \subseteq [0..count - 1 -> 0..1]

VARIABLES
  inst,     \* mN, mPerm, and the sender's network
  bits,     \* the bit variant runs
  spc,      \* sender: "start", "ot", "bits", "corr", "corr2", "share", "walk" or "done"
  rotRecv,  \* mRotRecvMsgs: which message of each OT the sender has
  choices,  \* mRotChoices
  recvMsg,  \* recvMsg: the two masks of each switch
  val,      \* share: the values on the sender's walk
  passed,   \* how many switches it has passed
  plain,    \* the receiver's values as benesEval would have moved them so far
  rpc,      \* receiver: "start", "ot", "recv", "walk", "send" or "done"
  rotSend,  \* mRotSendMsgs: which message is at each of its two positions
  trail,    \* masks before each switch of the receiver's walk, the last being masks
  corr,     \* corrections
  rshare,   \* outputs
  toSender, toReceiver  \* the socket

vars == <<inst, bits, spc, rotRecv, choices, recvMsg, val, passed, plain,
          rpc, rotSend, trail, corr, rshare, toSender, toReceiver>>
otVars == <<rotRecv, choices>>
walkVars == <<val, passed, plain>>
receiverVars == <<rpc, rotSend, trail, corr, rshare>>
senderVars == <<spc, rotRecv, choices, recvMsg, val, passed, plain>>

Xor(a, b) == (a \ b) \cup (b \ a)
Switch(k) == inst.net[k]
InOrder == [b \in 0..1 |-> b]

\* setOT gave so many OTs, or none and they will be generated.
Given(count) ==
  /\ choices \in IF count = 0 THEN {<<>>} ELSE ChoicesOf(count)
  /\ rotRecv = choices
  /\ rotSend = [i \in DOMAIN choices |-> InOrder]

Init ==
  /\ inst \in Instances /\ bits \in BOOLEAN
  /\ \E count \in {0} \cup Counts(inst) : Given(count)
  /\ spc = "start" /\ rpc = "start"
  /\ recvMsg = <<>> /\ val = <<>> /\ rshare = <<>> /\ trail = <<>> /\ passed = 0
  /\ plain = [i \in Places(inst) |-> Input(i)]
  /\ corr = [i \in Ots(inst) |-> [h \in 0..1 |-> {}]]
  /\ toSender = <<>> /\ toReceiver = <<>>

Few(f) == Cardinality(DOMAIN f) < NumSwitches(inst)
\* resize to the number of switches, of what is at least that long.
Cut(f) == [i \in Ots(inst) |-> f[i]]

\* genBenes up to genOT, on both sides.
SStart ==
  /\ spc = "start"
  /\ IF Few(rotRecv) THEN spc' = "ot" /\ UNCHANGED otVars
     ELSE spc' = "bits" /\ rotRecv' = Cut(rotRecv) /\ choices' = Cut(choices)
  /\ UNCHANGED <<inst, bits, receiverVars, recvMsg, walkVars, toSender, toReceiver>>
\* Mutant: exactly as many OTs as switches count as too few.
RStartFew ==
  /\ rpc = "start"
  /\ trail' = <<[i \in Places(inst) |-> Mask(i)]>>
  /\ IF Cardinality(DOMAIN rotSend) <= NumSwitches(inst) THEN rpc' = "ot" /\ UNCHANGED rotSend
     ELSE rpc' = "recv" /\ rotSend' = Cut(rotSend)
  /\ UNCHANGED <<inst, bits, senderVars, corr, rshare, toSender, toReceiver>>
RStart ==
  /\ rpc = "start"
  /\ trail' = <<[i \in Places(inst) |-> Mask(i)]>>
  /\ IF Few(rotSend) THEN rpc' = "ot" /\ UNCHANGED rotSend
     ELSE rpc' = "recv" /\ rotSend' = Cut(rotSend)
  /\ UNCHANGED <<inst, bits, senderVars, corr, rshare, toSender, toReceiver>>

\* genOT of both sides: the silent OT gives both ends as many OTs as switches.
GenOT ==
  /\ spc = "ot" /\ rpc = "ot"
  /\ choices' \in ChoicesOf(NumSwitches(inst))
  /\ rotRecv' = choices'
  /\ rotSend' = [i \in Ots(inst) |-> InOrder]
  /\ spc' = "bits" /\ rpc' = "recv"
  /\ UNCHANGED <<inst, bits, recvMsg, walkVars, trail, corr, rshare, toSender, toReceiver>>

\* The sender takes its messages and sends switches ^ mRotChoices.
SSendBits ==
  /\ spc = "bits"
  /\ recvMsg' = [i \in Ots(inst) |-> [h \in 0..1 |-> OtMsg(i, rotRecv[i], h)]]
  /\ toReceiver' = Append(toReceiver, [i \in Ots(inst) |-> (inst.switches[i] + choices[i]) % 2])
  /\ spc' = "corr"
  /\ UNCHANGED <<inst, bits, receiverVars, otVars, walkVars, toSender>>

\* The receiver turns its OTs by the sender's bits.
\* Mutant: it leaves them as they are.
RTurnNot ==
  /\ rpc = "recv" /\ toReceiver # <<>>
  /\ toReceiver' = Tail(toReceiver)
  /\ rpc' = "walk"
  /\ UNCHANGED <<inst, bits, senderVars, rotSend, trail, corr, rshare, toSender>>
\* Mutant: it exchanges them without a temporary.
RTurnNoTemp ==
  /\ rpc = "recv" /\ toReceiver # <<>>
  /\ rotSend' = [i \in Ots(inst) |->
                   IF Head(toReceiver)[i] = 1 THEN [b \in 0..1 |-> rotSend[i][1]] ELSE rotSend[i]]
  /\ toReceiver' = Tail(toReceiver)
  /\ rpc' = "walk"
  /\ UNCHANGED <<inst, bits, senderVars, trail, corr, rshare, toSender>>
RTurn ==
  /\ rpc = "recv" /\ toReceiver # <<>>
  /\ rotSend' = [i \in Ots(inst) |->
                   IF Head(toReceiver)[i] = 1 THEN [b \in 0..1 |-> rotSend[i][1 - b]] ELSE rotSend[i]]
  /\ toReceiver' = Tail(toReceiver)
  /\ rpc' = "walk"
  /\ UNCHANGED <<inst, bits, senderVars, trail, corr, rshare, toSender>>

(***************************************************************************)
(* prepareCorrection, one switch: the masks m0, m1 of its places become    *)
(* w0, w1, and the correction turns the other OT message into what a       *)
(* switch that swaps needs.                                                *)
(***************************************************************************)
SotMsg(w, b, h) == OtMsg(w.at, rotSend[w.at][b], h)
Moved(masks, w) == [masks EXCEPT ![w.lo] = Xor(SotMsg(w, 0, 0), masks[w.lo]),
                                 ![w.hi] = Xor(SotMsg(w, 0, 1), masks[w.hi])]
Correction(masks, w) ==
  [h \in 0..1 |-> IF h = 0 THEN Xor(Xor(SotMsg(w, 1, 0), masks[w.lo]), Moved(masks, w)[w.hi])
                           ELSE Xor(Xor(SotMsg(w, 1, 1), masks[w.hi]), Moved(masks, w)[w.lo])]
\* How many switches of the network the walk has passed.
Walked == Len(trail) - 1
RWalk ==
  /\ rpc = "walk" /\ Walked < Len(inst.net)
  /\ LET w == Switch(Walked + 1)
         masks == trail[Walked + 1] IN
       /\ trail' = Append(trail, Moved(masks, w))
       /\ corr' = [corr EXCEPT ![w.at] = Correction(masks, w)]
  /\ UNCHANGED <<inst, bits, senderVars, rpc, rotSend, rshare, toSender, toReceiver>>

\* The corrections: one message of pairs, or of bits for each half of the pairs.
Half(h) == [i \in Ots(inst) |-> corr[i][h]]
RSendCorr ==
  /\ rpc = "walk" /\ Walked = Len(inst.net)
  /\ toSender' = toSender \o (IF bits THEN <<Half(0), Half(1)>> ELSE <<corr>>)
  /\ rpc' = "send"
  /\ UNCHANGED <<inst, bits, senderVars, rotSend, trail, corr, rshare, toReceiver>>

\* It sends its masked inputs; its share is what left the network.
RFinish ==
  /\ rpc = "send"
  /\ toSender' = Append(toSender, [i \in Places(inst) |-> Xor(trail[1][i], Input(i))])
  /\ rshare' = trail[Walked + 1]
  /\ rpc' = "done"
  /\ UNCHANGED <<inst, bits, senderVars, rotSend, trail, corr, toReceiver>>

\* The sender applies the corrections where the switch swaps.
Unmask(i, fix) ==
  IF inst.switches[i] = 1 THEN [h \in 0..1 |-> Xor(fix[h], recvMsg[i][h])] ELSE recvMsg[i]
\* One half of the pair arrived: the other is left alone.
Only(half, bit) == [h \in 0..1 |-> IF h = half THEN bit ELSE {}]

SCorrect ==
  /\ spc = "corr" /\ toSender # <<>> /\ ~bits
  /\ recvMsg' = [i \in Ots(inst) |-> Unmask(i, Head(toSender)[i])]
  /\ spc' = "share" /\ toSender' = Tail(toSender)
  /\ UNCHANGED <<inst, bits, receiverVars, otVars, walkVars, toReceiver>>
SCorrectBits ==
  /\ bits /\ toSender # <<>>
  /\ \/ /\ spc = "corr" /\ spc' = "corr2"
        /\ recvMsg' = [i \in Ots(inst) |-> Unmask(i, Only(0, Head(toSender)[i]))]
     \/ /\ spc = "corr2" /\ spc' = "share"
        /\ recvMsg' = [i \in Ots(inst) |-> Unmask(i, Only(1, Head(toSender)[i]))]
  /\ toSender' = Tail(toSender)
  /\ UNCHANGED <<inst, bits, receiverVars, otVars, walkVars, toReceiver>>

\* It receives the masked inputs.
SShare ==
  /\ spc = "share" /\ toSender # <<>>
  /\ val' = Head(toSender)
  /\ spc' = "walk" /\ toSender' = Tail(toSender)
  /\ UNCHANGED <<inst, bits, receiverVars, otVars, recvMsg, passed, plain, toReceiver>>

\* One switch of benesEval and of benesMaskedEval.  In the last column of a
\* subnetwork the masks are added after the swap, with the places exchanged.
SwapIf(v, w) ==
  IF inst.switches[w.at] = 1 THEN [v EXCEPT ![w.lo] = v[w.hi], ![w.hi] = v[w.lo]] ELSE v
XorAt(v, w, lo, hi) ==
  [v EXCEPT ![w.lo] = Xor(v[w.lo], recvMsg[w.at][lo]), ![w.hi] = Xor(v[w.hi], recvMsg[w.at][hi])]
\* Mutant: the masks of a last column do not follow the swap.
MaskedSwitchFixed(v, w) ==
  IF w.last THEN XorAt(SwapIf(v, w), w, 0, 1) ELSE SwapIf(XorAt(v, w, 0, 1), w)
MaskedSwitch(v, w) ==
  IF w.last THEN LET s == inst.switches[w.at] IN XorAt(SwapIf(v, w), w, s, 1 - s)
            ELSE SwapIf(XorAt(v, w, 0, 1), w)
SWalk ==
  /\ spc = "walk" /\ passed < Len(inst.net)
  /\ val' = MaskedSwitch(val, Switch(passed + 1))
  /\ plain' = SwapIf(plain, Switch(passed + 1))
  /\ passed' = passed + 1
  /\ UNCHANGED <<inst, bits, receiverVars, spc, otVars, recvMsg, toSender, toReceiver>>
SDone ==
  /\ spc = "walk" /\ passed = Len(inst.net)
  /\ spc' = "done"
  /\ UNCHANGED <<inst, bits, receiverVars, otVars, recvMsg, walkVars, toSender, toReceiver>>

Done == spc = "done" /\ rpc = "done" /\ UNCHANGED vars

Next == \/ SStart \/ RStart \/ GenOT \/ SSendBits \/ RTurn \/ RWalk \/ RSendCorr \/ RFinish
        \/ SCorrect \/ SCorrectBits \/ SShare \/ SWalk \/ SDone \/ Done
Spec == Init /\ [][Next]_vars
\* Both coroutines keep running and the socket delivers.
FairSpec == Spec /\ WF_vars(Next)

(***************************************************************************)
(* Properties                                                              *)
(***************************************************************************)

\* The types of the state; a position of the receiver's OTs never repeats a message.
TypeOK ==
  /\ bits \in BOOLEAN
  /\ spc \in {"start", "ot", "bits", "corr", "corr2", "share", "walk", "done"}
  /\ rpc \in {"start", "ot", "recv", "walk", "send", "done"}
  /\ rotRecv \in [DOMAIN rotRecv -> 0..1] /\ choices \in [DOMAIN rotRecv -> 0..1]
  /\ \A i \in DOMAIN rotSend : rotSend[i] \in {InOrder, [b \in 0..1 |-> 1 - b]}
  /\ passed \in 0..Len(inst.net) /\ plain \in [Places(inst) -> Block]
  /\ trail \in Seq([Places(inst) -> Block]) /\ Len(trail) \in 0..Len(inst.net) + 1
  /\ Len(toSender) <= 3 /\ Len(toReceiver) <= 1

\* No two subnetworks use the same entry of the switch matrix (the permIdx
\* arithmetic of benes.cpp and of prepareCorrection, for even and odd sizes).
SwitchesApart ==
  \A j, k \in DOMAIN inst.net : j # k => Switch(j).at # Switch(k).at

\* Once the receiver has turned its OTs, the message the sender holds is the
\* one at the position of its switch (genBenes of both sides).
HeldMatches ==
  rpc \in {"walk", "send", "done"} =>
    \A i \in Ots(inst) : rotSend[i][inst.switches[i]] = rotRecv[i]

\* All along the sender's walk its values and the receiver's masks at the same
\* switch add up to the plain values there (benesMaskedEval and prepareCorrection
\* agree on every switch, whatever the network).
SharedAlong ==
  spc \in {"walk", "done"} =>
    \A i \in Places(inst) : Xor(val[i], trail[passed + 1][i]) = plain[i]

\* When both return, the two shares of place i add up to the input perm[i]
\* (runPermAndShare on a routed network).
Shared == spc = "done" /\ rpc = "done" =>
            \A i \in Places(inst) : Xor(val[i], rshare[i]) = Input(inst.perm[i])

\* Both sides return, whether the OTs were preset or not (runPermAndShare).
BothReturn == <>(spc = "done" /\ rpc = "done")
=============================================================================
