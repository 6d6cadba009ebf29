-------------------------- MODULE PermShareProofs --------------------------
(***************************************************************************)
(* Proofs about PermShare: its types, the exchange that turns the OTs, and *)
(* that the sender's masked walk and the receiver's walk of the masks      *)
(* agree at every switch, for every network, switches and choices.  The    *)
(* last sections are about the network of BenesNet for every size: no two  *)
(* of its switches share an entry of the switch matrix.                    *)
(***************************************************************************)
EXTENDS PermShare, BenesNet, FiniteSetTheorems, SequenceTheorems, WellFoundedInduction, TLAPS

(***************************************************************************)
(* The inductive invariant.                                                *)
(***************************************************************************)

\* Which message of OT i the sender asks for in the other place.
Turn(i) == (inst.switches[i] + choices[i]) % 2
Turned == [b \in 0..1 |-> 1 - b]
\* The OTs setOT may have given.
Counted(D) == \E c \in Nat : D = 0..c - 1 /\ (c = 0 \/ c >= NumSwitches(inst))

OtInv ==
  /\ rotRecv = choices /\ choices \in [DOMAIN choices -> 0..1]
  /\ spc \in {"start", "ot"} => Counted(DOMAIN choices)
  /\ spc \notin {"start", "ot"} => DOMAIN choices = Ots(inst)
  /\ rpc \in {"start", "ot"} => Counted(DOMAIN rotSend)
  /\ rpc \notin {"start", "ot"} => DOMAIN rotSend = Ots(inst)
  /\ rotSend = [i \in DOMAIN rotSend |->
                  IF rpc \in {"walk", "send", "done"} /\ Turn(i) = 1 THEN Turned ELSE InOrder]

\* The sender's bits are under way until the receiver turns its OTs.
BitsInv ==
  /\ spc \in {"start", "ot", "bits"} => toReceiver = <<>> /\ rpc \in {"start", "ot", "recv"}
  /\ spc \notin {"start", "ot", "bits"} =>
       toReceiver = IF rpc \in {"start", "ot", "recv"} THEN <<[i \in Ots(inst) |-> Turn(i)]>> ELSE <<>>

TurnInv ==
  /\ inst \in Instances /\ bits \in BOOLEAN
  /\ spc \in {"start", "ot", "bits", "corr", "corr2", "share", "walk", "done"}
  /\ rpc \in {"start", "ot", "recv", "walk", "send", "done"}
  /\ OtInv /\ BitsInv

\* The receiver's masks, and the corrections of the switches it has passed.
TrailInv ==
  /\ corr \in [Ots(inst) -> [0..1 -> Block]]
  /\ trail \in Seq([Places(inst) -> Block])
  /\ rpc = "start" => trail = <<>>
  /\ rpc # "start" => Len(trail) \in 1..Len(inst.net) + 1
  /\ rpc \in {"ot", "recv"} => Len(trail) = 1
  /\ rpc \in {"send", "done"} => Len(trail) = Len(inst.net) + 1
  /\ rpc = "done" => rshare = trail[Len(inst.net) + 1]

MovedInv ==
  \A k \in 1..Len(trail) - 1 :
     trail[k + 1] = Moved(trail[k], Switch(k)) /\ corr[Switch(k).at] = Correction(trail[k], Switch(k))

\* What the sender has still to read.
MaskedInput == [i \in Places(inst) |-> Xor(trail[1][i], Input(i))]
Before == spc \in {"start", "ot", "bits", "corr"}
SocketInv ==
  /\ spc = "corr2" => bits
  /\ rpc \notin {"send", "done"} => Before /\ toSender = <<>>
  /\ rpc = "send" =>
       /\ spc \notin {"walk", "done"}
       /\ Before => toSender = IF bits THEN <<Half(0), Half(1)>> ELSE <<corr>>
       /\ spc = "corr2" => toSender = <<Half(1)>>
       /\ spc = "share" => toSender = <<>>
  /\ rpc = "done" =>
       /\ Before => toSender = IF bits THEN <<Half(0), Half(1), MaskedInput>> ELSE <<corr, MaskedInput>>
       /\ spc = "corr2" => toSender = <<Half(1), MaskedInput>>
       /\ spc = "share" => toSender = <<MaskedInput>>
       /\ spc \in {"walk", "done"} => toSender = <<>>

\* The sender's message of OT i, corrected where the switch swaps.
Held(i, h) == OtMsg(i, choices[i], h)
Fixed(i, h) == IF inst.switches[i] = 1 THEN Xor(corr[i][h], Held(i, h)) ELSE Held(i, h)
MsgInv ==
  /\ spc = "corr" => recvMsg = [i \in Ots(inst) |-> [h \in 0..1 |-> Held(i, h)]]
  /\ spc = "corr2" => recvMsg = [i \in Ots(inst) |-> [h \in 0..1 |-> IF h = 0 THEN Fixed(i, h) ELSE Held(i, h)]]
  /\ spc \in {"share", "walk", "done"} => recvMsg = [i \in Ots(inst) |-> [h \in 0..1 |-> Fixed(i, h)]]

\* The sender's walk.
WalkInv ==
  /\ plain \in [Places(inst) -> Block] /\ passed \in 0..Len(inst.net)
  /\ spc \notin {"walk", "done"} => passed = 0 /\ plain = [i \in Places(inst) |-> Input(i)]
  /\ spc \in {"walk", "done"} => val \in [Places(inst) -> Block]
  /\ spc = "done" => passed = Len(inst.net)

IInv == TurnInv /\ TrailInv /\ SocketInv /\ MsgInv /\ WalkInv
FullInv == IInv /\ SwitchesApart /\ MovedInv /\ SharedAlong

(***************************************************************************)
(* Facts about the constants and about Xor.                                *)
(***************************************************************************)
\* What PermShareAssumption says of the network the run is about.
LEMMA InstFacts ==
  ASSUME inst \in Instances
  PROVE  /\ inst.n \in Nat /\ NumSwitches(inst) \in Nat
         /\ Ots(inst) = 0..NumSwitches(inst) - 1
         /\ inst.switches \in [Ots(inst) -> 0..1]
         /\ inst.net \in Seq([at : Ots(inst), lo : Places(inst), hi : Places(inst), last : BOOLEAN])
         /\ \A k \in DOMAIN inst.net : inst.net[k].lo # inst.net[k].hi
         /\ \A i \in Places(inst) : Input(i) \in Block /\ Mask(i) \in Block
         /\ \A i \in Ots(inst), c, h \in 0..1 : OtMsg(i, c, h) \in Block
         /\ \A count \in Counts(inst) \cup {NumSwitches(inst)} :
              ChoicesOf(count) \subseteq [0..count - 1 -> 0..1]
<1>1. NumSwitches(inst) \in Nat
  BY PermShareAssumption, FS_CardinalityType DEF NumSwitches
<1>2. QED
  BY <1>1, PermShareAssumption

\* The number of OTs a side was given is the size of the domain.
LEMMA CountedFacts ==
  ASSUME inst \in Instances, NEW D, Counted(D)
  PROVE  Cardinality(D) \in Nat /\ (~(Cardinality(D) < NumSwitches(inst)) => Ots(inst) \subseteq D)
<1>1. PICK c \in Nat : D = 0..c - 1 /\ (c = 0 \/ c >= NumSwitches(inst))
  BY DEF Counted
<1>2. Cardinality(D) = c
  BY <1>1, FS_Interval
<1>3. QED
  BY <1>1, <1>2, InstFacts

\* A sequence that extends s by e is Append(s, e).
LEMMA AppendIs ==
  ASSUME NEW S, NEW s \in Seq(S), NEW e \in S, NEW r \in Seq(S),
         Len(r) = Len(s) + 1, r[Len(r)] = e, \A i \in 1..Len(s) : r[i] = s[i]
  PROVE  Append(s, e) = r
<1>1. /\ Append(s, e) \in Seq(S) /\ Len(Append(s, e)) = Len(s) + 1
      /\ \A i \in 1..Len(s) : Append(s, e)[i] = s[i]
      /\ Append(s, e)[Len(s)+1] = e
  BY AppendProperties
<1>2. \A i \in 1..Len(r) : Append(s, e)[i] = r[i]
  BY <1>1, LenProperties
<1>3. QED
  BY <1>1, <1>2, SeqEqual

\* What is on the socket after one more message, or one less.
LEMMA Messages ==
  \A a, b, c :
         /\ Append(<<>>, a) = <<a>> /\ Append(<<a>>, b) = <<a, b>> /\ Append(<<a, b>>, c) = <<a, b, c>>
         /\ Head(<<a>>) = a /\ Head(<<a, b>>) = a
         /\ Tail(<<a>>) = <<>> /\ Tail(<<a, b>>) = <<b>>
<1> TAKE a, b, c
<1>1. Append(<<a>>, b) = <<a, b>>
  <2> DEFINE s == <<a>> r == <<a, b>>
  <2>1. s \in Seq({a,b}) /\ Len(s) = 1 /\ s[1] = a
    OBVIOUS
  <2>2. r \in Seq({a,b}) /\ Len(r) = 2 /\ r[1] = a /\ r[2] = b
    OBVIOUS
  <2> HIDE DEF s, r
  <2>a. \A i \in 1..Len(s) : r[i] = s[i]
    BY <2>1, <2>2
  <2>b. Len(r) = Len(s) + 1 /\ r[Len(r)] = b /\ b \in {a,b}
    BY <2>1, <2>2
  <2>3. Append(s, b) = r
    BY <2>1, <2>2, <2>a, <2>b, AppendIs, Zenon
  <2>4. QED
    BY <2>3 DEF s, r
<1>2. Append(<<a, b>>, c) = <<a, b, c>>
  <2> DEFINE s == <<a, b>> r == <<a, b, c>>
  <2>1. s \in Seq({a,b,c}) /\ Len(s) = 2 /\ s[1] = a /\ s[2] = b
    OBVIOUS
  <2>2. r \in Seq({a,b,c}) /\ Len(r) = 3 /\ r[1] = a /\ r[2] = b /\ r[3] = c
    OBVIOUS
  <2> HIDE DEF s, r
  <2>a. \A i \in 1..Len(s) : r[i] = s[i]
    BY <2>1, <2>2
  <2>b. Len(r) = Len(s) + 1 /\ r[Len(r)] = c /\ c \in {a,b,c}
    BY <2>1, <2>2
  <2>3. Append(s, c) = r
    BY <2>1, <2>2, <2>a, <2>b, AppendIs, Zenon
  <2>4. QED
    BY <2>3 DEF s, r
<1>3. QED
  BY <1>1, <1>2

\* The first of three messages, and what is left of them.
LEMMA ThreeMessages == \A a, b, c : Head(<<a, b, c>>) = a /\ Tail(<<a, b, c>>) = <<b, c>>
  OBVIOUS

\* How many messages there are.
LEMMA Lengths ==
  Len(<<>>) = 0 /\ \A a, b, c : Len(<<a>>) = 1 /\ Len(<<a, b>>) = 2 /\ Len(<<a, b, c>>) = 3
  OBVIOUS

\* The empty block changes nothing.
LEMMA XorEmpty == \A a : Xor({}, a) = a
  BY DEF Xor

\* What cancels when both sides add the same mask.
LEMMA XorCancel ==
  \A a, b, c : /\ Xor(Xor(a, b), a) = b
               /\ Xor(Xor(a, c), Xor(c, b)) = Xor(a, b)
               /\ Xor(Xor(a, Xor(b, c)), c) = Xor(a, b)
               /\ Xor(Xor(Xor(a, b), c), a) = Xor(b, c)
  BY DEF Xor

\* Xor gives a block.
LEMMA XorBlock == \A a, b \in Block : Xor(a, b) \in Block
  BY DEF Xor, Block

(***************************************************************************)
(* The OTs and the bits that turn them.                                    *)
(***************************************************************************)
\* Whatever setOT gave, it is none or enough OTs, all lying in order.
LEMMA TurnInit == Init => TurnInv
<1> SUFFICES ASSUME Init PROVE TurnInv
  OBVIOUS
<1>0. inst \in Instances
  BY DEF Init
<1> USE InstFacts, <1>0
<1>1. PICK count \in {0} \cup Counts(inst) : Given(count)
  BY DEF Init
<1>2. choices \in [0..count - 1 -> 0..1] /\ Counted(DOMAIN choices)
  <2>1. CASE count = 0
    <3>1. choices = <<>>
      BY <1>1, <2>1 DEF Given
    <3>2. DOMAIN choices = 0..0 - 1
      BY <3>1
    <3>3. Counted(DOMAIN choices)
      BY <3>2, 0 \in Nat DEF Counted
    <3>4. choices \in [{} -> 0..1]
      BY <3>1
    <3>5. QED
      BY <2>1, <3>3, <3>4
  <2>2. CASE count # 0
    <3>1. PICK d \in Surplus : count = NumSwitches(inst) + d
      BY <2>2, <1>1 DEF Counts
    <3>2. d \in Nat /\ count \in Nat /\ count >= NumSwitches(inst)
      BY <3>1, PermShareAssumption
    <3>3. choices \in ChoicesOf(count)
      BY <1>1, <2>2 DEF Given
    <3>4. choices \in [0..count - 1 -> 0..1]
      BY <2>2, <3>3
    <3>5. QED
      BY <3>2, <3>4 DEF Counted
  <2>3. QED
    BY <2>1, <2>2
<1>3. rotRecv = choices /\ rotSend = [i \in DOMAIN choices |-> InOrder]
  BY <1>1 DEF Given
<1>4. OtInv
  BY <1>2, <1>3 DEF Init, OtInv
<1>5. QED
  BY <1>4 DEF Init, TurnInv, BitsInv

\* Every step keeps the OTs, and the bits under way between the two.
LEMMA TurnStep == TurnInv /\ [Next]_vars => TurnInv'
<1> SUFFICES ASSUME TurnInv, [Next]_vars PROVE TurnInv'
  OBVIOUS
<1>0. inst \in Instances
  BY DEF TurnInv
<1>a. ChoicesOf(NumSwitches(inst)) \subseteq [Ots(inst) -> 0..1]
  BY <1>0, InstFacts
<1>b. ASSUME RTurn PROVE TurnInv'
  <2>1. /\ inst' = inst /\ bits' = bits /\ spc' = spc /\ rotRecv' = rotRecv /\ choices' = choices
        /\ rpc = "recv" /\ rpc' = "walk" /\ toReceiver # <<>>
    BY <1>b DEF RTurn, senderVars
  <2>2. /\ spc \notin {"start", "ot", "bits"}
        /\ toReceiver = <<[i \in Ots(inst) |-> Turn(i)]>>
    BY <2>1 DEF TurnInv, BitsInv
  <2>3. Head(toReceiver) = [i \in Ots(inst) |-> Turn(i)] /\ toReceiver' = <<>>
    BY <2>2, <1>b DEF RTurn
  <2>4. rotSend = [i \in Ots(inst) |-> InOrder]
    BY <2>1 DEF TurnInv, OtInv
  <2>5. rotSend' = [i \in Ots(inst) |-> IF Turn(i) = 1 THEN [b \in 0..1 |-> InOrder[1 - b]] ELSE InOrder]
    BY <1>b, <2>3, <2>4 DEF RTurn
  <2>6. [b \in 0..1 |-> InOrder[1 - b]] = Turned
    BY DEF InOrder, Turned
  <2>7. \A i : Turn(i)' = Turn(i)
    BY <2>1 DEF Turn
  <2>8. OtInv'
    BY <2>1, <2>2, <2>5, <2>6, <2>7 DEF TurnInv, OtInv, Ots
  <2>9. BitsInv'
    BY <2>1, <2>2, <2>3 DEF BitsInv
  <2>10. QED
    BY <2>1, <2>8, <2>9 DEF TurnInv
<1> USE <1>0, InstFacts DEF TurnInv, OtInv, BitsInv, Turn, Counted, NumSwitches, Ots
<1>1. CASE SStart
  <2>1. Ots(inst) \subseteq DOMAIN choices \/ Few(rotRecv)
    BY <1>1, CountedFacts DEF SStart, Few
  <2>2. QED
    BY <1>1, <2>1 DEF SStart, Cut, receiverVars, otVars
<1>2. CASE RStart
  <2>1. Ots(inst) \subseteq DOMAIN rotSend \/ Few(rotSend)
    BY <1>2, CountedFacts DEF RStart, Few
  <2>2. QED
    BY <1>2, <2>1 DEF RStart, Cut, senderVars
<1>3. CASE GenOT
  <2>1. choices' \in [Ots(inst) -> 0..1]
    BY <1>3, <1>a DEF GenOT
  <2>2. QED
    BY <1>3, <2>1 DEF GenOT
<1>4. CASE SSendBits
  BY <1>4 DEF SSendBits, receiverVars, otVars
<1>5. CASE RTurn
  BY <1>5, <1>b
<1>6. CASE RWalk
  BY <1>6 DEF RWalk, senderVars
<1>7. CASE RSendCorr
  BY <1>7 DEF RSendCorr, senderVars
<1>8. CASE RFinish
  BY <1>8 DEF RFinish, senderVars
<1>9. CASE SCorrect
  BY <1>9 DEF SCorrect, receiverVars, otVars
<1>10. CASE SCorrectBits
  BY <1>10 DEF SCorrectBits, receiverVars, otVars
<1>11. CASE SShare
  BY <1>11 DEF SShare, receiverVars, otVars
<1>12. CASE SWalk
  BY <1>12 DEF SWalk, receiverVars, otVars
<1>13. CASE SDone
  BY <1>13 DEF SDone, receiverVars, otVars
<1>14. CASE Done \/ UNCHANGED vars
  BY <1>14 DEF Done, vars
<1>15. QED
  BY <1>1, <1>2, <1>3, <1>4, <1>5, <1>6, <1>7, <1>8, <1>9, <1>10, <1>11, <1>12, <1>13, <1>14 DEF Next

\* In a walk the sender's message is at the position of its switch.
LEMMA TurnHeld == TurnInv => HeldMatches
<1> SUFFICES ASSUME TurnInv, rpc \in {"walk", "send", "done"}, NEW i \in Ots(inst)
             PROVE  rotSend[i][inst.switches[i]] = rotRecv[i]
  BY DEF HeldMatches
<1>1. inst.switches[i] \in 0..1 /\ choices[i] \in 0..1 /\ DOMAIN choices = Ots(inst) /\ DOMAIN rotSend = Ots(inst)
  BY InstFacts DEF TurnInv, OtInv, BitsInv
<1>2. rotSend[i] = IF Turn(i) = 1 THEN Turned ELSE InOrder
  BY <1>1 DEF TurnInv, OtInv
<1>3. QED
  BY <1>1, <1>2 DEF TurnInv, OtInv, Turn, Turned, InOrder

\* For every network, every choice of the OTs and every number of preset OTs, the
\* message the sender holds is at the position of its switch once the receiver has
\* turned its OTs (the exchange of bits in genBenes and genOT).
THEOREM HeldMatchesHolds == Spec => []HeldMatches
<1>1. Spec => []TurnInv
  BY TurnInit, TurnStep, PTL DEF Spec
<1>2. QED
  BY <1>1, TurnHeld, PTL
(***************************************************************************)
(* The masks, the corrections and the sender's walk.                       *)
(***************************************************************************)
\* A switch of the network joins two different places.
LEMMA SwitchFacts ==
  ASSUME inst \in Instances, NEW k \in 1..Len(inst.net)
  PROVE  /\ Switch(k).at \in Ots(inst) /\ Switch(k).lo \in Places(inst) /\ Switch(k).hi \in Places(inst)
         /\ Switch(k).last \in BOOLEAN /\ Switch(k).lo # Switch(k).hi
<1>1. k \in DOMAIN inst.net
  BY InstFacts
<1> DEFINE S == [at : Ots(inst), lo : Places(inst), hi : Places(inst), last : BOOLEAN]
<1>2. Switch(k) \in S
  <2>1. inst.net \in Seq(S)
    BY InstFacts
  <2> HIDE DEF S
  <2>2. QED
    BY <1>1, <2>1 DEF Switch
<1>3. QED
  BY <1>1, <1>2, InstFacts DEF Switch

\* Every OT message at a switch is a block, whichever way the OTs lie.
LEMMA SotBlock ==
  ASSUME TurnInv, DOMAIN rotSend = Ots(inst), NEW w, w.at \in Ots(inst), NEW b \in 0..1, NEW h \in 0..1
  PROVE  SotMsg(w, b, h) \in Block
<1>1. rotSend[w.at] = Turned \/ rotSend[w.at] = InOrder
  BY DEF TurnInv, OtInv
<1>2. rotSend[w.at][b] \in 0..1
  BY <1>1 DEF Turned, InOrder
<1>3. QED
  BY <1>2, InstFacts DEF SotMsg, TurnInv

\* One switch of prepareCorrection keeps the masks and the correction blocks.
LEMMA MovedType ==
  ASSUME TurnInv, DOMAIN rotSend = Ots(inst), NEW k \in 1..Len(inst.net),
         NEW masks \in [Places(inst) -> Block]
  PROVE  /\ Moved(masks, Switch(k)) \in [Places(inst) -> Block]
         /\ Correction(masks, Switch(k)) \in [0..1 -> Block]
<1> DEFINE w == Switch(k)
<1>1. w.at \in Ots(inst) /\ w.lo \in Places(inst) /\ w.hi \in Places(inst)
  BY SwitchFacts DEF TurnInv
<1>2. \A b, h \in 0..1 : SotMsg(w, b, h) \in Block
  BY <1>1, SotBlock
<1>3. Xor(SotMsg(w, 0, 0), masks[w.lo]) \in Block /\ Xor(SotMsg(w, 0, 1), masks[w.hi]) \in Block
  BY <1>1, <1>2, XorBlock
<1>4. Moved(masks, w) \in [Places(inst) -> Block]
  BY <1>1, <1>3 DEF Moved
<1>5. /\ Xor(Xor(SotMsg(w, 1, 0), masks[w.lo]), Moved(masks, w)[w.hi]) \in Block
      /\ Xor(Xor(SotMsg(w, 1, 1), masks[w.hi]), Moved(masks, w)[w.lo]) \in Block
  BY <1>1, <1>2, <1>4, XorBlock
<1>6. Correction(masks, w) \in [0..1 -> Block]
  BY <1>5 DEF Correction
<1>7. QED
  BY <1>4, <1>6

\* Every step keeps the receiver's masks and corrections.
LEMMA TrailStep == TurnInv /\ TrailInv /\ [Next]_vars => TrailInv'
<1> SUFFICES ASSUME TurnInv, TrailInv, [Next]_vars PROVE TrailInv'
  OBVIOUS
<1>0. inst \in Instances /\ Len(inst.net) \in Nat
  BY InstFacts DEF TurnInv
<1>1. CASE SStart \/ SSendBits \/ SCorrect \/ SCorrectBits \/ SShare \/ SWalk \/ SDone
  BY <1>1 DEF SStart, SSendBits, SCorrect, SCorrectBits, SShare, SWalk, SDone, receiverVars, TrailInv
<1>2. CASE RStart
  <2>1. [i \in Places(inst) |-> Mask(i)] \in [Places(inst) -> Block]
    BY <1>0, InstFacts
  <2>2. trail' \in Seq([Places(inst) -> Block]) /\ Len(trail') = 1
    BY <1>2, <2>1 DEF RStart
  <2>3. QED
    BY <1>0, <1>2, <2>2 DEF RStart, senderVars, TrailInv
<1>3. CASE GenOT
  BY <1>3 DEF GenOT, walkVars, TrailInv
<1>4. CASE RTurn
  BY <1>4, <1>0 DEF RTurn, senderVars, TrailInv
<1>5. CASE RWalk
  <2> DEFINE k == Walked + 1
  <2>1. /\ Len(trail) \in 1..Len(inst.net) /\ k = Len(trail) /\ k \in 1..Len(inst.net)
        /\ DOMAIN rotSend = Ots(inst) /\ trail[k] \in [Places(inst) -> Block]
    BY <1>5, <1>0 DEF RWalk, Walked, TrailInv, TurnInv, OtInv
  <2>2. Moved(trail[k], Switch(k)) \in [Places(inst) -> Block] /\ Correction(trail[k], Switch(k)) \in [0..1 -> Block]
    BY <2>1, MovedType
  <2>3. /\ trail' = Append(trail, Moved(trail[k], Switch(k)))
        /\ corr' = [corr EXCEPT ![Switch(k).at] = Correction(trail[k], Switch(k))]
        /\ rpc = "walk" /\ rpc' = "walk" /\ inst' = inst
    BY <1>5 DEF RWalk
  <2> HIDE DEF k
  <2>4. trail' \in Seq([Places(inst) -> Block]) /\ Len(trail') = Len(trail) + 1
    BY <2>2, <2>3 DEF TrailInv
  <2>5. corr' \in [Ots(inst) -> [0..1 -> Block]]
    BY <2>2, <2>3 DEF TrailInv
  <2>6. QED
    BY <1>0, <2>1, <2>3, <2>4, <2>5 DEF TrailInv
<1>6. CASE RSendCorr
  BY <1>6, <1>0 DEF RSendCorr, senderVars, Walked, TrailInv
<1>7. CASE RFinish
  BY <1>7, <1>0 DEF RFinish, senderVars, Walked, TrailInv
<1>8. CASE Done \/ UNCHANGED vars
  BY <1>8 DEF Done, vars, TrailInv
<1>9. QED
  BY <1>1, <1>2, <1>3, <1>4, <1>5, <1>6, <1>7, <1>8 DEF Next

\* Every step keeps what the sender has still to read.
LEMMA SocketStep == TurnInv /\ TrailInv /\ SocketInv /\ [Next]_vars => SocketInv'
<1> SUFFICES ASSUME TurnInv, TrailInv, SocketInv, [Next]_vars PROVE SocketInv'
  OBVIOUS
<1>1. CASE SStart
  BY <1>1 DEF SStart, receiverVars, SocketInv, TurnInv, BitsInv, Before, Half, MaskedInput
<1>2. CASE RStart
  BY <1>2 DEF RStart, senderVars, SocketInv, Before
<1>3. CASE GenOT
  BY <1>3 DEF GenOT, walkVars, SocketInv, Before
<1>4. CASE SSendBits
  BY <1>4 DEF SSendBits, receiverVars, SocketInv, TurnInv, BitsInv, Before
<1>5. CASE RTurn
  BY <1>5 DEF RTurn, senderVars, SocketInv, Before
<1>6. CASE RWalk
  BY <1>6 DEF RWalk, senderVars, SocketInv, Before
<1>7. CASE RSendCorr
  <2>1. Before /\ toSender = <<>>
    BY <1>7 DEF RSendCorr, SocketInv
  <2>2. toSender' = IF bits THEN <<Half(0), Half(1)>> ELSE <<corr>>
    BY <1>7, <2>1 DEF RSendCorr
  <2>3. QED
    BY <1>7, <2>1, <2>2 DEF RSendCorr, senderVars, SocketInv, Before, Half
<1>8. CASE RFinish
  <2>1. toSender' = Append(toSender, MaskedInput)
    BY <1>8 DEF RFinish, MaskedInput
  <2>2. /\ bits' = bits /\ spc' = spc /\ MaskedInput' = MaskedInput /\ corr' = corr
        /\ Half(0)' = Half(0) /\ Half(1)' = Half(1) /\ Before' = Before /\ rpc = "send" /\ rpc' = "done"
    BY <1>8 DEF RFinish, senderVars, MaskedInput, Half, Before
  <2>3. Before => toSender' = IF bits THEN <<Half(0), Half(1), MaskedInput>> ELSE <<corr, MaskedInput>>
    <3>1. Before => toSender = IF bits THEN <<Half(0), Half(1)>> ELSE <<corr>>
      BY <2>2 DEF SocketInv
    <3>2. Append(<<Half(0), Half(1)>>, MaskedInput) = <<Half(0), Half(1), MaskedInput>>
      BY Messages, Zenon
    <3>3. Append(<<corr>>, MaskedInput) = <<corr, MaskedInput>>
      BY Messages, Zenon
    <3>4. QED
      BY <2>1, <3>1, <3>2, <3>3, Zenon
  <2>4. /\ spc = "corr2" => toSender' = <<Half(1), MaskedInput>>
        /\ spc = "share" => toSender' = <<MaskedInput>>
        /\ spc \notin {"walk", "done"}
    <3>1. /\ spc = "corr2" => toSender = <<Half(1)>>
          /\ spc = "share" => toSender = <<>>
          /\ spc \notin {"walk", "done"}
      BY <2>2 DEF SocketInv
    <3>2. Append(<<Half(1)>>, MaskedInput) = <<Half(1), MaskedInput>> /\ Append(<<>>, MaskedInput) = <<MaskedInput>>
      BY Messages, Zenon
    <3>3. QED
      BY <2>1, <3>1, <3>2, Zenon
  <2>5. QED
    BY <2>2, <2>3, <2>4 DEF SocketInv
<1>9. CASE SCorrect
  <2>1. /\ bits' = bits /\ spc = "corr" /\ spc' = "share" /\ MaskedInput' = MaskedInput
        /\ rpc' = rpc /\ ~bits /\ toSender # <<>> /\ toSender' = Tail(toSender) /\ Before /\ ~Before'
    BY <1>9 DEF SCorrect, receiverVars, MaskedInput, Before
  <2>2. rpc \in {"send", "done"}
    BY <2>1 DEF SocketInv, TurnInv
  <2>3. rpc = "send" => toSender' = <<>>
    BY <2>1 DEF SocketInv
  <2>4. rpc = "done" => toSender' = <<MaskedInput>>
    <3>1. rpc = "done" => toSender = <<corr, MaskedInput>>
      BY <2>1 DEF SocketInv
    <3>2. Tail(<<corr, MaskedInput>>) = <<MaskedInput>>
      BY Messages, Zenon
    <3>3. QED
      BY <2>1, <3>1, <3>2, Zenon
  <2>5. QED
    BY <2>1, <2>2, <2>3, <2>4 DEF SocketInv
<1>10. CASE SCorrectBits
  <2>1. /\ bits' = bits /\ MaskedInput' = MaskedInput /\ Half(1)' = Half(1)
        /\ rpc' = rpc /\ bits /\ toSender # <<>> /\ toSender' = Tail(toSender) /\ ~Before'
        /\ \/ spc = "corr" /\ spc' = "corr2" /\ Before
           \/ spc = "corr2" /\ spc' = "share"
    BY <1>10 DEF SCorrectBits, receiverVars, MaskedInput, Half, Before
  <2>2. rpc \in {"send", "done"}
    BY <2>1 DEF SocketInv, TurnInv
  <2>a. Tail(<<Half(0), Half(1)>>) = <<Half(1)>> /\ Tail(<<Half(1)>>) = <<>>
    BY Messages, Zenon
  <2>b. Tail(<<Half(1), MaskedInput>>) = <<MaskedInput>>
    BY Messages, Zenon
  <2>c. Tail(<<Half(0), Half(1), MaskedInput>>) = <<Half(1), MaskedInput>>
    BY ThreeMessages, Zenon
  <2>3. /\ rpc = "send" /\ spc = "corr" => toSender' = <<Half(1)>>
        /\ rpc = "done" /\ spc = "corr" => toSender' = <<Half(1), MaskedInput>>
    <3>1. /\ rpc = "send" /\ spc = "corr" => toSender = <<Half(0), Half(1)>>
          /\ rpc = "done" /\ spc = "corr" => toSender = <<Half(0), Half(1), MaskedInput>>
      BY <2>1 DEF SocketInv, Before
    <3>2. QED
      BY <2>1, <2>a, <2>b, <2>c, <3>1, Zenon
  <2>4. /\ rpc = "send" /\ spc = "corr2" => toSender' = <<>>
        /\ rpc = "done" /\ spc = "corr2" => toSender' = <<MaskedInput>>
    <3>1. /\ rpc = "send" /\ spc = "corr2" => toSender = <<Half(1)>>
          /\ rpc = "done" /\ spc = "corr2" => toSender = <<Half(1), MaskedInput>>
      BY <2>1 DEF SocketInv
    <3>2. QED
      BY <2>1, <2>a, <2>b, <2>c, <3>1, Zenon
  <2>5. QED
    BY <2>1, <2>2, <2>3, <2>4 DEF SocketInv
<1>11. CASE SShare
  <2>1. /\ spc = "share" /\ spc' = "walk" /\ rpc' = rpc /\ bits' = bits /\ toSender # <<>>
        /\ toSender' = Tail(toSender) /\ ~Before'
    BY <1>11 DEF SShare, receiverVars, Before
  <2>2. rpc = "done"
    BY <2>1 DEF SocketInv, TurnInv
  <2>3. toSender' = <<>>
    <3>1. toSender = <<MaskedInput>>
      BY <2>1, <2>2 DEF SocketInv
    <3>2. Tail(<<MaskedInput>>) = <<>>
      BY Messages, Zenon
    <3>3. QED
      BY <2>1, <3>1, <3>2, Zenon
  <2>4. QED
    BY <2>1, <2>2, <2>3 DEF SocketInv
<1>12. CASE SWalk
  BY <1>12 DEF SWalk, receiverVars, SocketInv, Before
<1>13. CASE SDone
  BY <1>13 DEF SDone, receiverVars, SocketInv, Before
<1>14. CASE Done \/ UNCHANGED vars
  BY <1>14 DEF Done, vars, SocketInv, Before, Half, MaskedInput
<1>15. QED
  BY <1>1, <1>2, <1>3, <1>4, <1>5, <1>6, <1>7, <1>8, <1>9, <1>10, <1>11, <1>12, <1>13, <1>14 DEF Next
\* Every step keeps the masks of the sender, before and after their correction.
LEMMA MsgStep == TurnInv /\ TrailInv /\ SocketInv /\ MsgInv /\ [Next]_vars => MsgInv'
<1> SUFFICES ASSUME TurnInv, TrailInv, SocketInv, MsgInv, [Next]_vars PROVE MsgInv'
  OBVIOUS
<1>0. inst \in Instances
  BY DEF TurnInv
<1>1. CASE SStart \/ GenOT
  BY <1>1 DEF SStart, GenOT, MsgInv
<1>2. CASE RStart \/ RTurn \/ RSendCorr \/ RFinish
  BY <1>2 DEF RStart, RTurn, RSendCorr, RFinish, senderVars, MsgInv, Held, Fixed
<1>3. CASE RWalk
  <2>1. Before /\ Before' /\ choices' = choices /\ recvMsg' = recvMsg /\ inst' = inst /\ spc' = spc
    BY <1>3 DEF RWalk, SocketInv, senderVars, Before
  <2>2. QED
    BY <2>1 DEF MsgInv, Before, Held
<1>4. CASE SSendBits
  BY <1>4 DEF SSendBits, otVars, MsgInv, Held, TurnInv, OtInv
<1>5. CASE SCorrect
  <2>1. /\ spc = "corr" /\ ~bits /\ Before /\ rpc \in {"send", "done"} /\ spc' = "share"
        /\ inst' = inst /\ choices' = choices /\ corr' = corr
    BY <1>5 DEF SCorrect, SocketInv, Before, TurnInv, otVars, receiverVars
  <2>2. toSender = <<corr>> \/ toSender = <<corr, MaskedInput>>
    BY <2>1 DEF SocketInv
  <2>3. Head(toSender) = corr
    BY <2>2, Messages, Zenon
  <2>4. recvMsg' = [i \in Ots(inst) |-> Unmask(i, corr[i])]
    BY <1>5, <2>3 DEF SCorrect
  <2>5. \A i \in Ots(inst) : Unmask(i, corr[i]) = [h \in 0..1 |-> Fixed(i, h)]
    BY <2>1 DEF MsgInv, Unmask, Fixed
  <2>6. QED
    BY <2>1, <2>4, <2>5 DEF MsgInv, Fixed, Held
<1>6. CASE SCorrectBits /\ spc = "corr"
  <2>1. /\ bits /\ Before /\ rpc \in {"send", "done"} /\ spc' = "corr2"
        /\ inst' = inst /\ choices' = choices /\ corr' = corr
        /\ recvMsg' = [i \in Ots(inst) |-> Unmask(i, Only(0, Head(toSender)[i]))]
    BY <1>6 DEF SCorrectBits, SocketInv, Before, TurnInv, otVars, receiverVars
  <2>2. toSender = <<Half(0), Half(1)>> \/ toSender = <<Half(0), Half(1), MaskedInput>>
    BY <2>1 DEF SocketInv
  <2>3. Head(toSender) = Half(0)
    <3>1. toSender = <<Half(0), Half(1)>> => Head(toSender) = Half(0)
      BY Messages, Zenon
    <3>2. toSender = <<Half(0), Half(1), MaskedInput>> => Head(toSender) = Half(0)
      BY ThreeMessages, Zenon
    <3>3. QED
      BY <2>2, <3>1, <3>2
  <2>4. recvMsg' = [i \in Ots(inst) |-> Unmask(i, Only(0, corr[i][0]))]
    BY <2>1, <2>3 DEF Half
  <2>5. \A i \in Ots(inst) : Unmask(i, Only(0, corr[i][0])) = [h \in 0..1 |-> IF h = 0 THEN Fixed(i, h) ELSE Held(i, h)]
    BY <1>6 DEF MsgInv, Unmask, Only, Fixed, Xor
  <2>6. QED
    BY <2>1, <2>4, <2>5 DEF MsgInv, Fixed, Held
<1>7. CASE SCorrectBits /\ spc = "corr2"
  <2>1. /\ bits /\ rpc \in {"send", "done"} /\ spc' = "share"
        /\ inst' = inst /\ choices' = choices /\ corr' = corr
        /\ recvMsg' = [i \in Ots(inst) |-> Unmask(i, Only(1, Head(toSender)[i]))]
    BY <1>7 DEF SCorrectBits, SocketInv, Before, TurnInv, otVars, receiverVars
  <2>2. toSender = <<Half(1)>> \/ toSender = <<Half(1), MaskedInput>>
    BY <1>7, <2>1 DEF SocketInv
  <2>3. Head(toSender) = Half(1)
    BY <2>2, Messages, Zenon
  <2>4. recvMsg' = [i \in Ots(inst) |-> Unmask(i, Only(1, corr[i][1]))]
    BY <2>1, <2>3 DEF Half
  <2>5. \A i \in Ots(inst) : Unmask(i, Only(1, corr[i][1])) = [h \in 0..1 |-> Fixed(i, h)]
    <3>1. SUFFICES ASSUME NEW i \in Ots(inst)
                   PROVE  Unmask(i, Only(1, corr[i][1])) = [h \in 0..1 |-> Fixed(i, h)]
      OBVIOUS
    <3>2. recvMsg[i] = [h \in 0..1 |-> IF h = 0 THEN Fixed(i, h) ELSE Held(i, h)]
      BY <1>7 DEF MsgInv
    <3>3. CASE inst.switches[i] # 1
      BY <3>2, <3>3 DEF Unmask, Fixed
    <3>4. CASE inst.switches[i] = 1
      <4>1. \A h \in 0..1 : Xor(Only(1, corr[i][1])[h], recvMsg[i][h]) = Fixed(i, h)
        BY <3>2, <3>4, XorEmpty DEF Only, Fixed
      <4>2. QED
        BY <3>4, <4>1 DEF Unmask
    <3>5. QED
      BY <3>3, <3>4
  <2>6. QED
    BY <2>1, <2>4, <2>5 DEF MsgInv, Fixed, Held
<1>8. CASE SShare \/ SWalk \/ SDone
  BY <1>8 DEF SShare, SWalk, SDone, otVars, receiverVars, MsgInv, Held, Fixed
<1>9. CASE Done \/ UNCHANGED vars
  BY <1>9 DEF Done, vars, MsgInv, Held, Fixed
<1>10. SCorrectBits => spc \in {"corr", "corr2"}
  BY DEF SCorrectBits
<1>11. QED
  BY <1>1, <1>2, <1>3, <1>4, <1>5, <1>6, <1>7, <1>8, <1>9, <1>10 DEF Next

\* The two masks of a switch are blocks, whether they were corrected or not.
LEMMA MsgBlock ==
  ASSUME TurnInv, TrailInv, MsgInv, spc = "walk", NEW i \in Ots(inst), NEW h \in 0..1
  PROVE  recvMsg[i][h] = Fixed(i, h) /\ Fixed(i, h) \in Block
<1>1. recvMsg[i][h] = Fixed(i, h)
  BY DEF MsgInv
<1>2. inst.switches[i] \in 0..1 /\ choices[i] \in 0..1
  BY InstFacts DEF TurnInv, OtInv
<1>3. Held(i, h) \in Block /\ corr[i][h] \in Block
  BY <1>2, InstFacts DEF Held, TurnInv, TrailInv
<1>4. QED
  BY <1>1, <1>3, XorBlock DEF Fixed

\* What the sender has read as its values are the masked inputs.
LEMMA ShareRead ==
  ASSUME TurnInv, TrailInv, SocketInv, SShare
  PROVE  /\ rpc = "done" /\ val' = MaskedInput /\ trail[1] \in [Places(inst) -> Block]
         /\ MaskedInput \in [Places(inst) -> Block]
<1>1. rpc = "done" /\ toSender = <<MaskedInput>>
  BY DEF SShare, SocketInv, TurnInv
<1>2. val' = MaskedInput
  BY <1>1, Messages, Zenon DEF SShare
<1>3. trail[1] \in [Places(inst) -> Block]
  BY <1>1, InstFacts DEF TrailInv, TurnInv
<1>4. \A i \in Places(inst) : Xor(trail[1][i], Input(i)) \in Block
  BY <1>3, InstFacts, XorBlock DEF TurnInv
<1>5. QED
  BY <1>1, <1>2, <1>3, <1>4 DEF MaskedInput

\* Every step keeps the values on the sender's walk.
LEMMA WalkStep == TurnInv /\ TrailInv /\ SocketInv /\ MsgInv /\ WalkInv /\ [Next]_vars => WalkInv'
<1> SUFFICES ASSUME TurnInv, TrailInv, SocketInv, MsgInv, WalkInv, [Next]_vars PROVE WalkInv'
  OBVIOUS
<1>0. inst \in Instances
  BY DEF TurnInv
<1>1. CASE SStart \/ GenOT \/ SSendBits \/ SCorrect \/ SCorrectBits
  BY <1>1 DEF SStart, GenOT, SSendBits, SCorrect, SCorrectBits, walkVars, WalkInv
<1>2. CASE RStart \/ RTurn \/ RWalk \/ RSendCorr \/ RFinish
  BY <1>2 DEF RStart, RTurn, RWalk, RSendCorr, RFinish, senderVars, WalkInv
<1>3. CASE SShare
  BY <1>3, ShareRead DEF SShare, WalkInv
<1>4. CASE SWalk
  <2> DEFINE w == Switch(passed + 1)
  <2>1. /\ spc = "walk" /\ spc' = "walk" /\ inst' = inst /\ passed + 1 \in 1..Len(inst.net) /\ passed' = passed + 1
        /\ val' = MaskedSwitch(val, w) /\ plain' = SwapIf(plain, w)
    BY <1>4, <1>0, InstFacts DEF SWalk, WalkInv
  <2>2. w.at \in Ots(inst) /\ w.lo \in Places(inst) /\ w.hi \in Places(inst)
    BY <1>0, <2>1, SwitchFacts
  <2>3. \A h \in 0..1 : recvMsg[w.at][h] \in Block
    BY <2>1, <2>2, MsgBlock
  <2>4. inst.switches[w.at] \in 0..1
    BY <1>0, <2>2, InstFacts
  <2> HIDE DEF w
  <2>5. \A v \in [Places(inst) -> Block] : SwapIf(v, w) \in [Places(inst) -> Block]
    BY <2>2 DEF SwapIf
  <2>6. \A v \in [Places(inst) -> Block], lo, hi \in 0..1 : XorAt(v, w, lo, hi) \in [Places(inst) -> Block]
    BY <2>2, <2>3, XorBlock DEF XorAt
  <2>7. \A v \in [Places(inst) -> Block] : MaskedSwitch(v, w) \in [Places(inst) -> Block]
    <3>1. SUFFICES ASSUME NEW v \in [Places(inst) -> Block] PROVE MaskedSwitch(v, w) \in [Places(inst) -> Block]
      OBVIOUS
    <3>2. inst.switches[w.at] \in 0..1 /\ 1 - inst.switches[w.at] \in 0..1
      BY <2>4
    <3>3. QED
      BY <2>5, <2>6, <3>2 DEF MaskedSwitch
  <2>8. QED
    BY <2>1, <2>5, <2>7 DEF WalkInv
<1>5. CASE SDone
  BY <1>5 DEF SDone, walkVars, WalkInv
<1>6. CASE Done \/ UNCHANGED vars
  BY <1>6 DEF Done, vars, WalkInv
<1>7. QED
  BY <1>1, <1>2, <1>3, <1>4, <1>5, <1>6 DEF Next

\* The inductive invariant holds at the start.
LEMMA IInit == Init => IInv
<1> SUFFICES ASSUME Init PROVE IInv
  OBVIOUS
<1>1. TurnInv /\ inst \in Instances
  BY TurnInit DEF TurnInv
<1>2. TrailInv
  BY DEF Init, TrailInv, Block
<1>3. SocketInv /\ MsgInv
  BY DEF Init, SocketInv, Before, MsgInv
<1>4. WalkInv
  BY <1>1, InstFacts DEF Init, WalkInv
<1>5. QED
  BY <1>1, <1>2, <1>3, <1>4 DEF IInv

\* Every step keeps the inductive invariant.
LEMMA IStep == IInv /\ [Next]_vars => IInv'
  BY TurnStep, TrailStep, SocketStep, MsgStep, WalkStep DEF IInv

\* So it always holds.
LEMMA Invariance == Spec => []IInv
  BY IInit, IStep, PTL DEF Spec
\* The state keeps its types, and a position of the receiver's OTs never
\* repeats a message, for every network and every number of preset OTs.
THEOREM TypeCorrect == Spec => []TypeOK
<1>1. IInv => TypeOK
  <2> SUFFICES ASSUME IInv PROVE TypeOK
    OBVIOUS
  <2>1. /\ bits \in BOOLEAN
        /\ spc \in {"start", "ot", "bits", "corr", "corr2", "share", "walk", "done"}
        /\ rpc \in {"start", "ot", "recv", "walk", "send", "done"}
        /\ rotRecv \in [DOMAIN rotRecv -> 0..1] /\ choices \in [DOMAIN rotRecv -> 0..1]
    BY DEF IInv, TurnInv, OtInv
  <2>2. \A i \in DOMAIN rotSend : rotSend[i] \in {InOrder, [b \in 0..1 |-> 1 - b]}
    BY DEF IInv, TurnInv, OtInv, Turned
  <2>3. passed \in 0..Len(inst.net) /\ plain \in [Places(inst) -> Block]
    BY DEF IInv, WalkInv
  <2>4. trail \in Seq([Places(inst) -> Block]) /\ Len(trail) \in 0..Len(inst.net) + 1
    BY <2>1, InstFacts DEF IInv, TurnInv, TrailInv
  <2>5. Len(toReceiver) <= 1
    <3>1. toReceiver = <<>> \/ toReceiver = <<[i \in Ots(inst) |-> Turn(i)]>>
      BY DEF IInv, TurnInv, BitsInv
    <3>2. QED
      BY <3>1, Lengths
  <2>6. Len(toSender) <= 3
    <3>1. \/ toSender = <<>> \/ toSender = <<corr>> \/ toSender = <<Half(1)>> \/ toSender = <<MaskedInput>>
          \/ toSender = <<Half(0), Half(1)>> \/ toSender = <<corr, MaskedInput>> \/ toSender = <<Half(1), MaskedInput>>
          \/ toSender = <<Half(0), Half(1), MaskedInput>>
      BY <2>1 DEF IInv, SocketInv, Before
    <3>2. Len(toSender) \in {0, 1, 2, 3}
      BY <3>1, Lengths, Zenon
    <3>3. \A n \in {0, 1, 2, 3} : n <= 3
      OBVIOUS
    <3>4. QED
      BY <3>2, <3>3, Zenon
  <2>7. QED
    BY <2>1, <2>2, <2>3, <2>4, <2>5, <2>6 DEF TypeOK
<1>2. QED
  BY <1>1, Invariance, PTL

(***************************************************************************)
(* The two walks agree on every switch.                                    *)
(***************************************************************************)
\* A step that leaves the network, the OTs and the masks before switch k
\* leaves what the walk makes of them.
LEMMA MovedSame ==
  ASSUME inst' = inst, rotSend' = rotSend, NEW k, trail'[k] = trail[k]
  PROVE  /\ Switch(k)' = Switch(k)
         /\ Moved(trail[k], Switch(k))' = Moved(trail[k], Switch(k))
         /\ Correction(trail[k], Switch(k))' = Correction(trail[k], Switch(k))
<1>1. Switch(k)' = Switch(k)
  BY DEF Switch
<1>2. /\ SotMsg(Switch(k), 0, 0)' = SotMsg(Switch(k), 0, 0) /\ SotMsg(Switch(k), 0, 1)' = SotMsg(Switch(k), 0, 1)
      /\ SotMsg(Switch(k), 1, 0)' = SotMsg(Switch(k), 1, 0) /\ SotMsg(Switch(k), 1, 1)' = SotMsg(Switch(k), 1, 1)
  BY <1>1 DEF SotMsg
<1>3. Moved(trail[k], Switch(k))' = Moved(trail[k], Switch(k))
  BY <1>1, <1>2 DEF Moved
<1>4. Correction(trail[k], Switch(k))' = Correction(trail[k], Switch(k))
  BY <1>1, <1>2, <1>3 DEF Correction
<1>5. QED
  BY <1>1, <1>3, <1>4

\* Every step keeps the masks of the walk related, switch by switch: a later switch
\* does not write the correction of an earlier one, as their entries differ.
LEMMA MovedStep == TurnInv /\ TrailInv /\ SwitchesApart /\ MovedInv /\ [Next]_vars => MovedInv'
<1> SUFFICES ASSUME TurnInv, TrailInv, SwitchesApart, MovedInv, [Next]_vars,
                    NEW k \in 1..Len(trail') - 1
             PROVE  (trail[k + 1] = Moved(trail[k], Switch(k)) /\ corr[Switch(k).at] = Correction(trail[k], Switch(k)))'
  BY DEF MovedInv
<1>0. inst \in Instances /\ Len(inst.net) \in Nat
  BY InstFacts DEF TurnInv
<1>1. ASSUME inst' = inst /\ rotSend' = rotSend /\ trail' = trail /\ corr' = corr
      PROVE  (trail[k + 1] = Moved(trail[k], Switch(k)) /\ corr[Switch(k).at] = Correction(trail[k], Switch(k)))'
  BY <1>1, MovedSame DEF MovedInv
<1>2. CASE \/ SStart \/ SSendBits \/ SCorrect \/ SCorrectBits \/ SShare \/ SWalk \/ SDone
           \/ RSendCorr \/ RFinish \/ Done \/ UNCHANGED vars
  BY <1>1, <1>2 DEF SStart, SSendBits, SCorrect, SCorrectBits, SShare, SWalk, SDone, receiverVars,
                    RSendCorr, RFinish, Done, vars
<1>3. CASE RStart \/ RTurn \/ GenOT
  <2>1. Len(trail') = 1
    BY <1>3 DEF RStart, RTurn, GenOT, TrailInv
  <2>2. QED
    BY <2>1
<1>4. CASE RWalk
  <2> DEFINE l == Walked + 1
  <2>1. /\ Len(trail) \in 1..Len(inst.net) /\ l = Len(trail)
        /\ DOMAIN rotSend = Ots(inst) /\ trail[l] \in [Places(inst) -> Block]
    BY <1>4, <1>0 DEF RWalk, Walked, TrailInv, TurnInv, OtInv
  <2>2. Moved(trail[l], Switch(l)) \in [Places(inst) -> Block]
    BY <2>1, MovedType
  <2>3. /\ trail' = Append(trail, Moved(trail[l], Switch(l)))
        /\ corr' = [corr EXCEPT ![Switch(l).at] = Correction(trail[l], Switch(l))]
        /\ inst' = inst /\ rotSend' = rotSend
    BY <1>4 DEF RWalk
  <2> HIDE DEF l
  <2>4. k \in 1..l /\ trail'[k] = trail[k] /\ Len(trail') = l + 1
    BY <2>1, <2>2, <2>3 DEF TrailInv
  <2>5. /\ Moved(trail[k], Switch(k))' = Moved(trail[k], Switch(k))
        /\ Correction(trail[k], Switch(k))' = Correction(trail[k], Switch(k))
        /\ Switch(k)' = Switch(k)
    BY <2>3, <2>4, MovedSame
  <2>6. Switch(k).at \in Ots(inst) /\ Switch(l).at \in Ots(inst)
    BY <1>0, <2>1, <2>4, SwitchFacts
  <2>7. CASE k = l
    BY <2>1, <2>2, <2>3, <2>5, <2>6, <2>7 DEF TrailInv
  <2>8. CASE k # l
    <3>1. Switch(k).at # Switch(l).at
      BY <1>0, <2>1, <2>4, <2>8, InstFacts DEF SwitchesApart
    <3>2. k \in 1..Len(trail) - 1 /\ k + 1 \in 1..Len(trail)
      BY <2>1, <2>4, <2>8
    <3>3. trail[k + 1] = Moved(trail[k], Switch(k)) /\ corr[Switch(k).at] = Correction(trail[k], Switch(k))
      BY <3>2 DEF MovedInv
    <3>4. trail'[k + 1] = trail[k + 1]
      BY <2>2, <2>3, <3>2 DEF TrailInv
    <3>5. corr'[Switch(k).at] = corr[Switch(k).at]
      BY <2>3, <2>6, <3>1 DEF TrailInv
    <3>6. QED
      BY <2>5, <3>3, <3>4, <3>5
  <2>9. QED
    BY <2>7, <2>8
<1>5. QED
  BY <1>2, <1>3, <1>4 DEF Next

\* The masks the sender holds for a switch are the ones the receiver's walk
\* used: of its own message where the switch is straight, and of the exchanged
\* places, by the correction, where it swaps.
LEMMA FixedIs ==
  ASSUME TurnInv, TrailInv, MsgInv, MovedInv, spc = "walk", rpc = "done", NEW k \in 1..Len(inst.net)
  PROVE  LET w == Switch(k)
             masks == trail[k]
             next == trail[k + 1]
             m == recvMsg[w.at] IN
         /\ inst.switches[w.at] = 0 => next[w.lo] = Xor(m[0], masks[w.lo]) /\ next[w.hi] = Xor(m[1], masks[w.hi])
         /\ inst.switches[w.at] = 1 => m[0] = Xor(masks[w.lo], next[w.hi]) /\ m[1] = Xor(masks[w.hi], next[w.lo])
         /\ \A i \in Places(inst) : i # w.lo /\ i # w.hi => next[i] = masks[i]
<1> DEFINE w == Switch(k)
           masks == trail[k]
           next == trail[k + 1]
           s == inst.switches[w.at]
<1>1. /\ inst \in Instances /\ w.at \in Ots(inst) /\ w.lo \in Places(inst) /\ w.hi \in Places(inst) /\ w.lo # w.hi
      /\ s \in 0..1
  BY InstFacts, SwitchFacts DEF TurnInv
<1>2. Len(inst.net) \in Nat /\ Len(trail) = Len(inst.net) + 1
  BY <1>1, InstFacts DEF TrailInv
<1>3. next = Moved(masks, w) /\ corr[w.at] = Correction(masks, w)
  BY <1>2 DEF MovedInv
<1>4. masks \in [Places(inst) -> Block]
  BY <1>2 DEF TrailInv
<1>5. \A h \in 0..1 : Held(w.at, h) = SotMsg(w, s, h)
  BY <1>1, TurnHeld DEF HeldMatches, Held, SotMsg, TurnInv, OtInv
<1>6. \A h \in 0..1 : recvMsg[w.at][h] = Fixed(w.at, h)
  BY <1>1, MsgBlock
<1> HIDE DEF w, masks, next, s
<1>7. next[w.lo] = Xor(SotMsg(w, 0, 0), masks[w.lo]) /\ next[w.hi] = Xor(SotMsg(w, 0, 1), masks[w.hi])
  BY <1>1, <1>3, <1>4 DEF Moved
<1>8. \A i \in Places(inst) : i # w.lo /\ i # w.hi => next[i] = masks[i]
  BY <1>1, <1>3, <1>4 DEF Moved
<1>9. /\ corr[w.at][0] = Xor(Xor(SotMsg(w, 1, 0), masks[w.lo]), next[w.hi])
      /\ corr[w.at][1] = Xor(Xor(SotMsg(w, 1, 1), masks[w.hi]), next[w.lo])
  BY <1>3 DEF Correction
<1>10. s = 0 => recvMsg[w.at][0] = SotMsg(w, 0, 0) /\ recvMsg[w.at][1] = SotMsg(w, 0, 1)
  BY <1>5, <1>6 DEF Fixed, s
<1>11. s = 1 => /\ recvMsg[w.at][0] = Xor(corr[w.at][0], SotMsg(w, 1, 0))
                /\ recvMsg[w.at][1] = Xor(corr[w.at][1], SotMsg(w, 1, 1))
  BY <1>5, <1>6 DEF Fixed, s
<1>12. s = 1 => recvMsg[w.at][0] = Xor(masks[w.lo], next[w.hi]) /\ recvMsg[w.at][1] = Xor(masks[w.hi], next[w.lo])
  BY <1>9, <1>11, XorCancel
<1>13. QED
  BY <1>7, <1>8, <1>10, <1>12 DEF w, masks, next, s

\* What a masked switch makes of the values, in any column.
LEMMA MaskedSwitchIs ==
  ASSUME NEW w, NEW v \in [Places(inst) -> Block], w.lo \in Places(inst), w.hi \in Places(inst), w.lo # w.hi,
         inst.switches[w.at] \in 0..1
  PROVE  /\ inst.switches[w.at] = 0 =>
              /\ MaskedSwitch(v, w)[w.lo] = Xor(v[w.lo], recvMsg[w.at][0])
              /\ MaskedSwitch(v, w)[w.hi] = Xor(v[w.hi], recvMsg[w.at][1])
         /\ inst.switches[w.at] = 1 =>
              /\ MaskedSwitch(v, w)[w.lo] = Xor(v[w.hi], recvMsg[w.at][1])
              /\ MaskedSwitch(v, w)[w.hi] = Xor(v[w.lo], recvMsg[w.at][0])
         /\ \A i \in Places(inst) : i # w.lo /\ i # w.hi => MaskedSwitch(v, w)[i] = v[i]
<1>1. CASE w.last
  BY <1>1 DEF MaskedSwitch, XorAt, SwapIf
<1>2. CASE ~w.last
  BY <1>2 DEF MaskedSwitch, XorAt, SwapIf
<1>3. QED
  BY <1>1, <1>2

\* Every step keeps the two walks in agreement.
LEMMA SharedStep ==
  TurnInv /\ TrailInv /\ SocketInv /\ MsgInv /\ WalkInv /\ MovedInv /\ SharedAlong /\ [Next]_vars => SharedAlong'
<1> SUFFICES ASSUME TurnInv, TrailInv, SocketInv, MsgInv, WalkInv, MovedInv, SharedAlong, [Next]_vars
             PROVE  SharedAlong'
  OBVIOUS
<1>0. inst \in Instances
  BY DEF TurnInv
<1>1. CASE SStart \/ GenOT \/ SSendBits \/ SCorrect \/ SCorrectBits
  BY <1>1 DEF SStart, GenOT, SSendBits, SCorrect, SCorrectBits, SharedAlong
<1>2. CASE RStart \/ RTurn \/ RWalk \/ RSendCorr
  <2>1. spc' = spc /\ spc \notin {"walk", "done"}
    BY <1>2 DEF RStart, RTurn, RWalk, RSendCorr, senderVars, SocketInv, Before
  <2>2. QED
    BY <2>1 DEF SharedAlong
<1>3. CASE RFinish
  BY <1>3 DEF RFinish, senderVars, SharedAlong
<1>4. CASE SShare
  <2>1. rpc = "done" /\ val' = MaskedInput /\ trail[1] \in [Places(inst) -> Block]
    BY <1>4, ShareRead
  <2>2. passed = 0 /\ plain = [i \in Places(inst) |-> Input(i)] /\ trail' = trail /\ plain' = plain /\ passed' = passed /\ inst' = inst
    BY <1>4 DEF SShare, receiverVars, WalkInv
  <2>3. \A i \in Places(inst) : Xor(MaskedInput[i], trail[1][i]) = Input(i)
    BY XorCancel DEF MaskedInput
  <2>4. QED
    BY <2>1, <2>2, <2>3 DEF SharedAlong, Places
<1>5. CASE SWalk
  <2> DEFINE k == passed + 1
             w == Switch(k)
             m == recvMsg[w.at]
             s == inst.switches[w.at]
  <2>1. /\ spc = "walk" /\ inst' = inst /\ passed \in 0..Len(inst.net) /\ k \in 1..Len(inst.net) /\ passed' = passed + 1
        /\ val' = MaskedSwitch(val, w) /\ plain' = SwapIf(plain, w) /\ trail' = trail
    BY <1>5, <1>0, InstFacts DEF SWalk, WalkInv, receiverVars
  <2>2. rpc = "done" /\ val \in [Places(inst) -> Block] /\ plain \in [Places(inst) -> Block]
    BY <2>1 DEF SocketInv, TurnInv, WalkInv, Before
  <2>3. w.at \in Ots(inst) /\ w.lo \in Places(inst) /\ w.hi \in Places(inst) /\ w.lo # w.hi /\ s \in 0..1
    BY <1>0, <2>1, SwitchFacts, InstFacts
  <2>4. /\ s = 0 => trail[k + 1][w.lo] = Xor(m[0], trail[k][w.lo]) /\ trail[k + 1][w.hi] = Xor(m[1], trail[k][w.hi])
        /\ s = 1 => m[0] = Xor(trail[k][w.lo], trail[k + 1][w.hi]) /\ m[1] = Xor(trail[k][w.hi], trail[k + 1][w.lo])
        /\ \A i \in Places(inst) : i # w.lo /\ i # w.hi => trail[k + 1][i] = trail[k][i]
    BY <2>1, <2>2, FixedIs
  <2>5. /\ s = 0 => val'[w.lo] = Xor(val[w.lo], m[0]) /\ val'[w.hi] = Xor(val[w.hi], m[1])
        /\ s = 1 => val'[w.lo] = Xor(val[w.hi], m[1]) /\ val'[w.hi] = Xor(val[w.lo], m[0])
        /\ \A i \in Places(inst) : i # w.lo /\ i # w.hi => val'[i] = val[i]
    BY <2>1, <2>2, <2>3, MaskedSwitchIs
  <2>6. /\ s = 0 => plain' = plain
        /\ s = 1 => plain'[w.lo] = plain[w.hi] /\ plain'[w.hi] = plain[w.lo]
        /\ \A i \in Places(inst) : i # w.lo /\ i # w.hi => plain'[i] = plain[i]
    BY <2>1, <2>2, <2>3 DEF SwapIf
  <2>7. \A i \in Places(inst) : Xor(val[i], trail[k][i]) = plain[i]
    BY <2>1 DEF SharedAlong
  <2> HIDE DEF k, w, m, s
  <2>8. s = 0 => Xor(val'[w.lo], trail[k + 1][w.lo]) = plain'[w.lo] /\ Xor(val'[w.hi], trail[k + 1][w.hi]) = plain'[w.hi]
    BY <2>3, <2>4, <2>5, <2>6, <2>7, XorCancel
  <2>9. s = 1 => Xor(val'[w.lo], trail[k + 1][w.lo]) = plain'[w.lo] /\ Xor(val'[w.hi], trail[k + 1][w.hi]) = plain'[w.hi]
    BY <2>3, <2>4, <2>5, <2>6, <2>7, XorCancel
  <2>10. \A i \in Places(inst) : Xor(val'[i], trail[k + 1][i]) = plain'[i]
    BY <2>3, <2>4, <2>5, <2>6, <2>7, <2>8, <2>9
  <2>11. QED
    BY <2>1, <2>10 DEF SharedAlong, Places, k
<1>6. CASE SDone
  BY <1>6 DEF SDone, receiverVars, walkVars, SharedAlong
<1>7. CASE Done \/ UNCHANGED vars
  BY <1>7 DEF Done, vars, SharedAlong
<1>8. QED
  BY <1>1, <1>2, <1>3, <1>4, <1>5, <1>6, <1>7 DEF Next

\* The whole invariant, for networks whose switches are apart.
LEMMA FullInvariance == Spec /\ SwitchesApart => []FullInv
<1>1. Init /\ SwitchesApart => FullInv
  <2>1. Init => MovedInv /\ SharedAlong
    BY DEF Init, MovedInv, SharedAlong
  <2>2. QED
    BY <2>1, IInit DEF FullInv
<1>2. FullInv /\ [Next]_vars => FullInv'
  <2>1. [Next]_vars => inst' = inst
    BY DEF Next, SStart, RStart, GenOT, SSendBits, RTurn, RWalk, RSendCorr, RFinish, SCorrect,
           SCorrectBits, SShare, SWalk, SDone, Done, vars
  <2>2. inst' = inst /\ SwitchesApart => SwitchesApart'
    BY DEF SwitchesApart, Switch
  <2>3. QED
    BY <2>1, <2>2, IStep, MovedStep, SharedStep DEF FullInv, IInv
<1>3. QED
  BY <1>1, <1>2, PTL DEF Spec

\* Whatever the routed network, its switches and the choices of the OTs, if no
\* two switches of the network share an entry of the switch matrix, the sender's
\* values and the receiver's masks add up to the plain values before every switch
\* of the sender's walk (prepareCorrection and benesMaskedEval agree).
THEOREM SharedAlongHolds == Spec /\ SwitchesApart => []SharedAlong
  BY FullInvariance, PTL DEF FullInv

\* And when both return their shares add up to the values benesEval would have
\* moved (runPermAndShare).
THEOREM OutputsShare ==
  Spec /\ SwitchesApart =>
    [](spc = "done" /\ rpc = "done" => \A i \in Places(inst) : Xor(val[i], rshare[i]) = plain[i])
<1>1. FullInv => (spc = "done" /\ rpc = "done" => \A i \in Places(inst) : Xor(val[i], rshare[i]) = plain[i])
  BY DEF FullInv, IInv, TrailInv, WalkInv, SharedAlong
<1>2. QED
  BY <1>1, FullInvariance, PTL

(***************************************************************************)
(* What the switches make of the places: Carried is where the value at     *)
(* each place comes from, after so many switches.                          *)
(***************************************************************************)
\* A set of numbers has a least one.
LEMMA Least == ASSUME NEW T \in SUBSET Nat, T # {} PROVE \E x \in T : \A y \in T : x <= y
<1>1. IsWellFoundedOn(OpToRel(<, Nat), Nat)
  BY NatLessThanWellFounded
<1>2. PICK x \in T : \A y \in T : ~(<<y, x>> \in OpToRel(<, Nat))
  BY <1>1, WFMin
<1>3. \A y \in T : ~(y < x)
  BY <1>2 DEF OpToRel
<1> QED BY <1>3

LEMMA Induction ==
  ASSUME NEW S, 0 \in S, \A n \in Nat : n \in S => n + 1 \in S
  PROVE  Nat \subseteq S
<1> SUFFICES ASSUME Nat \ S # {} PROVE FALSE
  OBVIOUS
<1>1. PICK x \in Nat \ S : \A y \in Nat \ S : x <= y
  BY Least
<1>2. x # 0 /\ x - 1 \in Nat
  BY <1>1
<1>3. x - 1 \in S
  BY <1>1, <1>2
<1> QED BY <1>1, <1>2, <1>3

\* A function defined by recursion along 0..n.
Follows(f, n, V, base, step) ==
  f \in [0..n -> V] /\ f[0] = base /\ \A k \in 1..n : f[k] = step[k][f[k - 1]]
LEMMA Recursion ==
  ASSUME NEW n \in Nat, NEW V, NEW base \in V, NEW step \in [1..n -> [V -> V]]
  PROVE  \E f : Follows(f, n, V, base, step)
<1> DEFINE Good(m) == \E f \in [0..m -> V] : f[0] = base /\ \A k \in 1..m : f[k] = step[k][f[k - 1]]
           S == {m \in Nat : m <= n => Good(m)}
<1>1. 0 \in S
  <2> DEFINE f == [k \in 0..0 |-> base]
  <2>1. f \in [0..0 -> V] /\ f[0] = base /\ \A k \in 1..0 : f[k] = step[k][f[k - 1]]
    OBVIOUS
  <2> HIDE DEF f
  <2>2. Good(0)
    BY <2>1
  <2> QED BY <2>2
<1>2. ASSUME NEW m \in Nat, m \in S PROVE m + 1 \in S
  <2> SUFFICES ASSUME m + 1 <= n PROVE Good(m + 1)
    OBVIOUS
  <2>1. PICK f \in [0..m -> V] : f[0] = base /\ \A k \in 1..m : f[k] = step[k][f[k - 1]]
    BY <1>2
  <2> DEFINE g == [k \in 0..m + 1 |-> IF k = m + 1 THEN step[m + 1][f[m]] ELSE f[k]]
  <2>2. f[m] \in V /\ m + 1 \in 1..n
    BY <2>1
  <2>3. step[m + 1][f[m]] \in V
    BY <2>2
  <2>4. g \in [0..m + 1 -> V] /\ g[0] = base
    BY <2>1, <2>3
  <2>5. \A k \in 1..m + 1 : g[k] = step[k][g[k - 1]]
    <3> TAKE k \in 1..m + 1
    <3>1. CASE k = m + 1
      <4>1. k - 1 = m /\ m \in 0..m + 1 /\ m # m + 1 /\ m + 1 \in 0..m + 1
        BY <3>1
      <4>2. g[m] = f[m] /\ g[m + 1] = step[m + 1][f[m]]
        BY <4>1
      <4> HIDE DEF g
      <4> QED BY <3>1, <4>1, <4>2
    <3>2. CASE k # m + 1
      <4>1. k \in 1..m /\ k - 1 \in 0..m /\ g[k] = f[k] /\ g[k - 1] = f[k - 1]
        BY <3>2
      <4> HIDE DEF g
      <4> QED BY <2>1, <4>1
    <3> QED BY <3>1, <3>2
  <2> HIDE DEF g
  <2> QED BY <2>4, <2>5
<1> HIDE DEF S
<1>3. Nat \subseteq S
  BY <1>1, <1>2, Induction
<1>4. n \in S
  BY <1>3
<1> QED BY <1>4 DEF S, Follows

Swapped(n, v, w) ==
  IF n.switches[w.at] = 1 THEN [v EXCEPT ![w.lo] = v[w.hi], ![w.hi] = v[w.lo]] ELSE v
Carried(n) ==
  LET from[k \in 0..Len(n.net)] ==
        IF k = 0 THEN [i \in Places(n) |-> i] ELSE Swapped(n, from[k - 1], n.net[k])
  IN from
\* The switches of each network are set for its permutation (genBenesRoute).
Routes == \A n \in Instances : \A i \in Places(n) : Carried(n)[Len(n.net)][i] = n.perm[i]

LEMMA CarriedIs ==
  ASSUME inst \in Instances
  PROVE  /\ Carried(inst)[0] = [i \in Places(inst) |-> i]
         /\ \A k \in 1..Len(inst.net) :
              Carried(inst)[k] = Swapped(inst, Carried(inst)[k - 1], inst.net[k])
         /\ Carried(inst) \in [0..Len(inst.net) -> [Places(inst) -> Places(inst)]]
<1> DEFINE V == [Places(inst) -> Places(inst)]
           base == [i \in Places(inst) |-> i]
           n == Len(inst.net)
           step == [k \in 1..n |-> [v \in V |-> Swapped(inst, v, inst.net[k])]]
<1>1. n \in Nat
  BY InstFacts
<1>2. base \in V
  OBVIOUS
<1>3. step \in [1..n -> [V -> V]]
  <2> SUFFICES ASSUME NEW k \in 1..n, NEW v \in V PROVE Swapped(inst, v, inst.net[k]) \in V
    OBVIOUS
  <2>1. inst.net[k].lo \in Places(inst) /\ inst.net[k].hi \in Places(inst)
    BY SwitchFacts DEF Switch
  <2> QED BY <2>1 DEF Swapped
<1> HIDE DEF V, base, n, step
<1>4. PICK f : Follows(f, n, V, base, step)
  BY <1>1, <1>2, <1>3, Recursion
<1> USE <1>4 DEF Follows
<1>5. \A k \in 1..n : f[k] = Swapped(inst, f[k - 1], inst.net[k])
  <2> SUFFICES ASSUME NEW k \in 1..n PROVE f[k] = Swapped(inst, f[k - 1], inst.net[k])
    OBVIOUS
  <2>1. f[k - 1] \in V
    BY <1>1, <1>4
  <2>2. step[k][f[k - 1]] = Swapped(inst, f[k - 1], inst.net[k])
    BY <2>1 DEF step
  <2> QED BY <1>4, <2>2
<1> DEFINE Is(g) == g = [k \in 0..n |-> IF k = 0 THEN base ELSE Swapped(inst, g[k - 1], inst.net[k])]
<1>6. Is(f)
  <2>1. \A k \in 0..n : f[k] = IF k = 0 THEN base ELSE Swapped(inst, f[k - 1], inst.net[k])
    BY <1>1, <1>4, <1>5
  <2> QED BY <1>4, <2>1
<1>7. Carried(inst) = CHOOSE g : Is(g)
  BY DEF Carried, base, n
<1>8. Is(Carried(inst))
  <2> HIDE DEF Is
  <2> QED BY <1>6, <1>7
<1>9. \A k \in 0..n : Carried(inst)[k] = IF k = 0 THEN base ELSE Swapped(inst, Carried(inst)[k - 1], inst.net[k])
  BY <1>8
<1>10. Carried(inst) = f
  <2>1. \A k \in Nat : k \in 0..n => Carried(inst)[k] = f[k]
    <3> DEFINE S == {k \in Nat : k \in 0..n => Carried(inst)[k] = f[k]}
    <3>1. 0 \in S
      BY <1>1, <1>4, <1>9
    <3>2. ASSUME NEW k \in Nat, k \in S PROVE k + 1 \in S
      <4> SUFFICES ASSUME k + 1 \in 0..n PROVE Carried(inst)[k + 1] = f[k + 1]
        OBVIOUS
      <4>1. k \in 0..n /\ k + 1 # 0 /\ (k + 1) - 1 = k /\ k + 1 \in 1..n
        BY <1>1
      <4>2. Carried(inst)[k] = f[k]
        BY <3>2, <4>1
      <4> QED BY <1>5, <1>9, <4>1, <4>2
    <3> HIDE DEF S
    <3>3. Nat \subseteq S
      BY <3>1, <3>2, Induction
    <3> QED BY <3>3 DEF S
  <2>2. \A k \in 0..n : Carried(inst)[k] = f[k]
    BY <1>1, <2>1
  <2>3. Carried(inst) = [k \in 0..n |-> Carried(inst)[k]]
    BY <1>8
  <2>4. f = [k \in 0..n |-> f[k]]
    BY <1>4
  <2> QED BY <2>2, <2>3, <2>4
<1> QED BY <1>1, <1>4, <1>9, <1>10 DEF base, n, V

\* What the values at the places are, all along the sender's walk.
CarriedInv == \A i \in Places(inst) : plain[i] = Input(Carried(inst)[passed][i])

LEMMA CarriedInit == Init => CarriedInv
<1> SUFFICES ASSUME Init, NEW i \in Places(inst) PROVE plain[i] = Input(Carried(inst)[passed][i])
  BY DEF CarriedInv
<1>1. inst \in Instances /\ passed = 0 /\ plain[i] = Input(i)
  BY DEF Init
<1>2. Carried(inst)[0][i] = i
  BY <1>1, CarriedIs
<1> QED BY <1>1, <1>2

LEMMA CarriedStep == TurnInv /\ WalkInv /\ CarriedInv /\ [Next]_vars => CarriedInv'
<1> SUFFICES ASSUME TurnInv, WalkInv, CarriedInv, [Next]_vars PROVE CarriedInv'
  OBVIOUS
<1>0. inst \in Instances
  BY DEF TurnInv
<1>1. inst' = inst
  BY DEF Next, SStart, RStart, GenOT, SSendBits, RTurn, RWalk, RSendCorr, RFinish, SCorrect,
         SCorrectBits, SShare, SWalk, SDone, Done, vars
<1>2. Carried(inst)' = Carried(inst)
  BY <1>1 DEF Carried, Swapped, Places
<1>3. CASE SWalk
  <2> DEFINE w == inst.net[passed + 1]
             v == Carried(inst)[passed]
  <2>1. /\ passed \in 0..Len(inst.net) /\ passed < Len(inst.net) /\ passed' = passed + 1
        /\ plain' = SwapIf(plain, w) /\ plain \in [Places(inst) -> Block]
    BY <1>3 DEF SWalk, WalkInv, Switch
  <2>2. Len(inst.net) \in Nat /\ passed + 1 \in 1..Len(inst.net) /\ (passed + 1) - 1 = passed
    BY <1>0, <2>1, InstFacts
  <2>3. w.lo \in Places(inst) /\ w.hi \in Places(inst) /\ w.lo # w.hi
    BY <1>0, <2>2, SwitchFacts DEF Switch
  <2>4. v \in [Places(inst) -> Places(inst)]
    BY <1>0, <2>1, CarriedIs
  <2>5. Carried(inst)[passed + 1] = Swapped(inst, v, w)
    BY <1>0, <2>2, CarriedIs
  <2>6. \A i \in Places(inst) : plain[i] = Input(v[i])
    BY DEF CarriedInv
  <2> HIDE DEF v, w
  <2>7. \A i \in Places(inst) : SwapIf(plain, w)[i] = Input(Swapped(inst, v, w)[i])
    BY <2>1, <2>3, <2>4, <2>6 DEF SwapIf, Swapped
  <2>8. \A i \in Places(inst) : plain'[i] = Input(Carried(inst)[passed'][i])
    BY <2>1, <2>5, <2>7
  <2> QED BY <1>1, <1>2, <2>8 DEF CarriedInv, Places
<1>4. CASE ~SWalk
  <2>1. passed' = passed /\ plain' = plain
    BY <1>4 DEF Next, SStart, RStart, GenOT, SSendBits, RTurn, RWalk, RSendCorr, RFinish, SCorrect,
         SCorrectBits, SShare, SDone, Done, vars, walkVars, senderVars
  <2>2. \A i \in Places(inst) : plain'[i] = Input(Carried(inst)[passed'][i])
    BY <2>1 DEF CarriedInv
  <2> QED BY <1>1, <1>2, <2>2 DEF CarriedInv, Places
<1> QED BY <1>3, <1>4

\* On every network routed for its permutation, whose switches are apart, with
\* every input, masks and OTs: when both sides return, the two shares of place i
\* add up to the input perm[i] (runPermAndShare).
THEOREM SharedHolds ==
  ASSUME Routes
  PROVE  Spec /\ SwitchesApart => []Shared
<1>1. FullInv /\ CarriedInv => Shared
  <2> SUFFICES ASSUME FullInv, CarriedInv, spc = "done", rpc = "done", NEW i \in Places(inst)
               PROVE  Xor(val[i], rshare[i]) = Input(inst.perm[i])
    BY DEF Shared
  <2>1. Xor(val[i], rshare[i]) = plain[i] /\ passed = Len(inst.net) /\ inst \in Instances
    BY DEF FullInv, IInv, TurnInv, TrailInv, WalkInv, SharedAlong
  <2> QED BY <2>1 DEF CarriedInv, Routes
<1>2. IInv /\ CarriedInv /\ [Next]_vars => CarriedInv'
  BY CarriedStep DEF IInv
<1>3. Spec => [](IInv /\ CarriedInv)
  BY <1>2, IInit, IStep, CarriedInit, PTL DEF Spec
<1> QED BY <1>1, <1>3, FullInvariance, PTL

(***************************************************************************)
(* The network of BenesNet, for every number of items from two on.         *)
(***************************************************************************)
\* Two functions that follow the same steps agree.
LEMMA FollowSame ==
  ASSUME NEW m \in Nat, NEW n \in Nat, NEW V, NEW base, NEW step, NEW f, NEW g, NEW h,
         Follows(f, m, V, base, step), Follows(g, n, V, base, h),
         \A k \in 1..m : k \in 1..n => h[k] = step[k]
  PROVE  \A k \in Nat : k <= m /\ k <= n => f[k] = g[k]
<1> DEFINE S == {k \in Nat : k <= m /\ k <= n => f[k] = g[k]}
<1>1. 0 \in S
  BY DEF Follows
<1>2. ASSUME NEW k \in Nat, k \in S PROVE k + 1 \in S
  <2> SUFFICES ASSUME k + 1 <= m, k + 1 <= n PROVE f[k + 1] = g[k + 1]
    OBVIOUS
  <2>1. f[k] = g[k] /\ k + 1 \in 1..m /\ k + 1 \in 1..n /\ (k + 1) - 1 = k
    BY <1>2
  <2>2. f[k + 1] = step[k + 1][f[k]] /\ g[k + 1] = h[k + 1][g[k]] /\ h[k + 1] = step[k + 1]
    BY <2>1 DEF Follows
  <2> QED BY <2>1, <2>2
<1> HIDE DEF S
<1>3. Nat \subseteq S
  BY <1>1, <1>2, Induction
<1> QED BY <1>3 DEF S

\* Pow2 unrolled.
LEMMA Pow2Is ==
  /\ Pow2 \in [Nat -> Nat] /\ Pow2[0] = 1
  /\ \A k \in Nat : Pow2[k + 1] = 2 * Pow2[k]
<1> DEFINE step(m) == [k \in 1..m |-> [v \in Nat |-> 2 * v]]
           F(m) == CHOOSE f : Follows(f, m, Nat, 1, step(m))
           p == [k \in Nat |-> F(k)[k]]
<1>1. ASSUME NEW m \in Nat PROVE Follows(F(m), m, Nat, 1, step(m))
  <2>1. step(m) \in [1..m -> [Nat -> Nat]]
    OBVIOUS
  <2> HIDE DEF step
  <2>2. \E f : Follows(f, m, Nat, 1, step(m))
    BY <2>1, Recursion
  <2> QED BY <2>2
<1> HIDE DEF F
<1>2. ASSUME NEW m \in Nat PROVE F(m) \in [0..m -> Nat] /\ F(m)[0] = 1 /\ F(m)[m] \in Nat
  BY <1>1 DEF Follows
<1>3. ASSUME NEW m \in Nat PROVE F(m + 1)[m + 1] = 2 * F(m)[m]
  <2>1. m + 1 \in Nat /\ m + 1 \in 1..m + 1 /\ (m + 1) - 1 = m /\ m \in 0..m + 1 /\ m <= m + 1
    OBVIOUS
  <2>2. F(m + 1)[m + 1] = step(m + 1)[m + 1][F(m + 1)[m]] /\ F(m + 1)[m] \in Nat
    <3> HIDE DEF step
    <3>1. Follows(F(m + 1), m + 1, Nat, 1, step(m + 1))
      BY <1>1, <2>1
    <3> QED BY <2>1, <3>1 DEF Follows
  <2>3. \A k \in 1..m : k \in 1..m + 1 => step(m + 1)[k] = step(m)[k]
    OBVIOUS
  <2>4. Follows(F(m), m, Nat, 1, step(m)) /\ Follows(F(m + 1), m + 1, Nat, 1, step(m + 1))
    <3> HIDE DEF step
    <3> QED BY <1>1, <2>1
  <2>5. F(m)[m] = F(m + 1)[m]
    <3> HIDE DEF step
    <3>1. \A k \in Nat : k <= m /\ k <= m + 1 => F(m)[k] = F(m + 1)[k]
      BY <2>1, <2>3, <2>4, FollowSame
    <3> QED BY <2>1, <3>1
  <2>6. step(m + 1)[m + 1][F(m + 1)[m]] = 2 * F(m + 1)[m]
    BY <2>1, <2>2
  <2> QED BY <2>2, <2>5, <2>6
<1>4. p \in [Nat -> Nat] /\ p[0] = 1
  BY <1>2
<1>5. \A k \in Nat : p[k + 1] = 2 * p[k]
  BY <1>3
<1> DEFINE Is(g) == g = [k \in Nat |-> IF k = 0 THEN 1 ELSE 2 * g[k - 1]]
<1>6. Is(p)
  <2> HIDE DEF p
  <2>1. ASSUME NEW k \in Nat PROVE p[k] = IF k = 0 THEN 1 ELSE 2 * p[k - 1]
    <3>1. CASE k = 0
      BY <1>4, <3>1
    <3>2. CASE k # 0
      <4>1. k - 1 \in Nat /\ (k - 1) + 1 = k
        BY <3>2
      <4> QED BY <1>5, <3>2, <4>1
    <3> QED BY <3>1, <3>2
  <2>2. p = [k \in Nat |-> p[k]]
    BY <1>4
  <2> QED BY <2>1, <2>2
<1>7. Pow2 = CHOOSE g : Is(g)
  BY DEF Pow2
<1>8. Is(Pow2)
  <2> HIDE DEF Is, p
  <2> QED BY <1>6, <1>7
<1>9. Pow2[0] = 1 /\ \A k \in Nat : Pow2[k + 1] = 2 * Pow2[k]
  <2>1. \A k \in Nat : Pow2[k] = IF k = 0 THEN 1 ELSE 2 * Pow2[k - 1]
    BY <1>8
  <2>2. \A k \in Nat : k + 1 \in Nat /\ k + 1 # 0 /\ (k + 1) - 1 = k
    OBVIOUS
  <2> QED BY <2>1, <2>2
<1>10. \A k \in Nat : Pow2[k] \in Nat
  <2> DEFINE S == {k \in Nat : Pow2[k] \in Nat}
  <2>1. 0 \in S /\ \A k \in Nat : k \in S => k + 1 \in S
    BY <1>9
  <2> HIDE DEF S
  <2>2. Nat \subseteq S
    BY <2>1, Induction
  <2> QED BY <2>2 DEF S
<1>11. Pow2 = [k \in Nat |-> Pow2[k]]
  BY <1>8
<1> QED BY <1>9, <1>10, <1>11

\* mLogN columns reach all n items.
LEMMA LogNIs ==
  ASSUME NEW n \in Nat, n >= 2
  PROVE  LogN(n) \in Nat /\ LogN(n) >= 1 /\ n <= Pow2[LogN(n)]
<1> DEFINE S == {k \in Nat : Pow2[k] >= k + 1}
           T == {k \in Nat : Pow2[k] >= n}
<1>1. 0 \in S /\ \A k \in Nat : k \in S => k + 1 \in S
  BY Pow2Is
<1> HIDE DEF S
<1>2. Nat \subseteq S
  BY <1>1, Induction
<1>3. n \in T
  <2>1. Pow2[n] >= n + 1 /\ Pow2[n] \in Nat
    BY <1>2, Pow2Is DEF S
  <2> QED BY <2>1
<1>4. PICK k \in T : \A j \in T : k <= j
  <2> HIDE DEF T
  <2>1. T \in SUBSET Nat
    BY DEF T
  <2> QED BY <1>3, <2>1, Least
<1>5. k \in 0..n /\ Pow2[k] >= n /\ \A j \in 0..k - 1 : Pow2[j] < n
  <2>1. k \in Nat /\ k <= n
    BY <1>3, <1>4
  <2>2. ASSUME NEW j \in 0..k - 1 PROVE Pow2[j] < n
    <3>1. j \in Nat /\ ~(k <= j)
      BY <2>1
    <3>2. j \notin T
      BY <1>4, <3>1
    <3>3. Pow2[j] \in Nat
      BY <3>1, Pow2Is
    <3> QED BY <3>1, <3>2, <3>3
  <2> QED BY <1>4, <2>1, <2>2
<1>6. LogN(n) \in 0..n /\ Pow2[LogN(n)] >= n
  BY <1>5 DEF LogN
<1>7. LogN(n) # 0
  BY <1>6, Pow2Is
<1> QED BY <1>6, <1>7

(***************************************************************************)
(* Entries of the switch matrix, and rectangles of them.                   *)
(***************************************************************************)
\* Half and a quarter of a size.
LEMMA HalfIs ==
  ASSUME NEW size \in Nat
  PROVE  /\ size \div 2 \in Nat /\ size - (size \div 2) \in Nat /\ size \div 4 \in Nat
         /\ 2 * (size \div 2) <= size /\ size <= 2 * (size \div 2) + 1
         /\ (size \div 2) \div 2 = size \div 4
         /\ size \div 4 + ((size - (size \div 2)) \div 2) <= size \div 2
         /\ 4 * (size \div 4) <= size
OBVIOUS

\* Row by row, the entries of different columns are different.
LEMMA AtApart ==
  ASSUME NEW n \in Nat, NEW c \in Nat, NEW d \in Nat, NEW i \in 0..Rows(n) - 1, NEW j \in 0..Rows(n) - 1,
         c # d \/ i # j
  PROVE  At(n, c, i) # At(n, d, j)
<1> DEFINE R == Rows(n)
<1>1. R \in Nat
  BY DEF Rows
<1>2. At(n, c, i) = c * R + i /\ At(n, d, j) = d * R + j
  BY DEF At
<1> HIDE DEF R
<1>3. \A a, b \in Nat : a < b => a * R + R <= b * R
  <2> SUFFICES ASSUME NEW a \in Nat, NEW b \in Nat, a < b PROVE a * R + R <= b * R
    OBVIOUS
  <2>1. PICK e \in Nat : b = a + 1 + e
    <3>1. b - a - 1 \in Nat /\ b = a + 1 + (b - a - 1)
      OBVIOUS
    <3> QED BY <3>1
  <2>2. b * R = a * R + R + e * R /\ e * R \in Nat /\ a * R \in Nat
    BY <1>1, <2>1
  <2> QED BY <1>1, <2>2
<1>4. c * R \in Nat /\ d * R \in Nat
  BY <1>1
<1>5. i \in 0..R - 1 /\ j \in 0..R - 1
  BY DEF R
<1> DEFINE x == c * R
           y == d * R
<1>6. (c < d => x + R <= y) /\ (d < c => y + R <= x) /\ (c = d => x = y)
  BY <1>3
<1> HIDE DEF x, y
<1>7. x + i # y + j
  BY <1>1, <1>4, <1>5, <1>6 DEF x, y
<1> QED BY <1>2, <1>7 DEF x, y

\* And they are entries of getSwitchesAsBitVec.
LEMMA AtInside ==
  ASSUME NEW n \in Nat, NEW m \in Nat, NEW c \in Nat, c < m, NEW i \in 0..Rows(n) - 1
  PROVE  At(n, c, i) \in 0..(m * Rows(n)) - 1
<1> DEFINE R == Rows(n)
<1>1. R \in Nat /\ i \in 0..R - 1
  BY DEF Rows
<1>2. At(n, c, i) = c * R + i
  BY DEF At
<1> HIDE DEF R
<1>3. PICK e \in Nat : m = c + 1 + e
  <2>1. m - c - 1 \in Nat /\ m = c + 1 + (m - c - 1)
    OBVIOUS
  <2> QED BY <2>1
<1>4. m * R = c * R + R + e * R /\ e * R \in Nat /\ c * R \in Nat
  BY <1>1, <1>3
<1>5. c * R + i \in 0..(m * R) - 1
  BY <1>1, <1>4
<1> QED BY <1>2, <1>5 DEF R

\* The entries of some columns from c on and of some rows from i on.
Rect(n, c, columns, i, rows) == {At(n, c + d, i + r) : d \in 0..columns - 1, r \in 0..rows - 1}

LEMMA RectInside ==
  ASSUME NEW n \in Nat, NEW c \in Nat, NEW columns \in Nat, NEW i \in Nat, NEW rows \in Nat,
         NEW c2 \in Nat, NEW columns2 \in Nat, NEW i2 \in Nat, NEW rows2 \in Nat,
         c2 <= c, c + columns <= c2 + columns2, i2 <= i, i + rows <= i2 + rows2
  PROVE  Rect(n, c, columns, i, rows) \subseteq Rect(n, c2, columns2, i2, rows2)
<1> SUFFICES ASSUME NEW d \in 0..columns - 1, NEW r \in 0..rows - 1
             PROVE  At(n, c + d, i + r) \in Rect(n, c2, columns2, i2, rows2)
  BY DEF Rect
<1> DEFINE e == c + d - c2
           s == i + r - i2
<1>1. e \in 0..columns2 - 1 /\ s \in 0..rows2 - 1 /\ c2 + e = c + d /\ i2 + s = i + r
  OBVIOUS
<1> HIDE DEF e, s
<1>2. At(n, c2 + e, i2 + s) \in Rect(n, c2, columns2, i2, rows2)
  BY <1>1 DEF Rect
<1> QED BY <1>1, <1>2

\* Rectangles with no column or no row in common.
LEMMA RectApart ==
  ASSUME NEW n \in Nat, NEW c \in Nat, NEW columns \in Nat, NEW i \in Nat, NEW rows \in Nat,
         NEW c2 \in Nat, NEW columns2 \in Nat, NEW i2 \in Nat, NEW rows2 \in Nat,
         i + rows <= Rows(n), i2 + rows2 <= Rows(n),
         c + columns <= c2 \/ c2 + columns2 <= c \/ i + rows <= i2
  PROVE  Rect(n, c, columns, i, rows) \cap Rect(n, c2, columns2, i2, rows2) = {}
<1>1. Rows(n) \in Nat
  BY DEF Rows
<1>2. ASSUME NEW x \in Rect(n, c, columns, i, rows), x \in Rect(n, c2, columns2, i2, rows2) PROVE FALSE
  <2>1. PICK d \in 0..columns - 1, r \in 0..rows - 1 : x = At(n, c + d, i + r)
    BY DEF Rect
  <2>2. PICK e \in 0..columns2 - 1, s \in 0..rows2 - 1 : x = At(n, c2 + e, i2 + s)
    BY <1>2 DEF Rect
  <2>3. /\ c + d \in Nat /\ c2 + e \in Nat /\ i + r \in 0..Rows(n) - 1 /\ i2 + s \in 0..Rows(n) - 1
        /\ c + d # c2 + e \/ i + r # i2 + s
    BY <1>1
  <2>4. At(n, c + d, i + r) # At(n, c2 + e, i2 + s)
    BY <2>3, AtApart
  <2> QED BY <2>1, <2>2, <2>4
<1> QED BY <1>2

(***************************************************************************)
(* Switches that have the entries E to themselves and swap places of W.    *)
(***************************************************************************)
Visits == [at : Int, lo : Nat, hi : Nat, last : BOOLEAN]
Own(s, E, W) ==
  /\ s \in Seq(Visits)
  /\ \A k \in 1..Len(s) : s[k].at \in E /\ s[k].lo \in W /\ s[k].hi \in W /\ s[k].lo # s[k].hi
  /\ \A j, k \in 1..Len(s) : j # k => s[j].at # s[k].at

LEMMA OwnMore ==
  ASSUME NEW s, NEW E, NEW W, Own(s, E, W), NEW E2, NEW W2, E \subseteq E2, W \subseteq W2
  PROVE  Own(s, E2, W2)
BY DEF Own

LEMMA OwnJoined ==
  ASSUME NEW s, NEW t, NEW E, NEW E2, NEW W, Own(s, E, W), Own(t, E2, W), E \cap E2 = {}
  PROVE  Own(s \o t, E \cup E2, W)
<1> DEFINE u == s \o t
           m == Len(s)
<1>1. s \in Seq(Visits) /\ t \in Seq(Visits)
  BY DEF Own
<1>2. m \in Nat /\ Len(t) \in Nat
  BY <1>1
<1>3. u \in Seq(Visits) /\ Len(u) = m + Len(t)
  BY <1>1
<1>4. \A k \in 1..Len(u) : u[k] = IF k <= m THEN s[k] ELSE t[k - m]
  BY <1>1, ConcatProperties
<1> HIDE DEF u, m
<1>5. ASSUME NEW k \in 1..Len(u)
      PROVE  \/ k \in 1..m /\ u[k] = s[k]
             \/ k - m \in 1..Len(t) /\ u[k] = t[k - m] /\ k > m
  BY <1>2, <1>3, <1>4
<1>6. \A k \in 1..m : s[k].at \in E /\ s[k].lo \in W /\ s[k].hi \in W /\ s[k].lo # s[k].hi
  BY DEF Own, m
<1>7. \A k \in 1..Len(t) : t[k].at \in E2 /\ t[k].lo \in W /\ t[k].hi \in W /\ t[k].lo # t[k].hi
  BY DEF Own
<1>8. ASSUME NEW k \in 1..Len(u)
      PROVE  u[k].at \in E \cup E2 /\ u[k].lo \in W /\ u[k].hi \in W /\ u[k].lo # u[k].hi
  BY <1>5, <1>6, <1>7
<1>9. ASSUME NEW j \in 1..Len(u), NEW k \in 1..Len(u), j # k PROVE u[j].at # u[k].at
  <2>1. CASE j \in 1..m /\ u[j] = s[j] /\ k \in 1..m /\ u[k] = s[k]
    BY <1>9, <2>1 DEF Own, m
  <2>2. CASE j \in 1..m /\ u[j] = s[j] /\ k - m \in 1..Len(t) /\ u[k] = t[k - m]
    BY <1>6, <1>7, <2>2
  <2>3. CASE j - m \in 1..Len(t) /\ u[j] = t[j - m] /\ k \in 1..m /\ u[k] = s[k]
    BY <1>6, <1>7, <2>3
  <2>4. CASE j - m \in 1..Len(t) /\ u[j] = t[j - m] /\ k - m \in 1..Len(t) /\ u[k] = t[k - m]
    <3>1. j - m # k - m
      BY <1>2, <1>3, <1>9
    <3> QED BY <2>4, <3>1 DEF Own
  <2> QED BY <1>5, <2>1, <2>2, <2>3, <2>4
<1>10. Own(u, E \cup E2, W)
  BY <1>3, <1>8, <1>9 DEF Own
<1> QED BY <1>10 DEF u

(***************************************************************************)
(* The halves, one level, and the recursion.                               *)
(***************************************************************************)
Values(w) == {w[i] : i \in 1..Len(w)}
Distinct(w) == \A i, j \in 1..Len(w) : i # j => w[i] # w[j]

\* Of the two places of a switch one goes to the bottom half and the other to the
\* top, so a half can be listed switch by switch (BottomOf, TopOf).
LEMMA NeighboursPart ==
  ASSUME NEW size \in Nat, NEW k \in Nat, k >= 1, size <= Pow2[k],
         NEW i \in Nat, i % 2 = 0, i + 1 < size
  PROVE  ToBottom(i, k, size) /\ ~ToBottom(i + 1, k, size)
<1>1. Pow2[k] = 2 * Pow2[k - 1] /\ Pow2[k - 1] \in Nat
  <2>1. k - 1 \in Nat /\ (k - 1) + 1 = k
    OBVIOUS
  <2> QED BY <2>1, Pow2Is
<1>2. (i + 1) % 2 = 1 /\ (i + 1) \div 2 \in Nat /\ i \div 2 < size \div 2
  OBVIOUS
<1> DEFINE p == Pow2[k - 1]
<1> HIDE DEF p
<1>3. p \in Nat /\ size <= 2 * p
  BY <1>1 DEF p
<1>4. size \div 2 <= p
  BY <1>3
<1>5. Shuffle(i, k) = i \div 2
  <2>1. 0 * p = 0
    BY <1>3
  <2> QED BY <1>2, <2>1 DEF Shuffle, p
<1>6. Shuffle(i + 1, k) = p + ((i + 1) \div 2)
  <2>1. 1 * p = p
    BY <1>3
  <2> QED BY <1>2, <2>1 DEF Shuffle, p
<1> QED BY <1>2, <1>3, <1>4, <1>5, <1>6 DEF ToBottom

\* The halves have the places of wires, each once.
LEMMA HalvesAre ==
  ASSUME NEW w \in Seq(Nat), NEW k
  PROVE  /\ BottomOf(w, k) \in Seq(Nat) /\ Len(BottomOf(w, k)) = Len(w) \div 2
         /\ TopOf(w, k) \in Seq(Nat) /\ Len(TopOf(w, k)) = Len(w) - (Len(w) \div 2)
         /\ Values(BottomOf(w, k)) \subseteq Values(w) /\ Values(TopOf(w, k)) \subseteq Values(w)
         /\ Distinct(w) => Distinct(BottomOf(w, k)) /\ Distinct(TopOf(w, k))
<1> DEFINE n == Len(w)
           half == n \div 2
           low == [x \in 1..half |-> 2 * x - 1 + Lower(2 * x - 2, k, n)]
           high == [x \in 1..n - half |-> IF x <= half THEN 2 * x - Lower(2 * x - 2, k, n) ELSE n]
           b == BottomOf(w, k)
           t == TopOf(w, k)
<1>1. n \in Nat /\ half \in Nat /\ n - half \in Nat /\ 2 * half <= n /\ n <= 2 * half + 1 /\ n - half >= half
      /\ \A i \in 1..n : w[i] \in Nat
  OBVIOUS
<1>2. \A i : Lower(i, k, n) \in 0..1
  BY DEF Lower
<1> HIDE DEF n, half
<1>3. ASSUME NEW x \in 1..half PROVE low[x] \in 1..n /\ low[x] >= 2 * x - 1 /\ low[x] <= 2 * x
  <2>1. low[x] = 2 * x - 1 + Lower(2 * x - 2, k, n) /\ Lower(2 * x - 2, k, n) \in 0..1
    BY <1>2
  <2> HIDE DEF low
  <2> QED BY <1>1, <2>1
<1>4. ASSUME NEW x \in 1..n - half
      PROVE  high[x] \in 1..n /\ (x <= half => high[x] >= 2 * x - 1 /\ high[x] <= 2 * x) /\ (x > half => high[x] = 2 * x - 1)
  <2>1. high[x] = IF x <= half THEN 2 * x - Lower(2 * x - 2, k, n) ELSE n
    OBVIOUS
  <2>2. Lower(2 * x - 2, k, n) \in 0..1
    BY <1>2
  <2> HIDE DEF high
  <2> QED BY <1>1, <2>1, <2>2
<1>5. b = [x \in 1..half |-> w[low[x]]]
  BY DEF BottomOf, n, half
<1>6. t = [x \in 1..n - half |-> w[high[x]]]
  <2>1. t = [x \in 1..n - half |-> IF x <= half THEN w[2 * x - Lower(2 * x - 2, k, n)] ELSE w[n]]
    BY DEF TopOf, n, half
  <2> HIDE DEF t
  <2> QED BY <2>1
<1> HIDE DEF low, high, b, t
<1>7. b \in Seq(Nat) /\ Len(b) = half /\ t \in Seq(Nat) /\ Len(t) = n - half
  BY <1>1, <1>3, <1>4, <1>5, <1>6
<1>8. Values(b) \subseteq Values(w) /\ Values(t) \subseteq Values(w)
  BY <1>3, <1>4, <1>5, <1>6, <1>7 DEF Values, n
<1>9. ASSUME Distinct(w) PROVE Distinct(b) /\ Distinct(t)
  <2>1. ASSUME NEW i \in 1..half, NEW j \in 1..half, i # j PROVE low[i] # low[j]
    <3>1. low[i] \in Int /\ low[i] >= 2 * i - 1 /\ low[i] <= 2 * i
      BY <1>1, <1>3
    <3>2. low[j] \in Int /\ low[j] >= 2 * j - 1 /\ low[j] <= 2 * j
      BY <1>1, <1>3
    <3> QED BY <1>1, <2>1, <3>1, <3>2
  <2>2. ASSUME NEW i \in 1..n - half, NEW j \in 1..n - half, i # j PROVE high[i] # high[j]
    <3>1. high[i] \in Int /\ high[i] >= 2 * i - 1 /\ high[i] <= 2 * i
      BY <1>1, <1>4
    <3>2. high[j] \in Int /\ high[j] >= 2 * j - 1 /\ high[j] <= 2 * j
      BY <1>1, <1>4
    <3> QED BY <1>1, <2>2, <3>1, <3>2
  <2>3. \A i, j \in 1..n : i # j => w[i] # w[j]
    BY <1>9 DEF Distinct, n
  <2>4. Distinct(b)
    <3>1. \A i \in 1..half : b[i] = w[low[i]] /\ low[i] \in 1..n
      BY <1>3, <1>5
    <3> SUFFICES ASSUME NEW i \in 1..half, NEW j \in 1..half, i # j PROVE b[i] # b[j]
      BY <1>7 DEF Distinct
    <3>2. low[i] # low[j]
      BY <2>1
    <3> QED BY <2>3, <3>1, <3>2
  <2>5. Distinct(t)
    <3>1. \A i \in 1..n - half : t[i] = w[high[i]] /\ high[i] \in 1..n
      BY <1>4, <1>6
    <3> SUFFICES ASSUME NEW i \in 1..n - half, NEW j \in 1..n - half, i # j PROVE t[i] # t[j]
      BY <1>7 DEF Distinct
    <3>2. high[i] # high[j]
      BY <2>2
    <3> QED BY <2>3, <3>1, <3>2
  <2> QED BY <2>4, <2>5
<1> QED BY <1>7, <1>8, <1>9 DEF n, half, b, t

LEMMA ColumnIn ==
  ASSUME NEW n \in Nat, NEW column \in Int, NEW i \in Nat, NEW w \in Seq(Nat), NEW last \in BOOLEAN
  PROVE  /\ Column(n, column, i, w, last) \in Seq(Visits)
         /\ Len(Column(n, column, i, w, last)) = Len(w) \div 2
<1>1. Len(w) \in Nat /\ Len(w) \div 2 \in Nat /\ 2 * (Len(w) \div 2) <= Len(w) /\ \A k \in 1..Len(w) : w[k] \in Nat
  OBVIOUS
<1>2. Rows(n) \in Int
  BY DEF Rows
<1>3. ASSUME NEW r \in Int PROVE At(n, column, r) \in Int
  BY <1>2 DEF At
<1>4. ASSUME NEW x \in 1..Len(w) \div 2
      PROVE  Visit(n, column, i + x - 1, w, 2 * x - 1, 2 * x, last) \in Visits
  <2>1. 2 * x - 1 \in 1..Len(w) /\ 2 * x \in 1..Len(w) /\ i + x - 1 \in Int
    BY <1>1
  <2>2. w[2 * x - 1] \in Nat /\ w[2 * x] \in Nat /\ At(n, column, i + x - 1) \in Int
    BY <1>1, <1>3, <2>1
  <2> QED BY <2>2 DEF Visits, Visit
<1> QED BY <1>1, <1>4 DEF Column

LEMMA ColumnOwn ==
  ASSUME NEW n \in Nat, NEW column \in Nat, NEW i \in Nat, NEW w \in Seq(Nat), NEW last \in BOOLEAN,
         Distinct(w), i + (Len(w) \div 2) <= Rows(n)
  PROVE  Own(Column(n, column, i, w, last), Rect(n, column, 1, i, Len(w) \div 2), Values(w))
<1> DEFINE c == Column(n, column, i, w, last)
           half == Len(w) \div 2
<1>1. Len(w) \in Nat /\ half \in Nat /\ 2 * half <= Len(w)
  OBVIOUS
<1>2. c \in Seq(Visits) /\ Len(c) = half
  <2>1. column \in Int
    OBVIOUS
  <2> QED BY <2>1, ColumnIn
<1>3. ASSUME NEW x \in 1..half
      PROVE  c[x].at = At(n, column, i + x - 1) /\ c[x].lo = w[2 * x - 1] /\ c[x].hi = w[2 * x]
  BY DEF Column, Visit
<1> HIDE DEF c
<1>4. ASSUME NEW x \in 1..half
      PROVE  c[x].at \in Rect(n, column, 1, i, half) /\ c[x].lo \in Values(w) /\ c[x].hi \in Values(w) /\ c[x].lo # c[x].hi
  <2>1. 2 * x - 1 \in 1..Len(w) /\ 2 * x \in 1..Len(w) /\ 2 * x - 1 # 2 * x
    BY <1>1
  <2>2. x - 1 \in 0..half - 1 /\ 0 \in 0..1 - 1 /\ column + 0 = column /\ i + (x - 1) = i + x - 1
    BY <1>1
  <2>3. At(n, column + 0, i + (x - 1)) \in Rect(n, column, 1, i, half)
    BY <2>2 DEF Rect
  <2>4. w[2 * x - 1] # w[2 * x] /\ w[2 * x - 1] \in Values(w) /\ w[2 * x] \in Values(w)
    BY <2>1 DEF Distinct, Values
  <2> QED BY <1>3, <2>2, <2>3, <2>4
<1>5. ASSUME NEW x \in 1..half, NEW y \in 1..half, x # y PROVE c[x].at # c[y].at
  <2>1. Rows(n) \in Nat
    BY DEF Rows
  <2>2. i + x - 1 \in 0..Rows(n) - 1 /\ i + y - 1 \in 0..Rows(n) - 1 /\ i + x - 1 # i + y - 1
    BY <1>1, <1>5, <2>1
  <2>3. At(n, column, i + x - 1) # At(n, column, i + y - 1)
    BY <2>2, AtApart
  <2> QED BY <1>3, <2>3
<1> QED BY <1>2, <1>4, <1>5 DEF Own, c

Args == Nat \X Seq(Nat)

\* The three kinds of a level.
LEMMA LevelIs ==
  ASSUME NEW n, NEW c, NEW p, NEW w, NEW inner
  PROVE  /\ Len(w) = 2 => Level(n, c, p, w, inner) = OnTwo(n, c, p, w)
         /\ Len(w) = 3 => Level(n, c, p, w, inner) = OnThree(n, c, p, w)
         /\ Len(w) # 2 /\ Len(w) # 3 => Level(n, c, p, w, inner) = OnMore(n, c, p, w, inner)
<1>1. 2 # 3
  OBVIOUS
<1> QED BY <1>1 DEF Level

LEMMA VisitIn ==
  ASSUME NEW n \in Nat, NEW column \in Int, NEW row \in Nat, NEW w \in Seq(Nat), NEW lo \in 1..Len(w), NEW hi \in 1..Len(w),
         NEW last \in BOOLEAN
  PROVE  Visit(n, column, row, w, lo, hi, last) \in Visits
<1>1. Rows(n) \in Int /\ w[lo] \in Nat /\ w[hi] \in Nat
  BY DEF Rows
<1>2. At(n, column, row) \in Int
  BY <1>1 DEF At
<1> QED BY <1>1, <1>2 DEF Visit, Visits

LEMMA LevelIn ==
  ASSUME NEW n \in Nat, n >= 2, NEW c \in Nat, NEW a \in Args, NEW inner \in [Args -> Seq(Visits)]
  PROVE  Level(n, c, a[1], a[2], inner) \in Seq(Visits)
<1> DEFINE p == a[1]
           w == a[2]
           depth == Depth(n, c)
           s == Level(n, c, p, w, inner)
<1>1. p \in Nat /\ w \in Seq(Nat) /\ Len(w) \in Nat /\ depth \in Int
  BY LogNIs DEF Args, Depth
<1> HIDE DEF p, w, depth, s
<1>2. CASE Len(w) = 2
  <2> DEFINE v == Visit(n, depth + (IF c = 1 THEN 0 ELSE 1), p, w, 1, 2, FALSE)
  <2>1. s = <<v>>
    BY <1>2, LevelIs DEF s, depth, OnTwo
  <2>2. depth + (IF c = 1 THEN 0 ELSE 1) \in Int /\ 1 \in 1..Len(w) /\ 2 \in 1..Len(w)
    BY <1>1, <1>2
  <2>3. v \in Visits
    BY <1>1, <2>2, VisitIn
  <2> HIDE DEF v
  <2>4. s \in Seq(Visits)
    BY <2>1, <2>3
  <2> QED BY <2>4 DEF s, p, w
<1>3. CASE Len(w) = 3
  <2> DEFINE v1 == Visit(n, depth, p, w, 1, 2, FALSE)
             v2 == Visit(n, depth + 1, p, w, 2, 3, FALSE)
             v3 == Visit(n, depth + 2, p, w, 1, 2, FALSE)
  <2>1. s = <<v1, v2, v3>>
    BY <1>3, LevelIs DEF s, depth, OnThree
  <2>2. depth + 1 \in Int /\ depth + 2 \in Int /\ 1 \in 1..Len(w) /\ 2 \in 1..Len(w) /\ 3 \in 1..Len(w)
    BY <1>1, <1>3
  <2>3. v1 \in Visits /\ v2 \in Visits /\ v3 \in Visits
    BY <1>1, <2>2, VisitIn
  <2> HIDE DEF v1, v2, v3
  <2>4. s \in Seq(Visits)
    BY <2>1, <2>3
  <2> QED BY <2>4 DEF s, p, w
<1>4. CASE Len(w) # 2 /\ Len(w) # 3
  <2> DEFINE c1 == Column(n, depth, p, w, FALSE)
             c2 == Column(n, depth + 2 * c - 2, p, w, TRUE)
             s1 == inner[<<p, BottomOf(w, c)>>]
             s2 == inner[<<TopRow(p, Len(w)), TopOf(w, c)>>]
  <2>1. s = ((c1 \o s1) \o s2) \o c2
    BY <1>4, LevelIs DEF s, depth, OnMore
  <2>2. c1 \in Seq(Visits) /\ c2 \in Seq(Visits)
    <3>1. depth + 2 * c - 2 \in Int /\ FALSE \in BOOLEAN /\ TRUE \in BOOLEAN
      BY <1>1
    <3> QED BY <1>1, <3>1, ColumnIn
  <2>3. TopRow(p, Len(w)) \in Nat
    BY <1>1 DEF TopRow
  <2>4. BottomOf(w, c) \in Seq(Nat) /\ TopOf(w, c) \in Seq(Nat)
    BY <1>1, HalvesAre
  <2>5. s1 \in Seq(Visits) /\ s2 \in Seq(Visits)
    BY <1>1, <2>3, <2>4 DEF Args
  <2> HIDE DEF c1, c2, s1, s2
  <2>6. ((c1 \o s1) \o s2) \o c2 \in Seq(Visits)
    <3>1. c1 \o s1 \in Seq(Visits)
      BY <2>2, <2>5
    <3>2. (c1 \o s1) \o s2 \in Seq(Visits)
      BY <2>5, <3>1
    <3> QED BY <2>2, <3>2
  <2> QED BY <2>1, <2>6 DEF s, p, w
<1> QED BY <1>2, <1>3, <1>4

\* The recursion unrolled.
LEMMA SubnetIs ==
  ASSUME NEW n \in Nat, n >= 2
  PROVE  \A c \in 0..LogN(n) : Subnet(n)[c] =
           [a \in Args |-> IF c = 0 THEN <<>> ELSE Level(n, c, a[1], a[2], Subnet(n)[c - 1])]
<1> DEFINE V == [Args -> Seq(Visits)]
           base == [a \in Args |-> <<>>]
           m == LogN(n)
           step == [c \in 1..m |-> [v \in V |-> [a \in Args |-> Level(n, c, a[1], a[2], v)]]]
<1>1. m \in Nat
  BY LogNIs
<1>2. base \in V
  <2>1. <<>> \in Seq(Visits)
    OBVIOUS
  <2> QED BY <2>1
<1>3. step \in [1..m -> [V -> V]]
  <2> SUFFICES ASSUME NEW c \in 1..m, NEW v \in V, NEW a \in Args PROVE Level(n, c, a[1], a[2], v) \in Seq(Visits)
    OBVIOUS
  <2>1. c \in Nat
    BY <1>1
  <2> QED BY <2>1, LevelIn
<1> HIDE DEF V, base, m, step
<1>4. PICK f : Follows(f, m, V, base, step)
  BY <1>1, <1>2, <1>3, Recursion
<1>5. f \in [0..m -> V] /\ f[0] = base /\ \A c \in 1..m : f[c] = step[c][f[c - 1]]
  BY <1>4 DEF Follows
<1> DEFINE Body(g, c) == [a \in Nat \X Seq(Nat) |-> IF c = 0 THEN <<>> ELSE Level(n, c, a[1], a[2], g[c - 1])]
           Is(g) == g = [c \in 0..m |-> Body(g, c)]
<1>6. ASSUME NEW c \in 0..m PROVE f[c] = Body(f, c)
  <2>1. CASE c = 0
    BY <1>5, <2>1 DEF base, Args
  <2>2. CASE c # 0
    <3>1. c \in 1..m /\ c - 1 \in 0..m
      BY <1>1, <2>2
    <3>2. f[c - 1] \in V
      BY <1>5, <3>1
    <3>3. step[c][f[c - 1]] = [a \in Args |-> Level(n, c, a[1], a[2], f[c - 1])]
      BY <3>1, <3>2 DEF step
    <3>4. f[c] = [a \in Args |-> Level(n, c, a[1], a[2], f[c - 1])]
      BY <1>5, <3>1, <3>3
    <3>5. Body(f, c) = [a \in Args |-> Level(n, c, a[1], a[2], f[c - 1])]
      BY <2>2 DEF Args
    <3> QED BY <3>4, <3>5
  <2> QED BY <2>1, <2>2
<1>7. Is(f)
  <2> HIDE DEF Body
  <2>1. f = [c \in 0..m |-> f[c]]
    BY <1>5
  <2> QED BY <1>6, <2>1
<1>8. Subnet(n) = CHOOSE g : Is(g)
  BY DEF Subnet, m
<1>9. Is(Subnet(n))
  <2> HIDE DEF Is
  <2> QED BY <1>7, <1>8
<1>10. \A c \in 0..m : Subnet(n)[c] = Body(Subnet(n), c)
  <2> HIDE DEF Body
  <2> QED BY <1>9
<1> QED BY <1>10 DEF m, Args

\* A subnetwork on the places w with coDepth c, from row p on, and its entries.
Fits(n, c, p, w) ==
  /\ p \in Nat /\ w \in Seq(Nat) /\ Distinct(w)
  /\ Len(w) >= 2 /\ Len(w) <= Pow2[c] /\ p + (Len(w) \div 2) <= Rows(n)
Area(n, c, p, w) == Rect(n, Depth(n, c), 2 * c - 1, p, Len(w) \div 2)

\* A column of the subnetwork.
OneOf(n, c, column) == column \in Nat /\ column >= Depth(n, c) /\ column <= Depth(n, c) + 2 * c - 2

Reads(n, c, p, w, column, lo, hi) ==
  /\ n \in Nat /\ c \in Nat /\ Fits(n, c, p, w) /\ Depth(n, c) \in Nat /\ OneOf(n, c, column)
  /\ lo \in 1..Len(w) /\ hi \in 1..Len(w) /\ lo # hi
OwnVisit(v, n, c, p, w, column) ==
  /\ v \in Visits /\ v.at = At(n, column, p) /\ v.at \in Area(n, c, p, w)
  /\ v.lo \in Values(w) /\ v.hi \in Values(w) /\ v.lo # v.hi

LEMMA VisitOwn ==
  ASSUME NEW n, NEW c, NEW p, NEW w, NEW column, NEW lo, NEW hi, Reads(n, c, p, w, column, lo, hi)
  PROVE  OwnVisit(Visit(n, column, p, w, lo, hi, FALSE), n, c, p, w, column)
<1> DEFINE d == Depth(n, c)
           v == Visit(n, column, p, w, lo, hi, FALSE)
           e == column - d
<1>1. /\ p \in Nat /\ w \in Seq(Nat) /\ Len(w) \div 2 >= 1 /\ Len(w) \div 2 \in Nat /\ FALSE \in BOOLEAN
      /\ w[lo] # w[hi] /\ w[lo] \in Values(w) /\ w[hi] \in Values(w) /\ column \in Int /\ d \in Nat
      /\ e \in 0..(2 * c - 1) - 1 /\ d + e = column
  <2>1. p \in Nat /\ w \in Seq(Nat) /\ Distinct(w) /\ Len(w) >= 2 /\ Len(w) \in Nat
    BY DEF Reads, Fits
  <2>2. Len(w) \div 2 >= 1 /\ Len(w) \div 2 \in Nat
    BY <2>1
  <2>3. w[lo] # w[hi] /\ w[lo] \in Values(w) /\ w[hi] \in Values(w)
    BY <2>1 DEF Reads, Distinct, Values
  <2>4. column \in Int /\ d \in Nat /\ e \in 0..(2 * c - 1) - 1 /\ d + e = column
    BY DEF Reads, OneOf
  <2> QED BY <2>1, <2>2, <2>3, <2>4
<1>b. n \in Nat /\ c \in Nat /\ lo \in 1..Len(w) /\ hi \in 1..Len(w)
  BY DEF Reads
<1> HIDE DEF d, e
<1>2. v \in Visits
  BY <1>1, <1>b, VisitIn
<1>3. v.at = At(n, column, p) /\ v.lo = w[lo] /\ v.hi = w[hi]
  BY DEF Visit
<1> DEFINE columns == 2 * c - 1
           rows == Len(w) \div 2
<1>a. 0 \in 0..rows - 1 /\ e \in 0..columns - 1
  BY <1>1, <1>b
<1> HIDE DEF columns, rows
<1>4. At(n, d + e, p + 0) \in Rect(n, d, columns, p, rows)
  BY <1>a DEF Rect
<1>5. p + 0 = p
  BY <1>1
<1> HIDE DEF v
<1>6. v.at \in Area(n, c, p, w)
  BY <1>1, <1>3, <1>4, <1>5 DEF Area, d, columns, rows
<1> QED BY <1>1, <1>2, <1>3, <1>6 DEF v, OwnVisit

\* What inner is for the coDepth below.
InnerOwn(n, c, inner) ==
  \A q, v : Fits(n, c, q, v) => Own(inner[<<q, v>>], Area(n, c, q, v), Values(v))

\* The arithmetic of the two halves of a subnetwork.
HalvesOf(size, c, d, p, R, half, power, top, q, h1, h2, e, g, k, m) ==
  /\ size \in Nat /\ size >= 4 /\ c \in Nat /\ c >= 2 /\ d \in Nat /\ p \in Nat /\ R \in Nat
  /\ half = size \div 2 /\ p + half <= R /\ power \in Nat /\ size <= 2 * power
  /\ top = size - half /\ q = p + (size \div 4) /\ h1 = half \div 2 /\ h2 = top \div 2
  /\ e = d + 1 /\ g = d + 2 * c - 2 /\ k = 2 * c - 1 /\ m = 2 * (c - 1) - 1
HalvesFit(d, p, R, half, power, top, q, h1, h2, e, g, k, m) ==
  /\ half \in Nat /\ top \in Nat /\ half >= 2 /\ half <= power /\ top >= 2 /\ top <= power
  /\ e \in Nat /\ g \in Nat /\ m \in Nat /\ k \in Nat /\ h1 \in Nat /\ h2 \in Nat /\ q \in Nat
  /\ p + h1 <= R /\ q + h2 <= R
  /\ d + 1 <= e /\ e + m <= g /\ d + 1 <= g /\ p + h1 <= q
  /\ d + 1 <= d + k /\ d <= e /\ p <= q
  /\ e + m <= d + k /\ p + h1 <= p + half /\ q + h2 <= p + half /\ d <= g /\ g + 1 <= d + k

LEMMA LevelSizes ==
  ASSUME NEW size, NEW c, NEW d, NEW p, NEW R, NEW half, NEW power, NEW top, NEW q, NEW h1, NEW h2,
         NEW e, NEW g, NEW k, NEW m, HalvesOf(size, c, d, p, R, half, power, top, q, h1, h2, e, g, k, m)
  PROVE  HalvesFit(d, p, R, half, power, top, q, h1, h2, e, g, k, m)
<1> USE DEF HalvesOf
<1>1. /\ half \in Nat /\ top \in Nat /\ 2 * half <= size /\ size <= 2 * half + 1 /\ h1 \in Nat /\ h2 \in Nat
      /\ h1 = size \div 4 /\ (size \div 4) + h2 <= half /\ size \div 4 \in Nat /\ h1 <= half
  OBVIOUS
<1>2. e \in Nat /\ g \in Nat /\ m \in Nat /\ k \in Nat /\ e + m <= g /\ d + 1 <= g /\ e + m <= d + k /\ d <= g /\ g + 1 <= d + k
      /\ d + 1 <= e /\ d <= e /\ d + 1 <= d + k
  OBVIOUS
<1>3. half >= 2 /\ half <= power /\ top >= 2 /\ top <= power
  BY <1>1
<1>4. q \in Nat /\ p + h1 <= R /\ q + h2 <= R /\ p + h1 <= q /\ p <= q /\ p + h1 <= p + half /\ q + h2 <= p + half
  BY <1>1
<1> QED BY <1>1, <1>2, <1>3, <1>4 DEF HalvesFit

LEMMA AtLeastFour == \A x \in Nat : x >= 2 /\ x # 2 /\ x # 3 => x >= 4
OBVIOUS

LEMMA LevelOwn ==
  ASSUME NEW n \in Nat, n >= 2, NEW c \in 1..LogN(n), NEW p, NEW w, Fits(n, c, p, w), NEW inner, InnerOwn(n, c - 1, inner)
  PROVE  Own(Level(n, c, p, w, inner), Area(n, c, p, w), Values(w))
<1> DEFINE d == Depth(n, c)
           s == Level(n, c, p, w, inner)
           half == Len(w) \div 2
<1>1. c \in Nat /\ c >= 1 /\ c - 1 \in Nat /\ d \in Nat /\ Depth(n, c - 1) = d + 1
  BY LogNIs DEF Depth
<1>2. /\ p \in Nat /\ w \in Seq(Nat) /\ Distinct(w) /\ Len(w) \in Nat
      /\ Len(w) >= 2 /\ Len(w) <= Pow2[c] /\ p + half <= Rows(n) /\ Rows(n) \in Nat
  BY DEF Fits, Rows
<1>3. /\ half \in Nat /\ Len(w) - half \in Nat /\ Len(w) \div 4 \in Nat /\ 2 * half <= Len(w) /\ Len(w) <= 2 * half + 1
      /\ half \div 2 = Len(w) \div 4 /\ Len(w) \div 4 + ((Len(w) - half) \div 2) <= half
      /\ 4 * (Len(w) \div 4) <= Len(w) /\ (Len(w) - half) \div 2 \in Nat
  <2>1. (Len(w) - half) \in Nat
    BY <1>2
  <2> HIDE DEF half
  <2>2. (Len(w) - half) \div 2 \in Nat
    BY <2>1
  <2> USE DEF half
  <2> QED BY <1>2, <2>2, HalfIs
<1>4. Pow2[c] = 2 * Pow2[c - 1] /\ Pow2[c - 1] \in Nat
  <2>1. (c - 1) + 1 = c
    BY <1>1
  <2> QED BY <1>1, <2>1, Pow2Is
<1>5. Len(w) > 2 => c >= 2
  <2>1. c = 1 => Pow2[c - 1] = 1
    BY <1>1, Pow2Is
  <2> QED BY <1>1, <1>2, <1>4, <2>1
<1>a. c \in Nat /\ Depth(n, c) \in Nat
  BY <1>1
<1>b. Len(w) \in Nat /\ Len(w) >= 2
  BY <1>2
<1> HIDE DEF d, s, half
<1>6. CASE Len(w) = 2
  <2> DEFINE column == d + (IF c = 1 THEN 0 ELSE 1)
             v == Visit(n, column, p, w, 1, 2, FALSE)
  <2>1. s = <<v>>
    BY <1>6, LevelIs DEF s, d, OnTwo
  <2>2. OneOf(n, c, column) /\ 1 \in 1..Len(w) /\ 2 \in 1..Len(w) /\ 1 # 2
    BY <1>1, <1>6 DEF OneOf, d
  <2>a. Reads(n, c, p, w, column, 1, 2)
    BY <1>a, <2>2 DEF Reads
  <2> HIDE DEF column
  <2>b. OwnVisit(v, n, c, p, w, column)
    BY <2>a, VisitOwn
  <2> HIDE DEF v
  <2>3. v \in Visits /\ v.at \in Area(n, c, p, w) /\ v.lo \in Values(w) /\ v.hi \in Values(w) /\ v.lo # v.hi
    BY <2>b DEF OwnVisit
  <2>4. s \in Seq(Visits) /\ Len(s) = 1 /\ s[1] = v
    BY <2>1, <2>3
  <2>5. \A k \in 1..Len(s) : k = 1
    BY <2>4
  <2>6. Own(s, Area(n, c, p, w), Values(w))
    BY <2>3, <2>4, <2>5 DEF Own
  <2> QED BY <2>6 DEF s
<1>7. CASE Len(w) = 3
  <2> DEFINE d1 == d + 1
             d2 == d + 2
             v1 == Visit(n, d, p, w, 1, 2, FALSE)
             v2 == Visit(n, d1, p, w, 2, 3, FALSE)
             v3 == Visit(n, d2, p, w, 1, 2, FALSE)
  <2>1. s = <<v1, v2, v3>>
    BY <1>7, LevelIs DEF s, d, OnThree
  <2>2. /\ OneOf(n, c, d) /\ OneOf(n, c, d1) /\ OneOf(n, c, d2)
        /\ 1 \in 1..Len(w) /\ 2 \in 1..Len(w) /\ 3 \in 1..Len(w) /\ 1 # 2 /\ 2 # 3
    BY <1>1, <1>5, <1>7 DEF OneOf, d
  <2>0. d \in Nat /\ d1 \in Nat /\ d2 \in Nat /\ d # d1 /\ d # d2 /\ d1 # d2
    BY <1>1
  <2> HIDE DEF d1, d2
  <2>a. Reads(n, c, p, w, d, 1, 2) /\ Reads(n, c, p, w, d1, 2, 3) /\ Reads(n, c, p, w, d2, 1, 2)
    BY <1>a, <2>2 DEF Reads
  <2>b. OwnVisit(v1, n, c, p, w, d) /\ OwnVisit(v2, n, c, p, w, d1) /\ OwnVisit(v3, n, c, p, w, d2)
    BY <2>a, VisitOwn
  <2> HIDE DEF v1, v2, v3
  <2>3. /\ v1 \in Visits /\ v1.at = At(n, d, p) /\ v1.at \in Area(n, c, p, w)
        /\ v1.lo \in Values(w) /\ v1.hi \in Values(w) /\ v1.lo # v1.hi
    BY <2>b DEF OwnVisit
  <2>4. /\ v2 \in Visits /\ v2.at = At(n, d1, p) /\ v2.at \in Area(n, c, p, w)
        /\ v2.lo \in Values(w) /\ v2.hi \in Values(w) /\ v2.lo # v2.hi
    BY <2>b DEF OwnVisit
  <2>5. /\ v3 \in Visits /\ v3.at = At(n, d2, p) /\ v3.at \in Area(n, c, p, w)
        /\ v3.lo \in Values(w) /\ v3.hi \in Values(w) /\ v3.lo # v3.hi
    BY <2>b DEF OwnVisit
  <2>6. v1.at # v2.at /\ v1.at # v3.at /\ v2.at # v3.at
    <3>1. p \in 0..Rows(n) - 1
      BY <1>2, <1>3, <1>7
    <3>3. At(n, d, p) # At(n, d1, p) /\ At(n, d, p) # At(n, d2, p) /\ At(n, d1, p) # At(n, d2, p)
      BY <2>0, <3>1, AtApart
    <3> QED BY <2>3, <2>4, <2>5, <3>3
  <2>7. s \in Seq(Visits) /\ Len(s) = 3 /\ s[1] = v1 /\ s[2] = v2 /\ s[3] = v3
    BY <2>1, <2>3, <2>4, <2>5
  <2>8. \A k \in 1..Len(s) : k = 1 \/ k = 2 \/ k = 3
    BY <2>7
  <2>9. \A k \in 1..Len(s) : s[k].at \in Area(n, c, p, w) /\ s[k].lo \in Values(w) /\ s[k].hi \in Values(w) /\ s[k].lo # s[k].hi
    BY <2>3, <2>4, <2>5, <2>7, <2>8
  <2>10. \A j, k \in 1..Len(s) : j # k => s[j].at # s[k].at
    BY <2>6, <2>7, <2>8
  <2>11. Own(s, Area(n, c, p, w), Values(w))
    BY <2>7, <2>9, <2>10 DEF Own
  <2> QED BY <2>11 DEF s
<1>8. CASE Len(w) # 2 /\ Len(w) # 3
  <2>c. Len(w) >= 4
    BY <1>b, <1>8, AtLeastFour, Zenon
  <2> DEFINE b == BottomOf(w, c)
             t == TopOf(w, c)
             q == TopRow(p, Len(w))
             top == Len(w) - half
             e == d + 1
             g == d + 2 * c - 2
             k == 2 * c - 1
             m == 2 * (c - 1) - 1
             h1 == half \div 2
             h2 == top \div 2
             power == Pow2[c - 1]
             c1 == Column(n, d, p, w, FALSE)
             c2 == Column(n, g, p, w, TRUE)
             s1 == inner[<<p, b>>]
             s2 == inner[<<q, t>>]
             R1 == Rect(n, d, 1, p, half)
             R2 == Rect(n, e, m, p, h1)
             R3 == Rect(n, e, m, q, h2)
             R4 == Rect(n, g, 1, p, half)
             A == Rect(n, d, k, p, half)
  <2>1. s = ((c1 \o s1) \o s2) \o c2
    BY <1>8, LevelIs DEF s, d, OnMore
  <2>2. c >= 2 /\ Len(w) >= 4 /\ power \in Nat /\ Len(w) <= 2 * power
    <3>2. c >= 2
      BY <1>5, <1>b, <2>c
    <3>3. power \in Nat /\ Len(w) <= 2 * power
      BY <1>2, <1>4
    <3> QED BY <2>c, <3>2, <3>3
  <2>3. half = Len(w) \div 2 /\ q = p + (Len(w) \div 4)
    BY DEF half, TopRow
  <2>10. /\ half \in Nat /\ top \in Nat /\ half >= 2 /\ half <= power /\ top >= 2 /\ top <= power
         /\ e \in Nat /\ g \in Nat /\ m \in Nat /\ k \in Nat /\ h1 \in Nat /\ h2 \in Nat /\ q \in Nat
         /\ p + h1 <= Rows(n) /\ q + h2 <= Rows(n)
         /\ d + 1 <= e /\ e + m <= g /\ d + 1 <= g /\ p + h1 <= q
         /\ d + 1 <= d + k /\ d <= e /\ p <= q
         /\ e + m <= d + k /\ p + h1 <= p + half /\ q + h2 <= p + half /\ d <= g /\ g + 1 <= d + k
    <3>1. /\ Len(w) \in Nat /\ c \in Nat /\ d \in Nat /\ p \in Nat /\ Rows(n) \in Nat /\ p + half <= Rows(n)
      BY <1>1, <1>2
    <3>2. /\ top = Len(w) - half /\ h1 = half \div 2 /\ h2 = top \div 2
          /\ e = d + 1 /\ g = d + 2 * c - 2 /\ k = 2 * c - 1 /\ m = 2 * (c - 1) - 1
      OBVIOUS
    <3> HIDE DEF q, power, top, h1, h2, e, g, k, m
    <3>3. HalvesOf(Len(w), c, d, p, Rows(n), half, power, top, q, h1, h2, e, g, k, m)
      BY <2>2, <2>3, <3>1, <3>2, Zenon DEF HalvesOf
    <3>4. HalvesFit(d, p, Rows(n), half, power, top, q, h1, h2, e, g, k, m)
      BY <3>3, LevelSizes
    <3> QED BY <3>4 DEF HalvesFit
  <2>4. /\ b \in Seq(Nat) /\ Len(b) = half /\ t \in Seq(Nat) /\ Len(t) = top
        /\ Values(b) \subseteq Values(w) /\ Values(t) \subseteq Values(w) /\ Distinct(b) /\ Distinct(t)
    BY <1>2, HalvesAre DEF half
  <2> HIDE DEF b, t, q, top
  <2>5. Fits(n, c - 1, p, b)
    BY <1>2, <2>4, <2>10 DEF Fits
  <2>6. Fits(n, c - 1, q, t)
    BY <1>2, <2>4, <2>10 DEF Fits
  <2>7. Own(s1, R2, Values(w))
    <3>1. Own(s1, Area(n, c - 1, p, b), Values(b))
      BY <2>5 DEF InnerOwn
    <3>2. Area(n, c - 1, p, b) = R2
      BY <1>1, <2>4 DEF Area
    <3> HIDE DEF s1, R2
    <3> QED BY <2>4, <3>1, <3>2, OwnMore
  <2>8. Own(s2, R3, Values(w))
    <3>1. Own(s2, Area(n, c - 1, q, t), Values(t))
      BY <2>6 DEF InnerOwn
    <3>2. Area(n, c - 1, q, t) = R3
      BY <1>1, <2>4 DEF Area
    <3> HIDE DEF s2, R3
    <3> QED BY <2>4, <3>1, <3>2, OwnMore
  <2> HIDE DEF g
  <2>9. Own(c1, R1, Values(w)) /\ Own(c2, R4, Values(w))
    <3>1. FALSE \in BOOLEAN /\ TRUE \in BOOLEAN
      OBVIOUS
    <3> QED BY <1>1, <1>2, <2>10, <3>1, ColumnOwn DEF half
  <2>14. A = Area(n, c, p, w)
    BY DEF Area, half, d
  <2> HIDE DEF c1, c2, s1, s2, e, m, k, h1, h2
  <2>a. 1 \in Nat /\ d <= d /\ p <= p /\ p + half <= p + half
    BY <1>1, <1>2, <1>3
  <2>11. R1 \cap R2 = {} /\ R1 \cap R3 = {} /\ R1 \cap R4 = {}
    BY <1>1, <1>2, <2>10, <2>a, RectApart
  <2>12. R2 \cap R4 = {} /\ R3 \cap R4 = {} /\ R2 \cap R3 = {}
    BY <1>1, <1>2, <2>10, <2>a, RectApart
  <2>13. R1 \subseteq A /\ R2 \subseteq A /\ R3 \subseteq A /\ R4 \subseteq A
    <3>2. R1 \subseteq A
      BY <1>1, <1>2, <2>10, <2>a, RectInside
    <3>3. R2 \subseteq A
      BY <1>1, <1>2, <2>10, <2>a, RectInside
    <3>4. R3 \subseteq A
      BY <1>1, <1>2, <2>10, <2>a, RectInside
    <3>5. R4 \subseteq A
      BY <1>1, <1>2, <2>10, <2>a, RectInside
    <3> QED BY <3>2, <3>3, <3>4, <3>5
  <2> HIDE DEF R1, R2, R3, R4, A
  <2>15. Own(c1 \o s1, R1 \cup R2, Values(w))
    BY <2>7, <2>9, <2>11, OwnJoined
  <2>16. (R1 \cup R2) \cap R3 = {} /\ ((R1 \cup R2) \cup R3) \cap R4 = {} /\ ((R1 \cup R2) \cup R3) \cup R4 \subseteq A
    BY <2>11, <2>12, <2>13
  <2>17. Own((c1 \o s1) \o s2, (R1 \cup R2) \cup R3, Values(w))
    BY <2>8, <2>15, <2>16, OwnJoined
  <2>18. Own(((c1 \o s1) \o s2) \o c2, ((R1 \cup R2) \cup R3) \cup R4, Values(w))
    BY <2>9, <2>16, <2>17, OwnJoined
  <2>19. Own(s, A, Values(w))
    BY <2>1, <2>16, <2>18, OwnMore
  <2> QED BY <2>14, <2>19 DEF s
<1> QED BY <1>6, <1>7, <1>8

\* Every subnetwork keeps to its area.
LEMMA SubnetOwn ==
  ASSUME NEW n \in Nat, n >= 2
  PROVE  \A c \in 0..LogN(n) : InnerOwn(n, c, Subnet(n)[c])
<1> DEFINE S == {c \in Nat : c <= LogN(n) => InnerOwn(n, c, Subnet(n)[c])}
<1>1. LogN(n) \in Nat
  BY LogNIs
<1>2. 0 \in S
  <2>1. ASSUME NEW p, NEW w, Fits(n, 0, p, w) PROVE FALSE
    BY <2>1, Pow2Is DEF Fits
  <2> QED BY <2>1 DEF InnerOwn
<1>3. ASSUME NEW b \in Nat, b \in S PROVE b + 1 \in S
  <2> SUFFICES ASSUME b + 1 <= LogN(n) PROVE InnerOwn(n, b + 1, Subnet(n)[b + 1])
    OBVIOUS
  <2> DEFINE c == b + 1
             inner == Subnet(n)[b]
  <2>1. c \in 1..LogN(n) /\ c \in 0..LogN(n) /\ c # 0 /\ c - 1 = b
    BY <1>1
  <2>2. InnerOwn(n, c - 1, inner)
    <3>1. b <= LogN(n)
      BY <1>1
    <3>2. InnerOwn(n, b, Subnet(n)[b])
      BY <1>3, <3>1
    <3> QED BY <2>1, <3>2
  <2>3. Subnet(n)[c] = [a \in Args |-> Level(n, c, a[1], a[2], inner)]
    BY <2>1, SubnetIs
  <2> HIDE DEF c, inner
  <2>4. ASSUME NEW p, NEW w, Fits(n, c, p, w)
        PROVE  Own(Subnet(n)[c][<<p, w>>], Area(n, c, p, w), Values(w))
    <3>1. <<p, w>> \in Args
      BY <2>4 DEF Fits, Args
    <3>2. Subnet(n)[c][<<p, w>>] = Level(n, c, p, w, inner)
      BY <2>3, <3>1
    <3>3. Own(Level(n, c, p, w, inner), Area(n, c, p, w), Values(w))
      BY <2>1, <2>2, <2>4, LevelOwn
    <3> QED BY <3>2, <3>3
  <2>5. InnerOwn(n, c, Subnet(n)[c])
    BY <2>4 DEF InnerOwn
  <2> QED BY <2>5 DEF c
<1> HIDE DEF S
<1>4. Nat \subseteq S
  BY <1>2, <1>3, Induction
<1> QED BY <1>1, <1>4 DEF S

\* A function on 1..n is a sequence.
LEMMA FunSeq ==
  ASSUME NEW n \in Nat, NEW S, NEW f \in [1..n -> S]
  PROVE  f \in Seq(S) /\ Len(f) = n
<1>1. f \in Seq(S)
  BY SeqDef
<1>2. DOMAIN f = 1..n /\ DOMAIN f = 1..Len(f) /\ Len(f) \in Nat
  BY <1>1, LenProperties
<1>3. Len(f) = n
  BY <1>2
<1> QED BY <1>1, <1>3

\* For every number of items from two on, the recursions of benes.cpp visit
\* entries of the switch matrix, each at most once, and every switch is between
\* two different places (permIdx, depth and the halves of odd and even sizes).
THEOREM NetworkSound ==
  ASSUME NEW n \in Nat, n >= 2
  PROVE  /\ Network(n) \in Seq([at : 0..SwitchCount(n) - 1, lo : 0..n - 1, hi : 0..n - 1, last : BOOLEAN])
         /\ \A k \in DOMAIN Network(n) : Network(n)[k].lo # Network(n)[k].hi
         /\ \A j, k \in DOMAIN Network(n) : j # k => Network(n)[j].at # Network(n)[k].at
<1> DEFINE w == [i \in 1..n |-> i - 1]
           c == LogN(n)
           s == Network(n)
<1>1. c \in Nat /\ c >= 1 /\ n <= Pow2[c] /\ Depth(n, c) = 0 /\ NumColumns(n) = 2 * c - 1 /\ NumColumns(n) \in Nat
  BY LogNIs DEF Depth, NumColumns
<1>2. w \in Seq(Nat) /\ Len(w) = n
  OBVIOUS
<1>3. Distinct(w) /\ Values(w) \subseteq 0..n - 1
  BY DEF Distinct, Values
<1>4. s = Subnet(n)[c][<<0, w>>]
  BY DEF Network
<1> HIDE DEF w, c, s
<1>5. Fits(n, c, 0, w)
  <2>1. 0 \in Nat /\ 0 + (n \div 2) <= Rows(n)
    BY DEF Rows
  <2> QED BY <1>1, <1>2, <1>3, <2>1 DEF Fits
<1>6. Own(s, Area(n, c, 0, w), Values(w))
  <2>1. c \in 0..LogN(n)
    BY <1>1 DEF c
  <2>2. InnerOwn(n, c, Subnet(n)[c])
    BY <2>1, SubnetOwn
  <2> QED BY <1>4, <1>5, <2>2 DEF InnerOwn
<1>7. Area(n, c, 0, w) \subseteq 0..SwitchCount(n) - 1
  <2> SUFFICES ASSUME NEW x \in Area(n, c, 0, w) PROVE x \in 0..SwitchCount(n) - 1
    OBVIOUS
  <2> DEFINE m == NumColumns(n)
             rows == Rows(n)
  <2>1. Area(n, c, 0, w) = Rect(n, 0, m, 0, rows)
    BY <1>1, <1>2 DEF Area, Rows
  <2> HIDE DEF m
  <2>2. PICK d \in 0..m - 1, r \in 0..rows - 1 : x = At(n, 0 + d, 0 + r)
    <3> HIDE DEF rows
    <3> QED BY <2>1 DEF Rect
  <2>3. m \in Nat /\ d \in Nat /\ d < m /\ 0 + d = d /\ r \in 0..Rows(n) - 1 /\ 0 + r = r
    BY <1>1, <2>2 DEF m, Rows
  <2>4. At(n, d, r) \in 0..(m * Rows(n)) - 1
    BY <2>3, AtInside
  <2> QED BY <2>2, <2>3, <2>4 DEF SwitchCount, m
<1>8. /\ s \in Seq(Visits) /\ DOMAIN s = 1..Len(s)
      /\ \A k \in 1..Len(s) : s[k].at \in Area(n, c, 0, w) /\ s[k].lo \in Values(w) /\ s[k].hi \in Values(w) /\ s[k].lo # s[k].hi
      /\ \A j, k \in 1..Len(s) : j # k => s[j].at # s[k].at
  BY <1>6 DEF Own
<1> DEFINE R == [at : 0..SwitchCount(n) - 1, lo : 0..n - 1, hi : 0..n - 1, last : BOOLEAN]
<1>9. ASSUME NEW k \in 1..Len(s) PROVE s[k] \in R
  <2>1. s[k] \in Visits
    BY <1>8
  <2>2. s[k].at \in 0..SwitchCount(n) - 1 /\ s[k].lo \in 0..n - 1 /\ s[k].hi \in 0..n - 1
    BY <1>3, <1>7, <1>8
  <2> QED BY <2>1, <2>2 DEF Visits
<1> HIDE DEF R
<1>10. s \in Seq(R)
  <2>1. Len(s) \in Nat /\ s = [k \in 1..Len(s) |-> s[k]]
    BY <1>8
  <2> QED BY <1>9, <2>1, FunSeq
<1> QED BY <1>8, <1>10 DEF s, R

\* The networks of all instances are those of benes.cpp.
Built == \A i \in Instances : i.n >= 2 /\ i.net = Network(i.n)

\* Whatever the number of items and the permutation, no two subnetworks share an
\* entry of the switch matrix (the permIdx arithmetic of benes.cpp and of
\* prepareCorrection).
THEOREM SwitchesApartHolds ==
  ASSUME Built
  PROVE  Spec => []SwitchesApart
<1>1. Init => SwitchesApart
  <2> SUFFICES ASSUME inst \in Instances PROVE SwitchesApart
    BY DEF Init
  <2>1. inst.n \in Nat /\ inst.n >= 2 /\ inst.net = Network(inst.n)
    BY PermShareAssumption DEF Built
  <2> DEFINE m == inst.n
  <2> HIDE DEF m
  <2>2. m \in Nat /\ m >= 2 /\ inst.net = Network(m)
    BY <2>1 DEF m
  <2>3. \A j, k \in DOMAIN inst.net : j # k => inst.net[j].at # inst.net[k].at
    BY <2>2, NetworkSound
  <2> QED BY <2>3 DEF SwitchesApart, Switch
<1>2. SwitchesApart /\ [Next]_vars => SwitchesApart'
  <2>1. [Next]_vars => inst' = inst
    BY DEF Next, SStart, RStart, GenOT, SSendBits, RTurn, RWalk, RSendCorr, RFinish, SCorrect,
           SCorrectBits, SShare, SWalk, SDone, Done, vars
  <2>2. inst' = inst /\ SwitchesApart => SwitchesApart'
    BY DEF SwitchesApart, Switch
  <2> QED BY <2>1, <2>2
<1> QED BY <1>1, <1>2, PTL DEF Spec

\* So on the network of benes.cpp for any number of items, the sender's values and
\* the receiver's masks add up before every switch, and where the switches are set
\* for the permutation the shares add up to the permuted inputs (runPermAndShare).
THEOREM SharedOnBenes ==
  ASSUME Built
  PROVE  Spec => []SharedAlong /\ (Routes => []Shared)
<1>1. Spec => []SharedAlong
  BY SwitchesApartHolds, SharedAlongHolds, PTL
<1>2. ASSUME Routes PROVE Spec => []Shared
  <2>1. Spec /\ SwitchesApart => []Shared
    BY <1>2, SharedHolds
  <2> QED BY <2>1, SwitchesApartHolds, PTL
<1> QED BY <1>1, <1>2
=============================================================================
