----------------------------- MODULE GmwProofs -----------------------------
(***************************************************************************)
(* Proofs about Gmw: that its state keeps its type, that the two streams   *)
(* stay in step, and that the shares recombine to the plain evaluation,    *)
(* for every circuit whose levels are sound and every deal of triples.     *)
(***************************************************************************)
EXTENDS Gmw, FiniteSetTheorems, SequenceTheorems, TLAPS

----------------------------------------------------------------------------
(***************************************************************************)
(* The share algebra of one gate; that of an AND gate is in GateRecombines.*)
(***************************************************************************)

\* Recombining the two outputs of a local gate (the Xor/Nxor/a cases of
\* roundFunction) gives the gate on the recombined inputs.
LEMMA LinearAlgebra ==
  ASSUME NEW type \in LinearTypes,
         NEW x0 \in Bit, NEW x1 \in Bit, NEW y0 \in Bit, NEW y1 \in Bit
  PROVE  /\ LinearGate(0, type, x0, y0) \in Bit
         /\ LinearGate(1, type, x1, y1) \in Bit
         /\ Xor(LinearGate(0, type, x0, y0), LinearGate(1, type, x1, y1))
              = EvalGate(type, Xor(x0, x1), Xor(y0, y1))
  BY DEF LinearTypes, Bit, LinearGate, EvalGate, Xor, Not

\* The two words sent for an AND gate are bits, and so is its output share.
LEMMA SendType ==
  ASSUME NEW p \in Parties, NEW type, NEW a \in Bit, NEW c \in Bit,
         NEW x \in Bit, NEW y \in Bit
  PROVE  /\ MultSend(p, a, c, x, y, type) \in Seq(Bit)
         /\ Len(MultSend(p, a, c, x, y, type)) = 2
<1>1. /\ MaskedX(a, x, type) \in Bit /\ MaskedX(a, x, "And") \in Bit
      /\ MaskedY(c, y, type) \in Bit /\ MaskedY(c, y, "And") \in Bit
  BY DEF MaskedX, MaskedY, Bit, Xor
<1> QED BY <1>1 DEF MultSend

\* The output share of an AND gate is a bit, whatever came off the socket.
LEMMA RecvType ==
  ASSUME NEW p, NEW type, NEW b, NEW c, NEW d, NEW x, NEW y, NEW m1, NEW m2
  PROVE  MultRecv(p, b, c, d, x, y, m1, m2, type) \in Bit
  BY DEF MultRecv, Xor, Bit

----------------------------------------------------------------------------
(***************************************************************************)
(* Counting AND gates, and the last writer of a wire.                      *)
(***************************************************************************)

\* How many triples a prefix of the gates needs is a number.
LEMMA AndBeforeType ==
  ASSUME NEW n \in Nat
  PROVE  AndBefore(n) \in Nat
<1>1. IsFiniteSet({h \in 1..n : IsAnd(h)})
  <2>1. IsFiniteSet(1..n)  BY FS_Interval
  <2> QED BY <2>1, FS_Subset
<1> QED BY <1>1, FS_CardinalityType DEF AndBefore

\* No gate, no triple.
LEMMA AndBeforeZero == AndBefore(0) = 0
<1>1. {h \in 1..0 : IsAnd(h)} = {}  OBVIOUS
<1> QED BY <1>1, FS_EmptySet DEF AndBefore

\* One more gate needs one more triple exactly when it is an AND gate.
LEMMA AndBeforeStep ==
  ASSUME NEW n \in Nat
  PROVE  AndBefore(n + 1) = IF IsAnd(n + 1) THEN AndBefore(n) + 1 ELSE AndBefore(n)
<1> DEFINE S == {h \in 1..n : IsAnd(h)}
<1>1. IsFiniteSet(S)
  <2>1. IsFiniteSet(1..n)  BY FS_Interval
  <2> QED BY <2>1, FS_Subset
<1>2. CASE IsAnd(n + 1)
  <2>1. {h \in 1..n + 1 : IsAnd(h)} = S \cup {n + 1}  BY <1>2
  <2>2. n + 1 \notin S  OBVIOUS
  <2> QED BY <1>1, <1>2, <2>1, <2>2, FS_AddElement DEF AndBefore
<1>3. CASE ~IsAnd(n + 1)
  <2>1. {h \in 1..n + 1 : IsAnd(h)} = S  BY <1>3
  <2> QED BY <1>3, <2>1 DEF AndBefore
<1> QED BY <1>2, <1>3

\* A longer prefix needs no fewer triples.
LEMMA AndBeforeMonotone ==
  ASSUME NEW m \in Nat, NEW n \in Nat, m <= n
  PROVE  AndBefore(m) <= AndBefore(n)
<1>1. IsFiniteSet({h \in 1..n : IsAnd(h)})
  <2>1. IsFiniteSet(1..n)  BY FS_Interval
  <2> QED BY <2>1, FS_Subset
<1>2. {h \in 1..m : IsAnd(h)} \in SUBSET {h \in 1..n : IsAnd(h)}  OBVIOUS
<1> QED BY <1>1, <1>2, FS_Subset DEF AndBefore

\* An AND gate among the first n is counted by no prefix that stops before it.
LEMMA AndBeforeGate ==
  ASSUME NEW g \in Nat, g # 0, IsAnd(g), NEW n \in Nat
  PROVE  /\ g <= n => AndBefore(g) <= AndBefore(n)
         /\ n < g => AndBefore(n) < AndBefore(g)
         /\ AndBefore(g) >= 1
<1>1. AndBefore(g) = AndBefore(g - 1) + 1
  <2>1. g - 1 \in Nat /\ (g - 1) + 1 = g  OBVIOUS
  <2> QED BY <2>1, AndBeforeStep
<1>2. AndBefore(g) \in Nat /\ AndBefore(n) \in Nat /\ AndBefore(g - 1) \in Nat
  BY AndBeforeType
<1>3. ASSUME n < g PROVE AndBefore(n) <= AndBefore(g - 1)
  BY <1>3, AndBeforeMonotone
<1>4. ASSUME g <= n PROVE AndBefore(g) <= AndBefore(n)
  BY <1>4, AndBeforeMonotone
<1> QED BY <1>1, <1>2, <1>3, <1>4

\* Gate n+1 is the last writer of the wire it writes, and of no other.
LEMMA LastWriterStep ==
  ASSUME NEW n \in Nat, NEW w \in Wires,
         \E h \in 0..n : IsLastWriter(h, w, n)
  PROVE  /\ IsLastWriter(LastWriter(w, n), w, n)
         /\ IsLastWriter(LastWriter(w, n + 1), w, n + 1)
         /\ LastWriter(w, n + 1) = IF Gates[n + 1].out = w THEN n + 1 ELSE LastWriter(w, n)
<1> DEFINE h == LastWriter(w, n)
<1>1. IsLastWriter(h, w, n)  BY DEF LastWriter
<1> DEFINE j == IF Gates[n + 1].out = w THEN n + 1 ELSE h
<1> HIDE DEF h
<1>2. IsLastWriter(j, w, n + 1)  BY <1>1 DEF IsLastWriter
<1>3. j \in 0..n + 1  BY <1>2 DEF IsLastWriter
<1> HIDE DEF j
<1>4. \A k \in 0..n + 1 : IsLastWriter(k, w, n + 1) => k = j
  <2> SUFFICES ASSUME NEW k \in 0..n + 1, IsLastWriter(k, w, n + 1), k # j PROVE FALSE
    OBVIOUS
  <2>1. CASE k < j  BY <1>2, <1>3, <2>1 DEF IsLastWriter
  <2>2. CASE j < k  BY <1>2, <1>3, <2>2 DEF IsLastWriter
  <2> QED BY <1>3, <2>1, <2>2
<1>5. LastWriter(w, n + 1) = j
  <2>1. /\ LastWriter(w, n + 1) \in 0..n + 1
        /\ IsLastWriter(LastWriter(w, n + 1), w, n + 1)
    BY <1>2, <1>3 DEF LastWriter
  <2> QED BY <1>4, <2>1
<1> QED BY <1>1, <1>2, <1>5 DEF h, j

----------------------------------------------------------------------------
(***************************************************************************)
(* Facts about the constants.                                              *)
(***************************************************************************)

\* The level boundaries are gate counts, in order, ending at the last gate.
LEMMA CircuitFacts ==
  /\ NumGates \in Nat /\ NumRounds \in Nat
  /\ \A r \in 0..NumRounds : End(r) \in 0..NumGates
  /\ \A r \in 0..NumRounds - 1 : End(r) <= End(r + 1)
  /\ End(0) = 0 /\ End(NumRounds) = NumGates
<1>1. NumGates \in Nat /\ NumRounds \in Nat
  BY CircuitAssumption DEF CircuitAssumption, NumGates, NumRounds
<1>2. \A r \in 0..NumRounds : End(r) \in 0..NumGates
  BY <1>1, CircuitAssumption DEF CircuitAssumption, End, NumRounds
<1>3. \A r \in 0..NumRounds - 1 : End(r) <= End(r + 1)
  <2> SUFFICES ASSUME NEW r \in 0..NumRounds - 1 PROVE End(r) <= End(r + 1)
    OBVIOUS
  <2>1. r + 1 \in 1..NumRounds /\ (r + 1) - 1 = r  BY <1>1
  <2>2. \A s \in 1..NumRounds : End(s - 1) <= End(s)
    BY CircuitAssumption DEF CircuitAssumption
  <2> QED BY <2>1, <2>2
<1> QED BY <1>1, <1>2, <1>3, CircuitAssumption DEF CircuitAssumption, End

\* A gate names wires of the circuit and is a local gate or an AND gate.
LEMMA GateFacts ==
  ASSUME NEW g \in 1..NumGates
  PROVE  /\ Gates[g].in0 \in Wires /\ Gates[g].in1 \in Wires /\ Gates[g].out \in Wires
         /\ IsAnd(g) => Gates[g].type \in AndTypes
         /\ ~IsAnd(g) => Gates[g].type \in LinearTypes
         /\ IsAnd(g) => AndBefore(g) \in 1..NumTriples
<1>1. Gates[g] \in Gate  BY CircuitAssumption DEF CircuitAssumption, NumGates
<1>2. IsAnd(g) => AndBefore(g) \in 1..NumTriples
  <2> HAVE IsAnd(g)
  <2>1. AndBefore(g) <= NumAnd /\ AndBefore(g) >= 1
    BY AndBeforeGate, CircuitFacts DEF NumAnd
  <2>2. AndBefore(g) \in Nat /\ NumAnd \in Nat
    BY AndBeforeType, CircuitFacts DEF NumAnd
  <2> QED BY <2>1, <2>2, GmwAssumption DEF GmwAssumption
<1> QED BY <1>1, <1>2 DEF Gate, IsAnd

\* A deal gives each party a bit of every span for every triple.
LEMMA DealFacts ==
  ASSUME TypeOK, HasDeal(deal), NEW p \in Parties, NEW k \in 1..NumTriples
  PROVE  /\ deal[p].A[k] \in Bit /\ deal[p].B[k] \in Bit
         /\ deal[p].C[k] \in Bit /\ deal[p].D[k] \in Bit
         /\ ValidDeal(deal)
<1>1. deal \in Deals  BY DEF TypeOK, HasDeal
<1>2. deal \in [Parties -> Share] /\ ValidDeal(deal)
  BY <1>1, GmwAssumption DEF GmwAssumption
<1>3. deal[p] \in Share  BY <1>2
<1> QED BY <1>2, <1>3 DEF Share

----------------------------------------------------------------------------
(***************************************************************************)
(* Types, the place of the loops in their level, and the lock step of      *)
(* triples and streams are inductive together.                             *)
(***************************************************************************)

\* Before run() no gate is walked, no word sent and no triple consumed.
LEMMA ControlInit == Init => ControlInv
<1> SUFFICES ASSUME Init PROVE ControlInv
  OBVIOUS
<1> USE DEF Init
<1>1. TypeOK
  BY CircuitFacts, GmwAssumption DEF TypeOK, GmwAssumption, Inputs, Bit, Parties, Spans
<1>2. LevelInv
  BY CircuitFacts DEF LevelInv, LevelLast, Parties
<1>3. LockStep
  BY AndBeforeZero DEF LockStep, Parties, Spans
<1> QED BY <1>1, <1>2, <1>3 DEF ControlInv

\* The gate a party is at in its first loop, or in its second.
LEMMA AtGate ==
  ASSUME ControlInv, NEW p \in Parties, InRound(p)
  PROVE  /\ LevelLast(p) \in 0..NumGates
         /\ End(round[p]) \in 0..NumGates
         /\ End(round[p]) <= LevelLast(p)
         /\ sent[p] < LevelLast(p) => sent[p] + 1 \in 1..NumGates /\ rcvd[p] = End(round[p])
         /\ rcvd[p] < LevelLast(p) => rcvd[p] + 1 \in 1..NumGates
         /\ HasDeal(deal) \/ NumAnd = 0
<1>1. round[p] \in 0..NumRounds - 1
  BY CircuitFacts DEF ControlInv, TypeOK, InRound
<1>2. sent[p] \in 0..NumGates /\ rcvd[p] \in 0..NumGates
  BY DEF ControlInv, TypeOK
<1> QED BY <1>1, <1>2, CircuitFacts DEF ControlInv, LevelInv, InRound, LevelLast

\* An AND gate is only reached once the triples are there.
LEMMA AndHasDeal ==
  ASSUME ControlInv, NEW p \in Parties, InRound(p), NEW g \in 1..NumGates, IsAnd(g)
  PROVE  HasDeal(deal)
<1>1. NumAnd >= 1
  <2>1. AndBefore(g) <= NumAnd /\ AndBefore(g) >= 1
    BY AndBeforeGate, CircuitFacts DEF NumAnd
  <2> QED BY <2>1, AndBeforeType, CircuitFacts DEF NumAnd
<1> QED BY <1>1, AtGate

\* Each step moves a cursor and what it counts together: types, the place in
\* the level and the lock-step of streams and spans are kept.
LEMMA ControlStep == ControlInv /\ [Next]_vars => ControlInv'
<1> SUFFICES ASSUME ControlInv, [Next]_vars PROVE ControlInv'
  OBVIOUS
<1> USE DEF ControlInv
<1>1. CASE GenerateTriple
  <2> USE <1>1 DEF GenerateTriple
  <2>1. TypeOK'  BY DEF TypeOK
  <2>2. LevelInv'
    BY GmwAssumption DEF LevelInv, LevelLast, HasDeal, TypeOK, NoDeal, GmwAssumption
  <2>3. LockStep'  BY DEF LockStep
  <2> QED BY <2>1, <2>2, <2>3
<1>2. ASSUME NEW p \in Parties, BeginRun(p) PROVE ControlInv'
  <2> USE <1>2 DEF BeginRun
  <2>1. TypeOK'  BY DEF TypeOK
  <2>2. LevelInv'  BY DEF LevelInv, LevelLast, TypeOK
  <2>3. LockStep'  BY DEF LockStep, TypeOK
  <2> QED BY <2>1, <2>2, <2>3
<1>3. ASSUME NEW p \in Parties, FirstLinear(p) PROVE ControlInv'
  <2> DEFINE g == sent[p] + 1
             z == LinearGate(p, Gates[g].type, X(p, g), Y(p, g))
  <2> USE <1>3 DEF FirstLinear
  <2>1. g \in 1..NumGates /\ rcvd[p] = End(round[p]) /\ InRound(p)  BY AtGate
  <2>2. z \in Bit
    <3>1. X(p, g) \in Bit /\ Y(p, g) \in Bit  BY <2>1, GateFacts DEF X, Y, TypeOK
    <3>2. LinearGate(0, Gates[g].type, X(p, g), Y(p, g)) \in Bit
          /\ LinearGate(1, Gates[g].type, X(p, g), Y(p, g)) \in Bit
      BY <2>1, <3>1, GateFacts, LinearAlgebra
    <3> QED BY <3>2 DEF Parties
  <2>3. TypeOK'
    <3> HIDE DEF z
    <3> QED BY <2>1, <2>2, GateFacts DEF TypeOK, z
  <2>4. LevelInv'
    BY <2>1, AtGate DEF LevelInv, LevelLast, TypeOK, InRound
  <2>5. LockStep'
    <3>1. sent[p] \in Nat  BY DEF TypeOK
    <3>2. AndBefore(g) = AndBefore(sent[p])  BY <3>1, AndBeforeStep
    <3> QED BY <3>2 DEF LockStep, TypeOK
  <2> QED BY <2>3, <2>4, <2>5
<1>4. ASSUME NEW p \in Parties, FirstAnd(p) PROVE ControlInv'
  <2> DEFINE g == sent[p] + 1
             m == MultSend(p, FrontOf(p, "A"), FrontOf(p, "C"), X(p, g), Y(p, g), Gates[g].type)
  <2>0. /\ InRound(p) /\ IsAnd(g) /\ sent[p] < LevelLast(p)
        /\ stream' = [stream EXCEPT ![p] = @ \o m]
        /\ pos' = [pos EXCEPT ![p]["A"] = @ + 1, ![p]["C"] = @ + 1]
        /\ sent' = [sent EXCEPT ![p] = g]
        /\ UNCHANGED <<words, deal, status, round, rcvd, got, input, val>>
    BY <1>4 DEF FirstAnd
  <2>1. g \in 1..NumGates /\ rcvd[p] = End(round[p])  BY <2>0, AtGate
  <2>2. sent[p] \in Nat /\ AndBefore(g) = AndBefore(sent[p]) + 1
    <3>1. sent[p] \in Nat  BY DEF TypeOK
    <3> QED BY <2>0, <3>1, AndBeforeStep
  <2>3. pos[p]["A"] + 1 = AndBefore(g) /\ pos[p]["C"] + 1 = AndBefore(g)
    BY <2>0, <2>2 DEF LockStep, InRound
  <2>4. AndBefore(g) \in 1..NumTriples  BY <2>0, <2>1, GateFacts
  <2>5. m \in Seq(Bit) /\ Len(m) = 2
    <3>1. X(p, g) \in Bit /\ Y(p, g) \in Bit  BY <2>1, GateFacts DEF X, Y, TypeOK
    <3>2. HasDeal(deal)  BY <2>0, <2>1, AndHasDeal
    <3>3. FrontOf(p, "A") \in Bit /\ FrontOf(p, "C") \in Bit
      BY <2>3, <2>4, <3>2, DealFacts DEF FrontOf
    <3> HIDE DEF g
    <3> QED BY <3>1, <3>3, SendType
  <2> HIDE DEF m
  <2>7. TypeOK'
    <3>1. stream' \in [Parties -> Seq(Bit)]
      <4>1. stream[p] \o m \in Seq(Bit)  BY <2>5 DEF TypeOK
      <4> QED BY <2>0, <4>1 DEF TypeOK
    <3>2. pos' \in [Parties -> [Spans -> 0..NumTriples]]
      <4>1. pos[p]["A"] + 1 \in 0..NumTriples /\ pos[p]["C"] + 1 \in 0..NumTriples
        BY <2>3, <2>4
      <4> QED BY <2>0, <4>1 DEF TypeOK, Spans
    <3>3. sent' \in [Parties -> 0..NumGates]  BY <2>0, <2>1 DEF TypeOK
    <3> QED BY <2>0, <3>1, <3>2, <3>3 DEF TypeOK
  <2>8. LevelInv'
    BY <2>0, <2>1, AtGate DEF LevelInv, LevelLast, TypeOK, InRound
  <2>9. LockStep'
    <3>1. Len(stream'[p]) = Len(stream[p]) + 2
      <4>1. stream[p] \in Seq(Bit) /\ stream'[p] = stream[p] \o m  BY <2>0 DEF TypeOK
      <4>2. Len(stream[p] \o m) = Len(stream[p]) + Len(m)  BY <2>5, <4>1, ConcatProperties
      <4> QED BY <2>5, <4>1, <4>2
    <3>2. \A q \in Parties : q # p => stream'[q] = stream[q]  BY <2>0 DEF TypeOK
    <3>3. AndBefore(sent[p]) \in Nat  BY <2>2, AndBeforeType
    <3>4. 2 * AndBefore(g) = 2 * AndBefore(sent[p]) + 2  BY <2>2, <3>3
    <3>5. Len(stream'[p]) = 2 * AndBefore(sent'[p])
      BY <2>0, <3>1, <3>4 DEF LockStep, TypeOK
    <3>6. /\ pos'[p]["A"] = AndBefore(sent'[p]) /\ pos'[p]["C"] = AndBefore(sent'[p])
          /\ \A s \in {"B", "C2", "D"} : pos'[p][s] = pos[p][s]
          /\ \A q \in Parties : q # p => pos'[q] = pos[q] /\ sent'[q] = sent[q]
      BY <2>0, <2>3 DEF TypeOK, Spans
    <3>7. got' = got /\ rcvd' = rcvd /\ status' = status  BY <2>0
    <3> QED BY <3>2, <3>5, <3>6, <3>7 DEF LockStep
  <2> QED BY <2>7, <2>8, <2>9
<1>5. ASSUME NEW p \in Parties, SecondLinear(p) PROVE ControlInv'
  <2> DEFINE g == rcvd[p] + 1
  <2> USE <1>5 DEF SecondLinear
  <2>1. g \in 1..NumGates /\ InRound(p)  BY AtGate
  <2>2. TypeOK'  BY <2>1 DEF TypeOK
  <2>3. LevelInv'
    BY <2>1, AtGate DEF LevelInv, LevelLast, TypeOK, InRound
  <2>4. LockStep'
    <3>1. rcvd[p] \in Nat  BY DEF TypeOK
    <3>2. AndBefore(g) = AndBefore(rcvd[p])  BY <3>1, AndBeforeStep
    <3> QED BY <3>2 DEF LockStep, TypeOK
  <2> QED BY <2>2, <2>3, <2>4
<1>6. ASSUME NEW p \in Parties, SecondAnd(p) PROVE ControlInv'
  <2> DEFINE g == rcvd[p] + 1
             q == Peer(p)
             z == MultRecv(p, FrontOf(p, "B"), FrontOf(p, "C2"), FrontOf(p, "D"),
                           X(p, g), Y(p, g),
                           stream[q][got[p] + 1], stream[q][got[p] + 2], Gates[g].type)
  <2>0. /\ InRound(p) /\ IsAnd(g) /\ sent[p] = LevelLast(p) /\ rcvd[p] < LevelLast(p)
        /\ Len(stream[q]) >= got[p] + 2
        /\ words' = [words EXCEPT ![p][Gates[g].out] = z]
        /\ val' = [val EXCEPT ![p][g] = z]
        /\ got' = [got EXCEPT ![p] = @ + 2]
        /\ pos' = [pos EXCEPT ![p]["B"] = @ + 1, ![p]["C2"] = @ + 1, ![p]["D"] = @ + 1]
        /\ rcvd' = [rcvd EXCEPT ![p] = g]
        /\ UNCHANGED <<deal, status, round, sent, stream, input>>
    BY <1>6 DEF SecondAnd
  <2>1. g \in 1..NumGates /\ q \in Parties
    BY <2>0, AtGate DEF Peer, Parties
  <2>2. rcvd[p] \in Nat /\ AndBefore(g) = AndBefore(rcvd[p]) + 1
    <3>1. rcvd[p] \in Nat  BY DEF TypeOK
    <3> QED BY <2>0, <3>1, AndBeforeStep
  <2>3. /\ pos[p]["B"] + 1 = AndBefore(g) /\ pos[p]["D"] + 1 = AndBefore(g)
        /\ pos[p]["C2"] + 1 = AndBefore(g)
    BY <2>0, <2>2 DEF LockStep, InRound
  <2>4. AndBefore(g) \in 1..NumTriples  BY <2>0, <2>1, GateFacts
  <2>5. z \in Bit  BY RecvType
  <2> HIDE DEF z
  <2>7. TypeOK'
    <3>1. pos' \in [Parties -> [Spans -> 0..NumTriples]]
      <4>1. /\ pos[p]["B"] + 1 \in 0..NumTriples /\ pos[p]["C2"] + 1 \in 0..NumTriples
            /\ pos[p]["D"] + 1 \in 0..NumTriples
        BY <2>3, <2>4
      <4> QED BY <2>0, <4>1 DEF TypeOK, Spans
    <3>2. words' \in [Parties -> [Wires -> Bit]]
      BY <2>0, <2>1, <2>5, GateFacts DEF TypeOK
    <3>3. val' \in [Parties -> [1..NumGates -> Bit]]
      BY <2>0, <2>1, <2>5 DEF TypeOK
    <3>4. got' \in [Parties -> Nat]  BY <2>0 DEF TypeOK
    <3>5. rcvd' \in [Parties -> 0..NumGates]  BY <2>0, <2>1 DEF TypeOK
    <3> QED BY <2>0, <3>1, <3>2, <3>3, <3>4, <3>5 DEF TypeOK
  <2>8. LevelInv'
    <3>1. /\ rcvd'[p] = g
          /\ \A r \in Parties : r # p => rcvd'[r] = rcvd[r]
      BY <2>0 DEF TypeOK
    <3>2. /\ sent[p] \in Nat /\ rcvd[p] \in Nat
          /\ End(round[p]) \in Nat /\ LevelLast(p) \in Nat
      BY <2>0, AtGate DEF TypeOK
    <3>3. \A r \in Parties : LevelLast(r)' = LevelLast(r)  BY <2>0 DEF LevelLast
    <3>4. \A r \in Parties : r # p =>
            End(round[r]) <= rcvd'[r] /\ rcvd'[r] <= sent[r]
      BY <3>1 DEF LevelInv
    <3>5. End(round[p]) <= g /\ g <= sent[p] /\ status[p] = "run"
      BY <2>0, <3>2 DEF LevelInv, InRound
    <3> QED BY <2>0, <3>1, <3>3, <3>4, <3>5 DEF LevelInv
  <2>9. LockStep'
    <3>1. AndBefore(rcvd[p]) \in Nat  BY <2>2, AndBeforeType
    <3>2. 2 * AndBefore(g) = 2 * AndBefore(rcvd[p]) + 2  BY <2>2, <3>1
    <3>3. got'[p] = 2 * AndBefore(rcvd'[p])
      BY <2>0, <3>2 DEF LockStep, TypeOK
    <3>4. /\ \A s \in {"B", "C2", "D"} : pos'[p][s] = AndBefore(rcvd'[p])
          /\ \A s \in {"A", "C"} : pos'[p][s] = pos[p][s]
          /\ \A r \in Parties : r # p =>
               pos'[r] = pos[r] /\ rcvd'[r] = rcvd[r] /\ got'[r] = got[r]
      BY <2>0, <2>3 DEF TypeOK, Spans
    <3> QED BY <2>0, <3>3, <3>4 DEF LockStep
  <2> QED BY <2>7, <2>8, <2>9
<1>7. ASSUME NEW p \in Parties, EndRound(p) PROVE ControlInv'
  <2> USE <1>7 DEF EndRound
  <2>1. round[p] + 1 \in 0..NumRounds  BY CircuitFacts DEF TypeOK, InRound
  <2>2. TypeOK'  BY <2>1 DEF TypeOK
  <2>3. LevelInv'
    <3>1. round[p] + 1 < NumRounds => End(round[p] + 1) <= End((round[p] + 1) + 1)
      BY <2>1, CircuitFacts DEF TypeOK
    <3> QED BY <2>1, <3>1, AtGate, CircuitFacts DEF LevelInv, LevelLast, TypeOK, InRound
  <2>4. LockStep'  BY DEF LockStep
  <2> QED BY <2>2, <2>3, <2>4
<1>8. ASSUME NEW p \in Parties, Finish(p) PROVE ControlInv'
  <2> USE <1>8 DEF Finish
  <2>1. TypeOK'  BY GmwAssumption DEF TypeOK, GmwAssumption
  <2>2. LevelInv'  BY DEF LevelInv, LevelLast, TypeOK
  <2>3. LockStep'  BY DEF LockStep, TypeOK, Spans
  <2> QED BY <2>1, <2>2, <2>3
<1>9. CASE UNCHANGED vars
  <2>1. TypeOK'  BY <1>9 DEF TypeOK, vars
  <2>2. LevelInv'  BY <1>9 DEF LevelInv, LevelLast, vars
  <2>3. LockStep'  BY <1>9 DEF LockStep, vars
  <2> QED BY <2>1, <2>2, <2>3
<1> QED
  BY <1>1, <1>2, <1>3, <1>4, <1>5, <1>6, <1>7, <1>8, <1>9 DEF Next, Step, Terminated

\* run() keeps every variable of the two parties in its type.
THEOREM TypeCorrect == Spec => []TypeOK
<1>1. Spec => []ControlInv
  BY ControlInit, ControlStep, PTL DEF Spec
<1>2. ControlInv => TypeOK
  BY DEF ControlInv
<1> QED BY <1>1, <1>2, PTL

\* Streams and triples never fall out of step: every word multRecv reads was
\* sent for the gate it is at, under the triple dealt for that gate.
THEOREM LockStepHolds == Spec => []LockStep
<1>1. Spec => []ControlInv
  BY ControlInit, ControlStep, PTL DEF Spec
<1>2. ControlInv => LockStep
  BY DEF ControlInv
<1> QED BY <1>1, <1>2, PTL
----------------------------------------------------------------------------
(***************************************************************************)
(* NeverAhead and the existence of last writers, given ControlInv.         *)
(***************************************************************************)

\* Before run() no party is ahead, and no wire has been written.
LEMMA BaseInit == Init => BaseInv
<1> SUFFICES ASSUME Init PROVE BaseInv
  OBVIOUS
<1>1. ControlInv  BY ControlInit
<1>2. NeverAhead  BY DEF Init, NeverAhead, Parties
<1>3. WriterInv
  <2> SUFFICES ASSUME NEW w \in Wires PROVE \E h \in 0..0 : IsLastWriter(h, w, 0)
    BY DEF Init, WriterInv
  <2> QED BY DEF IsLastWriter
<1> QED BY <1>1, <1>2, <1>3 DEF BaseInv

\* A party reads two words only when the peer's stream holds them (multRecv).
LEMMA NeverAheadStep ==
  ASSUME BaseInv, [Next]_vars
  PROVE  NeverAhead'
<1> USE DEF BaseInv
<1>0. TypeOK /\ LockStep /\ ControlInv  BY DEF ControlInv
<1>1. CASE \A p \in Parties : rcvd'[p] = rcvd[p] /\ sent'[p] >= sent[p]
  <2> SUFFICES ASSUME NEW p \in Parties, NEW g \in 1..NumGates, IsAnd(g), g <= rcvd[p]
               PROVE  g <= sent'[Peer(p)]
    BY <1>1 DEF NeverAhead
  <2>1. Peer(p) \in Parties  BY DEF Peer, Parties
  <2>2. g <= sent[Peer(p)]  BY DEF NeverAhead
  <2>3. sent[Peer(p)] \in Nat  BY <1>0, <2>1 DEF TypeOK
  <2>4. ControlInv'  BY <1>0, ControlStep
  <2>5. sent'[Peer(p)] \in Nat  BY <2>1, <2>4 DEF ControlInv, TypeOK
  <2> QED BY <1>1, <2>1, <2>2, <2>3, <2>5
<1>2. ASSUME NEW p \in Parties, rcvd' = [rcvd EXCEPT ![p] = @ + 1], sent' = sent,
             IsAnd(rcvd[p] + 1) => Len(stream[Peer(p)]) >= got[p] + 2
      PROVE  NeverAhead'
  <2> SUFFICES ASSUME NEW r \in Parties, NEW g \in 1..NumGates, IsAnd(g), g <= rcvd'[r]
               PROVE  g <= sent[Peer(r)]
    BY <1>2 DEF NeverAhead
  <2>1. CASE g <= rcvd[r]  BY <2>1 DEF NeverAhead
  <2>2. CASE ~(g <= rcvd[r])
    <3>1. r = p /\ g = rcvd[p] + 1  BY <1>0, <1>2, <2>2 DEF TypeOK
    <3>2. Peer(p) \in Parties  BY DEF Peer, Parties
    <3>3. 2 * AndBefore(sent[Peer(p)]) >= 2 * AndBefore(rcvd[p]) + 2
      BY <1>0, <1>2, <3>1, <3>2 DEF LockStep
    <3>4. rcvd[p] \in Nat /\ sent[Peer(p)] \in Nat  BY <1>0, <3>2 DEF TypeOK
    <3>5. AndBefore(g) = AndBefore(rcvd[p]) + 1  BY <3>1, <3>4, AndBeforeStep
    <3>6. /\ AndBefore(g) \in Nat /\ AndBefore(rcvd[p]) \in Nat
          /\ AndBefore(sent[Peer(p)]) \in Nat
      BY <3>4, AndBeforeType
    <3>7. sent[Peer(p)] < g => AndBefore(sent[Peer(p)]) < AndBefore(g)
      BY <3>4, AndBeforeGate
    <3> QED BY <3>1, <3>3, <3>4, <3>5, <3>6, <3>7
  <2> QED BY <2>1, <2>2
<1>3. ASSUME NEW p \in Parties, FirstLinear(p) \/ FirstAnd(p) PROVE NeverAhead'
  <2>1. rcvd' = rcvd /\ sent' = [sent EXCEPT ![p] = @ + 1]
    BY <1>3 DEF FirstLinear, FirstAnd
  <2>2. \A q \in Parties : sent'[q] >= sent[q]  BY <1>0, <2>1 DEF TypeOK
  <2> QED BY <1>1, <2>1, <2>2
<1>4. ASSUME NEW p \in Parties, SecondLinear(p) PROVE NeverAhead'
  BY <1>2, <1>4 DEF SecondLinear
<1>5. ASSUME NEW p \in Parties, SecondAnd(p) PROVE NeverAhead'
  <2>1. rcvd' = [rcvd EXCEPT ![p] = @ + 1] /\ sent' = sent
        /\ Len(stream[Peer(p)]) >= got[p] + 2
    BY <1>5 DEF SecondAnd
  <2> QED BY <1>2, <2>1
<1>6. CASE UNCHANGED <<sent, rcvd>>
  BY <1>0, <1>1, <1>6 DEF TypeOK
<1> QED
  BY <1>3, <1>4, <1>5, <1>6
  DEF Next, Step, GenerateTriple, BeginRun, EndRound, Finish, Terminated, vars

\* One more walked gate is the last writer of its wire or leaves it alone.
LEMMA WriterStep ==
  ASSUME BaseInv, [Next]_vars
  PROVE  WriterInv'
<1> USE DEF BaseInv
<1>0. TypeOK /\ ControlInv  BY DEF ControlInv
<1>1. ASSUME NEW p \in Parties, sent' = [sent EXCEPT ![p] = @ + 1] PROVE WriterInv'
  <2> SUFFICES ASSUME NEW r \in Parties, NEW n \in 0..sent'[r], NEW w \in Wires
               PROVE  \E h \in 0..n : IsLastWriter(h, w, n)
    BY DEF WriterInv
  <2>1. CASE n <= sent[r]  BY <1>0, <2>1 DEF WriterInv, TypeOK
  <2>2. CASE ~(n <= sent[r])
    <3>1. sent[r] \in Nat /\ n = sent[r] + 1  BY <1>0, <1>1, <2>2 DEF TypeOK
    <3>2. \E h \in 0..sent[r] : IsLastWriter(h, w, sent[r])  BY <3>1 DEF WriterInv
    <3>3. IsLastWriter(LastWriter(w, n), w, n)  BY <3>1, <3>2, LastWriterStep
    <3> QED BY <3>3 DEF IsLastWriter
  <2> QED BY <2>1, <2>2
<1>2. CASE sent' = sent  BY <1>2 DEF WriterInv
<1>3. ASSUME NEW p \in Parties, FirstLinear(p) \/ FirstAnd(p) PROVE WriterInv'
  BY <1>1, <1>3 DEF FirstLinear, FirstAnd
<1> QED
  BY <1>2, <1>3
  DEF Next, Step, GenerateTriple, BeginRun, SecondLinear, SecondAnd, EndRound, Finish,
      Terminated, vars

\* The control part of the invariant is inductive.
LEMMA BaseStep == BaseInv /\ [Next]_vars => BaseInv'
  BY ControlStep, NeverAheadStep, WriterStep DEF BaseInv

\* No party is ahead of what its peer has sent.
THEOREM NeverAheadHolds == Spec => []NeverAhead
<1>1. Spec => []BaseInv
  BY BaseInit, BaseStep, PTL DEF Spec
<1>2. BaseInv => NeverAhead
  BY DEF BaseInv
<1> QED BY <1>1, <1>2, PTL

\* The last writer of a wire, as far as a party has come.
LEMMA WriterFacts ==
  ASSUME BaseInv, NEW p \in Parties, NEW n \in 0..sent[p], NEW w \in Wires
  PROVE  /\ LastWriter(w, n) \in 0..n
         /\ IsLastWriter(LastWriter(w, n), w, n)
<1>1. \E h \in 0..n : IsLastWriter(h, w, n)  BY DEF BaseInv, WriterInv
<1> QED BY <1>1 DEF LastWriter
----------------------------------------------------------------------------
(***************************************************************************)
(* The data: words, masked words in the streams, and computed shares.      *)
(***************************************************************************)

DataInv == WordsInv /\ InputsPinned /\ MaskInv /\ ValInv

\* Before run() every wire holds the share setInput wrote.
LEMMA DataInit == Init => DataInv
<1> SUFFICES ASSUME Init PROVE DataInv
  OBVIOUS
<1> USE DEF Init
<1>1. BaseInv  BY BaseInit
<1>2. WordsInv
  <2> SUFFICES ASSUME NEW p \in Parties, NEW w \in Wires
               PROVE  words[p][w] = ValueAt(input[p], val[p], w, sent[p])
    BY DEF WordsInv
  <2>1. 0 \in 0..sent[p] /\ sent[p] = 0  OBVIOUS
  <2>2. LastWriter(w, 0) \in 0..0  BY <1>1, <2>1, WriterFacts
  <2> QED BY <2>1, <2>2 DEF ValueAt
<1>3. InputsPinned  BY DEF InputsPinned
<1>4. MaskInv  BY DEF MaskInv
<1>5. ValInv  BY DEF ValInv
<1> QED BY <1>2, <1>3, <1>4, <1>5 DEF DataInv

\* Steps that move no share keep the data invariant.
LEMMA DataQuiet ==
  ASSUME BaseInv, DataInv,
         UNCHANGED <<words, sent, input, val, stream>>,
         NEW p \in Parties,
         \/ deal' = deal
         \/ \A q \in Parties : sent[q] = 0 /\ rcvd[q] = 0,
         \/ rcvd' = rcvd
         \/ rcvd' = [rcvd EXCEPT ![p] = @ + 1] /\ ~IsAnd(rcvd[p] + 1)
  PROVE  DataInv'
<1>1. TypeOK  BY DEF BaseInv, ControlInv
<1>2. \A q \in Parties : \A g \in Nat :
        IsAnd(g) => (g <= rcvd'[q] <=> g <= rcvd[q]) /\ (rcvd'[q] < g <=> rcvd[q] < g)
  <2> SUFFICES ASSUME NEW q \in Parties, NEW g \in Nat, IsAnd(g)
               PROVE  (g <= rcvd'[q] <=> g <= rcvd[q]) /\ (rcvd'[q] < g <=> rcvd[q] < g)
    OBVIOUS
  <2>1. rcvd[q] \in Nat  BY <1>1 DEF TypeOK
  <2>2. \/ rcvd'[q] = rcvd[q]
        \/ rcvd'[q] = rcvd[q] + 1 /\ ~IsAnd(rcvd[q] + 1)
    BY <1>1 DEF TypeOK
  <2>3. ~IsAnd(rcvd[q] + 1) => g # rcvd[q] + 1  OBVIOUS
  <2> QED BY <2>1, <2>2, <2>3
<1>3. WordsInv'
  <2> SUFFICES ASSUME NEW q \in Parties, NEW w \in Wires,
                      ~(LastWriter(w, sent[q]) > rcvd'[q] /\ IsAnd(LastWriter(w, sent[q])))
               PROVE  words[q][w] = ValueAt(input[q], val[q], w, sent[q])
    BY DEF WordsInv
  <2>1. sent[q] \in Nat  BY <1>1 DEF TypeOK
  <2>2. LastWriter(w, sent[q]) \in Nat  BY <2>1, WriterFacts
  <2> QED BY <1>2, <2>2 DEF DataInv, WordsInv
<1>4. InputsPinned'
  <2> SUFFICES ASSUME NEW q \in Parties, NEW g \in 1..NumGates,
                      IsAnd(g), rcvd'[q] < g, g <= sent[q]
               PROVE  /\ words[q][Gates[g].in0] = ValueAt(input[q], val[q], Gates[g].in0, g - 1)
                      /\ words[q][Gates[g].in1] = ValueAt(input[q], val[q], Gates[g].in1, g - 1)
    BY DEF InputsPinned, X, Y
  <2> QED BY <1>2 DEF DataInv, InputsPinned, X, Y
<1>5. MaskInv'
  <2>1. CASE deal' = deal
    BY <2>1 DEF DataInv, MaskInv, SentFor, In0, In1
  <2>2. CASE \A q \in Parties : sent[q] = 0 /\ rcvd[q] = 0
    BY <2>2 DEF MaskInv
  <2> QED BY <2>1, <2>2
<1>6. ValInv'
  <2>1. CASE deal' = deal
    <3>1. ASSUME NEW q \in Parties, NEW g \in 1..sent[q], ~IsAnd(g)
          PROVE  val'[q][g] = LinearGate(q, Gates[g].type, In0(q, g), In1(q, g))'
      BY <3>1 DEF DataInv, ValInv, In0, In1
    <3>2. ASSUME NEW q \in Parties, NEW g \in 1..rcvd'[q], IsAnd(g)
          PROVE  val'[q][g] = RecvFor(q, g)'
      <4>1. g \in 1..rcvd[q]  BY <1>1, <1>2, <3>2 DEF TypeOK
      <4>2. val[q][g] = RecvFor(q, g)  BY <3>2, <4>1 DEF DataInv, ValInv
      <4>3. RecvFor(q, g)' = RecvFor(q, g)
        BY <2>1 DEF RecvFor, SentFor, In0, In1
      <4> QED BY <4>2, <4>3
    <3> QED BY <3>1, <3>2 DEF ValInv
  <2>2. CASE \A q \in Parties : sent[q] = 0 /\ rcvd[q] = 0
    <3>1. \A q \in Parties : \A g \in 1..rcvd'[q] : ~IsAnd(g)
      BY <1>1, <1>2, <2>2 DEF TypeOK
    <3> QED BY <2>2, <3>1 DEF ValInv
  <2> QED BY <2>1, <2>2
<1> QED BY <1>3, <1>4, <1>5, <1>6 DEF DataInv

\* In the level a party is in, the AND gates it has sent and not received are
\* exactly the ones levelization protects from the gates around them.
LEMMA PendingSameLevel ==
  ASSUME BaseInv, NEW p \in Parties, InRound(p),
         NEW h \in 1..NumGates, NEW g \in 1..NumGates,
         rcvd[p] < h, h <= LevelLast(p), rcvd[p] < g, g <= LevelLast(p), h < g, IsAnd(h)
  PROVE  /\ Gates[h].out \notin Reads(g)
         /\ Gates[g].out \notin Reads(h)
         /\ ~IsAnd(g) => Gates[g].out # Gates[h].out
<1>1. round[p] + 1 \in 1..NumRounds
  BY CircuitFacts DEF BaseInv, ControlInv, TypeOK, InRound
<1>2. /\ (round[p] + 1) - 1 = round[p] /\ End(round[p]) \in Nat /\ rcvd[p] \in Nat
      /\ End(round[p]) <= rcvd[p] /\ LevelLast(p) \in Nat
  BY AtGate DEF BaseInv, ControlInv, TypeOK, LevelInv, InRound
<1>3. {h, g} \subseteq End((round[p] + 1) - 1) + 1 .. End(round[p] + 1)
  BY <1>2 DEF LevelLast
<1>4. SameLevel(h, g)  BY <1>1, <1>3 DEF SameLevel
<1> QED BY <1>4, GmwAssumption DEF GmwAssumption, Levelized

\* A wire a gate reads in its first loop holds the gate's input share.
LEMMA ReadClean ==
  ASSUME BaseInv, DataInv, NEW p \in Parties, InRound(p), sent[p] < LevelLast(p),
         NEW w \in Reads(sent[p] + 1), w \in Wires
  PROVE  words[p][w] = ValueAt(input[p], val[p], w, sent[p])
<1> DEFINE h == LastWriter(w, sent[p])
<1>1. sent[p] \in Nat /\ sent[p] + 1 \in 1..NumGates /\ rcvd[p] \in Nat
  BY AtGate DEF BaseInv, ControlInv, TypeOK
<1>2. h \in 0..sent[p] /\ IsLastWriter(h, w, sent[p])  BY <1>1, WriterFacts
<1>3. ~(h > rcvd[p] /\ IsAnd(h))
  <2> SUFFICES ASSUME h > rcvd[p], IsAnd(h) PROVE FALSE
    OBVIOUS
  <2>1. h \in 1..NumGates /\ Gates[h].out = w
    <3> HIDE DEF h
    <3>1. h \in 0..sent[p] /\ h # 0  BY <1>1, <1>2
    <3> QED BY <1>1, <1>2, <3>1, CircuitFacts DEF IsLastWriter
  <2>2. LevelLast(p) \in Nat /\ rcvd[p] < sent[p] + 1 /\ sent[p] + 1 <= LevelLast(p)
    BY <1>1, AtGate DEF BaseInv, ControlInv, LevelInv
  <2>3. h <= LevelLast(p) /\ h < sent[p] + 1  BY <1>1, <1>2, <2>2
  <2> HIDE DEF h
  <2> QED BY <1>1, <2>1, <2>2, <2>3, PendingSameLevel
<1> QED BY <1>3 DEF DataInv, WordsInv
\* What a party has recorded for earlier gates survives a new value for gate g,
\* on every wire g is not the last writer of.
LEMMA ValueStable ==
  ASSUME NEW inp, NEW vals, NEW vals2, NEW w, NEW n,
         LastWriter(w, n) # 0 => vals2[LastWriter(w, n)] = vals[LastWriter(w, n)]
  PROVE  ValueAt(inp, vals2, w, n) = ValueAt(inp, vals, w, n)
  BY DEF ValueAt

\* A local gate of the first loop keeps what is known of words, masks and shares.
LEMMA FirstLinearData ==
  ASSUME BaseInv, DataInv, NEW p \in Parties, FirstLinear(p)
  PROVE  DataInv'
<1> DEFINE g == sent[p] + 1
           z == LinearGate(p, Gates[g].type, X(p, g), Y(p, g))
<1>0. /\ InRound(p) /\ sent[p] < LevelLast(p) /\ ~IsAnd(g)
      /\ words' = [words EXCEPT ![p][Gates[g].out] = z]
      /\ val' = [val EXCEPT ![p][g] = z]
      /\ sent' = [sent EXCEPT ![p] = g]
      /\ UNCHANGED <<deal, pos, status, round, rcvd, stream, got, input>>
  BY DEF FirstLinear
<1>1. TypeOK  BY DEF BaseInv, ControlInv
<1>2. /\ g \in 1..NumGates /\ sent[p] \in Nat /\ rcvd[p] \in Nat /\ rcvd[p] <= sent[p]
      /\ LevelLast(p) \in Nat /\ g <= LevelLast(p) /\ g = sent[p] + 1
  BY <1>0, AtGate DEF BaseInv, ControlInv, TypeOK, LevelInv
<1>3. z = LinearGate(p, Gates[g].type, In0(p, g), In1(p, g))
  <2>1. Gates[g].in0 \in Wires /\ Gates[g].in1 \in Wires /\ g - 1 = sent[p]
    BY <1>2, GateFacts
  <2>2. X(p, g) = In0(p, g)
    <3>1. Gates[g].in0 \in Reads(sent[p] + 1)  BY DEF Reads
    <3> QED BY <1>0, <2>1, <3>1, ReadClean DEF X, In0
  <2>3. Gates[g].type # "a" => Y(p, g) = In1(p, g)
    <3> HAVE Gates[g].type # "a"
    <3>1. Gates[g].in1 \in Reads(sent[p] + 1)  BY DEF Reads
    <3> QED BY <1>0, <2>1, <3>1, ReadClean DEF Y, In1
  <2> QED BY <2>2, <2>3 DEF LinearGate
<1> HIDE DEF z, g
<1>4. /\ val'[p][g] = z /\ \A k \in 1..NumGates : k # g => val'[p][k] = val[p][k]
      /\ \A q \in Parties : q # p => val'[q] = val[q] /\ words'[q] = words[q] /\ sent'[q] = sent[q]
      /\ words'[p][Gates[g].out] = z
      /\ \A w \in Wires : w # Gates[g].out => words'[p][w] = words[p][w]
      /\ sent'[p] = g
  BY <1>0, <1>1, <1>2, GateFacts DEF TypeOK
<1>4a. NumGates \in Nat /\ \A q \in Parties :
         /\ sent[q] \in 0..NumGates /\ rcvd[q] \in 0..NumGates /\ rcvd[q] <= sent[q]
         /\ sent'[q] \in 0..NumGates /\ sent[q] <= sent'[q]
  <2>1. \A q \in Parties : sent'[q] = IF q = p THEN sent[q] + 1 ELSE sent[q]
    BY <1>2, <1>4
  <2>2. \A q \in Parties : rcvd[q] <= sent[q]
    BY DEF BaseInv, ControlInv, LevelInv
  <2>3. \A q \in Parties : sent[q] \in 0..NumGates /\ rcvd[q] \in 0..NumGates
    BY <1>1 DEF TypeOK
  <2>4. sent[p] + 1 \in 0..NumGates /\ sent[p] <= sent[p] + 1
    BY <1>2, CircuitFacts
  <2> QED BY <2>1, <2>2, <2>3, <2>4, CircuitFacts
\* Gates up to g read what they read before.
<1>5. \A w \in Wires, n \in 0..sent[p] :
        ValueAt(input[p], val'[p], w, n) = ValueAt(input[p], val[p], w, n)
  <2> SUFFICES ASSUME NEW w \in Wires, NEW n \in 0..sent[p]
               PROVE  ValueAt(input[p], val'[p], w, n) = ValueAt(input[p], val[p], w, n)
    OBVIOUS
  <2>1. LastWriter(w, n) \in 0..n  BY WriterFacts
  <2>2. LastWriter(w, n) # 0 => LastWriter(w, n) \in 1..NumGates /\ LastWriter(w, n) # g
    BY <1>2, <1>4a, <2>1
  <2> QED BY <1>4, <2>2, ValueStable
<1>6. \A q \in Parties, k \in 1..NumGates :
        k <= sent'[q] => In0(q, k)' = In0(q, k) /\ In1(q, k)' = In1(q, k)
  <2> SUFFICES ASSUME NEW q \in Parties, NEW k \in 1..NumGates, k <= sent'[q]
               PROVE  In0(q, k)' = In0(q, k) /\ In1(q, k)' = In1(q, k)
    OBVIOUS
  <2>1. CASE q = p
    <3>1. k - 1 \in 0..sent[p]  BY <1>2, <1>4, <2>1
    <3> QED BY <1>0, <1>5, <2>1, <3>1, GateFacts DEF In0, In1
  <2>2. CASE q # p  BY <1>0, <1>4, <2>2 DEF In0, In1
  <2> QED BY <2>1, <2>2
<1>7. \A q \in Parties, k \in 1..NumGates : k <= sent'[q] => SentFor(q, k)' = SentFor(q, k)
  BY <1>0, <1>6 DEF SentFor
<1>8. \A q \in Parties, k \in 1..NumGates :
        k <= sent'[q] /\ ~(q = p /\ k = g) => k <= sent[q]
  BY <1>2, <1>4, <1>4a
<1>9. WordsInv'
  <2> SUFFICES ASSUME NEW q \in Parties, NEW w \in Wires
               PROVE  LET h == LastWriter(w, sent'[q])
                      IN \/ h > rcvd[q] /\ IsAnd(h)
                         \/ words'[q][w] = ValueAt(input[q], val'[q], w, sent'[q])
    BY <1>0 DEF WordsInv
  <2>1. CASE q # p  BY <1>4, <2>1 DEF DataInv, WordsInv
  <2>2. CASE q = p
    <3>0. sent[p] \in 0..sent[p]  BY <1>2
    <3>1. LastWriter(w, g) = IF Gates[g].out = w THEN g ELSE LastWriter(w, sent[p])
      <4>1. \E h \in 0..sent[p] : IsLastWriter(h, w, sent[p])  BY <3>0 DEF BaseInv, WriterInv
      <4> QED BY <1>2, <4>1, LastWriterStep
    <3>2. CASE Gates[g].out = w
      <4>1. ValueAt(input[p], val'[p], w, g) = z
        BY <1>2, <1>4, <3>1, <3>2 DEF ValueAt
      <4> QED BY <1>4, <2>2, <3>2, <4>1
    <3>3. CASE Gates[g].out # w
      <4>1. ValueAt(input[p], val'[p], w, g) = ValueAt(input[p], val[p], w, sent[p])
        <5>1. ValueAt(input[p], val'[p], w, g) = ValueAt(input[p], val'[p], w, sent[p])
          BY <3>1, <3>3 DEF ValueAt
        <5> QED BY <1>5, <3>0, <5>1
      <4>2. words'[p][w] = words[p][w]  BY <1>4, <3>3
      <4> QED BY <1>4, <2>2, <3>1, <3>3, <4>1, <4>2 DEF DataInv, WordsInv
    <3> QED BY <3>2, <3>3
  <2> QED BY <2>1, <2>2
<1>10. InputsPinned'
  <2> SUFFICES ASSUME NEW q \in Parties, NEW k \in 1..NumGates,
                      IsAnd(k), rcvd[q] < k, k <= sent'[q]
               PROVE  X(q, k)' = In0(q, k)' /\ Y(q, k)' = In1(q, k)'
    BY <1>0 DEF InputsPinned, In0, In1
  <2>1. k <= sent[q]  BY <1>0, <1>4, <1>8
  <2>2. X(q, k) = In0(q, k) /\ Y(q, k) = In1(q, k)
    BY <2>1 DEF DataInv, InputsPinned, In0, In1
  <2>3. X(q, k)' = X(q, k) /\ Y(q, k)' = Y(q, k)
    <3>1. CASE q # p  BY <1>4, <3>1 DEF X, Y
    <3>2. CASE q = p
      <4>1. Gates[g].out \notin Reads(k)
        BY <1>0, <1>2, <2>1, <3>2, PendingSameLevel
      <4>2. Reads(k) = {Gates[k].in0, Gates[k].in1}
        BY DEF Reads, IsAnd, AndTypes
      <4> QED BY <1>4, <3>2, <4>1, <4>2, GateFacts DEF X, Y
    <3> QED BY <3>1, <3>2
  <2> QED BY <1>6, <2>2, <2>3
<1>11. MaskInv'
  <2> SUFFICES ASSUME NEW q \in Parties, NEW k \in 1..sent'[q], IsAnd(k)
               PROVE  /\ stream[q][2 * AndBefore(k) - 1] = SentFor(q, k)'[1]
                      /\ stream[q][2 * AndBefore(k)] = SentFor(q, k)'[2]
    BY <1>0 DEF MaskInv
  <2>1. k \in 1..NumGates /\ k <= sent'[q]  BY <1>4a
  <2>2. k \in 1..sent[q]  BY <1>0, <1>4, <1>8, <2>1
  <2> QED BY <1>7, <2>1, <2>2 DEF DataInv, MaskInv
<1>12. ValInv'
  <2>1. ASSUME NEW q \in Parties, NEW k \in 1..sent'[q], ~IsAnd(k)
        PROVE  val'[q][k] = LinearGate(q, Gates[k].type, In0(q, k)', In1(q, k)')
    <3>1. k \in 1..NumGates /\ k <= sent'[q]  BY <1>4a
    <3>2. CASE q = p /\ k = g  BY <1>3, <1>4, <1>6, <3>1, <3>2
    <3>3. CASE ~(q = p /\ k = g)
      <4>1. k \in 1..sent[q] /\ val'[q][k] = val[q][k]
        BY <1>1, <1>4, <1>8, <3>1, <3>3 DEF TypeOK
      <4> QED BY <1>6, <2>1, <3>1, <4>1 DEF DataInv, ValInv
    <3> QED BY <3>2, <3>3
  <2>2. ASSUME NEW q \in Parties, NEW k \in 1..rcvd'[q], IsAnd(k)
        PROVE  val'[q][k] = RecvFor(q, k)'
    <3>1. k \in 1..NumGates /\ k <= rcvd[q] /\ k <= sent[q]
      BY <1>0, <1>4a
    <3>2. k <= sent'[q] /\ k <= sent'[Peer(q)] /\ Peer(q) \in Parties
      <4>1. Peer(q) \in Parties  BY DEF Peer, Parties
      <4>2. k <= sent[Peer(q)]  BY <2>2, <3>1 DEF BaseInv, NeverAhead
      <4> QED BY <1>4a, <3>1, <4>1, <4>2
    <3>3. RecvFor(q, k)' = RecvFor(q, k)
      BY <1>0, <1>6, <1>7, <3>1, <3>2 DEF RecvFor
    <3>4. val'[q][k] = val[q][k]
      BY <1>0, <1>4, <2>2, <3>1
    <3> QED BY <2>2, <3>1, <3>3, <3>4 DEF DataInv, ValInv
  <2> QED BY <2>1, <2>2 DEF ValInv
<1> QED BY <1>9, <1>10, <1>11, <1>12 DEF DataInv

\* So does the masking of an AND gate in the first loop,
LEMMA FirstAndData ==
  ASSUME BaseInv, DataInv, NEW p \in Parties, FirstAnd(p)
  PROVE  DataInv'
<1> DEFINE g == sent[p] + 1
           m == MultSend(p, FrontOf(p, "A"), FrontOf(p, "C"), X(p, g), Y(p, g), Gates[g].type)
<1>0. /\ InRound(p) /\ sent[p] < LevelLast(p) /\ IsAnd(g)
      /\ stream' = [stream EXCEPT ![p] = @ \o m]
      /\ sent' = [sent EXCEPT ![p] = g]
      /\ UNCHANGED <<words, deal, rcvd, input, val>>
  BY DEF FirstAnd
<1>1. TypeOK /\ LockStep  BY DEF BaseInv, ControlInv
<1>2. /\ g \in 1..NumGates /\ sent[p] \in Nat /\ rcvd[p] \in Nat /\ rcvd[p] <= sent[p]
      /\ g = sent[p] + 1
  BY <1>0, AtGate DEF BaseInv, ControlInv, TypeOK, LevelInv
<1>3. X(p, g) = In0(p, g) /\ Y(p, g) = In1(p, g)
  <2>1. Gates[g].in0 \in Wires /\ Gates[g].in1 \in Wires /\ g - 1 = sent[p]
    BY <1>2, GateFacts
  <2>2. Gates[g].in0 \in Reads(sent[p] + 1) /\ Gates[g].in1 \in Reads(sent[p] + 1)
    BY <1>0 DEF Reads, IsAnd, AndTypes
  <2> QED BY <1>0, <2>1, <2>2, ReadClean DEF X, Y, In0, In1
<1>4. AndBefore(g) = AndBefore(sent[p]) + 1 /\ AndBefore(sent[p]) \in Nat
  BY <1>0, <1>2, AndBeforeStep, AndBeforeType
<1>5. m = SentFor(p, g)
  <2>1. pos[p]["A"] + 1 = AndBefore(g) /\ pos[p]["C"] + 1 = AndBefore(g)
    BY <1>0, <1>1, <1>4 DEF LockStep, InRound
  <2>2. FrontOf(p, "A") = deal[p].A[AndBefore(g)] /\ FrontOf(p, "C") = deal[p].C[AndBefore(g)]
    BY <2>1 DEF FrontOf
  <2> QED BY <1>3, <2>2 DEF SentFor
<1>6. m \in Seq(Bit) /\ Len(m) = 2
  <2>1. X(p, g) \in Bit /\ Y(p, g) \in Bit
    BY <1>1, <1>2, GateFacts DEF X, Y, TypeOK
  <2>2. HasDeal(deal)  BY <1>0, <1>2, AndHasDeal DEF BaseInv
  <2>3. AndBefore(g) \in 1..NumTriples  BY <1>0, <1>2, GateFacts
  <2>4. pos[p]["A"] + 1 = AndBefore(g) /\ pos[p]["C"] + 1 = AndBefore(g)
    BY <1>0, <1>1, <1>4 DEF LockStep, InRound
  <2>5. FrontOf(p, "A") \in Bit /\ FrontOf(p, "C") \in Bit
    BY <1>1, <2>2, <2>3, <2>4, DealFacts DEF FrontOf
  <2> HIDE DEF g
  <2> QED BY <2>1, <2>5, SendType
<1> HIDE DEF m, g
<1>7. /\ sent'[p] = g
      /\ \A q \in Parties : q # p => sent'[q] = sent[q] /\ stream'[q] = stream[q]
      /\ stream'[p] = stream[p] \o m
  BY <1>0, <1>1 DEF TypeOK
<1>8. NumGates \in Nat /\ \A q \in Parties :
         sent[q] \in 0..NumGates /\ sent'[q] \in 0..NumGates
  <2>1. \A q \in Parties : sent[q] \in 0..NumGates  BY <1>1 DEF TypeOK
  <2>2. g \in 0..NumGates  BY <1>2, CircuitFacts
  <2>3. \A q \in Parties : sent'[q] \in 0..NumGates  BY <1>7, <2>1, <2>2
  <2> QED BY <2>1, <2>3, CircuitFacts
<1>9. \A q \in Parties, k \in 1..NumGates :
        k <= sent'[q] /\ ~(q = p /\ k = g) => k <= sent[q]
  BY <1>2, <1>7, <1>8
<1>10. WordsInv'
  <2> SUFFICES ASSUME NEW q \in Parties, NEW w \in Wires
               PROVE  LET h == LastWriter(w, sent'[q])
                      IN \/ h > rcvd[q] /\ IsAnd(h)
                         \/ words[q][w] = ValueAt(input[q], val[q], w, sent'[q])
    BY <1>0 DEF WordsInv
  <2>1. CASE q # p  BY <1>7, <2>1 DEF DataInv, WordsInv
  <2>2. CASE q = p
    <3>1. LastWriter(w, g) = IF Gates[g].out = w THEN g ELSE LastWriter(w, sent[p])
      <4>1. sent[p] \in 0..sent[p]  BY <1>2
      <4>2. \E h \in 0..sent[p] : IsLastWriter(h, w, sent[p])
        BY <4>1 DEF BaseInv, WriterInv
      <4> QED BY <1>2, <4>2, LastWriterStep
    <3>2. CASE Gates[g].out = w  BY <1>0, <1>2, <1>7, <2>2, <3>1, <3>2
    <3>3. CASE Gates[g].out # w
      <4>1. ValueAt(input[p], val[p], w, g) = ValueAt(input[p], val[p], w, sent[p])
        BY <3>1, <3>3 DEF ValueAt
      <4> QED BY <1>7, <2>2, <3>1, <3>3, <4>1 DEF DataInv, WordsInv
    <3> QED BY <3>2, <3>3
  <2> QED BY <2>1, <2>2
<1>11. InputsPinned'
  <2> SUFFICES ASSUME NEW q \in Parties, NEW k \in 1..NumGates,
                      IsAnd(k), rcvd[q] < k, k <= sent'[q]
               PROVE  X(q, k) = In0(q, k) /\ Y(q, k) = In1(q, k)
    BY <1>0 DEF InputsPinned, In0, In1, X, Y
  <2>1. CASE q = p /\ k = g  BY <1>3, <2>1
  <2>2. CASE ~(q = p /\ k = g)
    BY <1>9, <2>2 DEF DataInv, InputsPinned, In0, In1
  <2> QED BY <2>1, <2>2
<1>12. MaskInv'
  <2> SUFFICES ASSUME NEW q \in Parties, NEW k \in 1..sent'[q], IsAnd(k)
               PROVE  /\ stream'[q][2 * AndBefore(k) - 1] = SentFor(q, k)[1]
                      /\ stream'[q][2 * AndBefore(k)] = SentFor(q, k)[2]
    <3>1. \A q, k : SentFor(q, k)' = SentFor(q, k)  BY <1>0 DEF SentFor, In0, In1
    <3> QED BY <3>1 DEF MaskInv
  <2>1. k \in 1..NumGates /\ k <= sent'[q]  BY <1>8
  <2>2. stream[p] \in Seq(Bit) /\ Len(stream[p]) = 2 * AndBefore(sent[p])
    BY <1>1 DEF TypeOK, LockStep
  <2>3. CASE q = p /\ k = g
    <3>1. 2 * AndBefore(g) - 1 = Len(stream[p]) + 1 /\ 2 * AndBefore(g) = Len(stream[p]) + 2
      BY <1>4, <2>2
    <3>2. (stream[p] \o m)[Len(stream[p]) + 1] = m[1]
          /\ (stream[p] \o m)[Len(stream[p]) + 2] = m[2]
      <4>1. Len(stream[p]) \in Nat  BY <2>2
      <4>2. \A i \in 1..Len(stream[p]) + Len(m) :
              (stream[p] \o m)[i] = IF i <= Len(stream[p]) THEN stream[p][i]
                                                          ELSE m[i - Len(stream[p])]
        BY <1>6, <2>2, ConcatProperties
      <4> DEFINE L == Len(stream[p])
      <4>3. L \in Nat /\ L + 1 \in 1..L + Len(m) /\ L + 2 \in 1..L + Len(m)
        BY <1>6, <4>1
      <4>4. ~(L + 1 <= L) /\ ~(L + 2 <= L) /\ (L + 1) - L = 1 /\ (L + 2) - L = 2
        BY <4>3
      <4> QED BY <4>2, <4>3, <4>4
    <3> QED BY <1>5, <1>7, <2>3, <3>1, <3>2
  <2>4. CASE ~(q = p /\ k = g)
    <3>1. k \in 1..sent[q]  BY <1>9, <2>1, <2>4, <1>8
    <3>2. /\ stream[q][2 * AndBefore(k) - 1] = SentFor(q, k)[1]
          /\ stream[q][2 * AndBefore(k)] = SentFor(q, k)[2]
      BY <3>1 DEF DataInv, MaskInv
    <3>3. CASE q # p  BY <1>7, <3>2, <3>3
    <3>4. CASE q = p
      <4>1. AndBefore(k) \in Nat /\ AndBefore(k) >= 1 /\ AndBefore(k) <= AndBefore(sent[p])
        BY <1>2, <2>1, <3>1, <3>4, AndBeforeType, AndBeforeGate
      <4>2. /\ 2 * AndBefore(k) - 1 \in 1..Len(stream[p])
            /\ 2 * AndBefore(k) \in 1..Len(stream[p])
        BY <1>4, <2>2, <4>1
      <4>3. \A i \in 1..Len(stream[p]) : (stream[p] \o m)[i] = stream[p][i]
        BY <1>6, <2>2, ConcatProperties
      <4> QED BY <1>7, <3>2, <3>4, <4>2, <4>3
    <3> QED BY <3>3, <3>4
  <2> QED BY <2>3, <2>4
<1>13. ValInv'
  <2>1. ASSUME NEW q \in Parties, NEW k \in 1..sent'[q], ~IsAnd(k)
        PROVE  val[q][k] = LinearGate(q, Gates[k].type, In0(q, k), In1(q, k))
    <3>1. k \in 1..sent[q]  BY <1>0, <1>8, <1>9, <2>1
    <3> QED BY <2>1, <3>1 DEF DataInv, ValInv
  <2>2. ASSUME NEW q \in Parties, NEW k \in 1..rcvd[q], IsAnd(k)
        PROVE  val[q][k] = RecvFor(q, k)
    BY <2>2 DEF DataInv, ValInv
  <2> QED BY <1>0, <2>1, <2>2 DEF ValInv, RecvFor, SentFor, In0, In1
<1> QED BY <1>10, <1>11, <1>12, <1>13 DEF DataInv

\* and the opening of one in the second, which may write in place.
LEMMA SecondAndData ==
  ASSUME BaseInv, DataInv, NEW p \in Parties, SecondAnd(p)
  PROVE  DataInv'
<1> DEFINE g == rcvd[p] + 1
           o == Peer(p)
           z == MultRecv(p, FrontOf(p, "B"), FrontOf(p, "C2"), FrontOf(p, "D"),
                         X(p, g), Y(p, g),
                         stream[o][got[p] + 1], stream[o][got[p] + 2], Gates[g].type)
<1>0. /\ InRound(p) /\ IsAnd(g) /\ sent[p] = LevelLast(p) /\ rcvd[p] < LevelLast(p)
      /\ words' = [words EXCEPT ![p][Gates[g].out] = z]
      /\ val' = [val EXCEPT ![p][g] = z]
      /\ rcvd' = [rcvd EXCEPT ![p] = g]
      /\ UNCHANGED <<deal, status, round, sent, stream, input>>
  BY DEF SecondAnd
<1>1. TypeOK /\ LockStep  BY DEF BaseInv, ControlInv
<1>2. /\ g \in 1..NumGates /\ rcvd[p] \in Nat /\ g = rcvd[p] + 1 /\ g <= sent[p]
      /\ sent[p] \in Nat /\ o \in Parties
  BY <1>0, <1>1, AtGate DEF BaseInv, TypeOK, Peer, Parties
<1>3. /\ g <= sent[o]
      /\ \A q \in Parties, k \in 1..NumGates :
            (IsAnd(k) /\ k <= rcvd'[q]) => k <= sent[q] /\ k <= sent[Peer(q)]
  <2>1. NeverAhead' /\ LevelInv' /\ TypeOK'
    <3>1. [Next]_vars  BY DEF Next, Step
    <3> QED BY <3>1, BaseStep DEF BaseInv, ControlInv
  <2>2. rcvd'[p] = g  BY <1>0, <1>1 DEF TypeOK
  <2>3. \A q \in Parties : rcvd'[q] \in Nat /\ sent[q] \in Nat /\ rcvd'[q] <= sent[q]
    BY <1>0, <2>1 DEF LevelInv, TypeOK
  <2>4. \A q \in Parties, k \in 1..NumGates :
            (IsAnd(k) /\ k <= rcvd'[q]) => k <= sent[Peer(q)]
    BY <1>0, <2>1 DEF NeverAhead
  <2>5. g <= sent[o]  BY <1>0, <1>2, <2>2, <2>4
  <2> QED BY <2>3, <2>4, <2>5
<1>4. z = RecvFor(p, g)
  <2>1. X(p, g) = In0(p, g) /\ Y(p, g) = In1(p, g)
    BY <1>0, <1>2 DEF DataInv, InputsPinned, In0, In1
  <2>2. AndBefore(g) = AndBefore(rcvd[p]) + 1 /\ AndBefore(rcvd[p]) \in Nat
    BY <1>0, <1>2, AndBeforeStep, AndBeforeType
  <2>3. /\ pos[p]["B"] + 1 = AndBefore(g) /\ pos[p]["D"] + 1 = AndBefore(g)
        /\ pos[p]["C2"] + 1 = AndBefore(g)
        /\ got[p] + 1 = 2 * AndBefore(g) - 1 /\ got[p] + 2 = 2 * AndBefore(g)
    <3>1. /\ pos[p]["B"] = AndBefore(rcvd[p]) /\ pos[p]["D"] = AndBefore(rcvd[p])
          /\ pos[p]["C2"] = AndBefore(rcvd[p]) /\ got[p] = 2 * AndBefore(rcvd[p])
      BY <1>0, <1>1 DEF LockStep, InRound
    <3> QED BY <2>2, <3>1
  <2>4. /\ FrontOf(p, "B") = deal[p].B[AndBefore(g)] /\ FrontOf(p, "C2") = deal[p].C[AndBefore(g)]
        /\ FrontOf(p, "D") = deal[p].D[AndBefore(g)]
    BY <2>3 DEF FrontOf
  <2>5. /\ stream[o][got[p] + 1] = SentFor(o, g)[1]
        /\ stream[o][got[p] + 2] = SentFor(o, g)[2]
    <3>1. g \in 1..sent[o]  BY <1>1, <1>2, <1>3 DEF TypeOK
    <3>2. /\ stream[o][2 * AndBefore(g) - 1] = SentFor(o, g)[1]
          /\ stream[o][2 * AndBefore(g)] = SentFor(o, g)[2]
      BY <1>0, <1>2, <3>1 DEF DataInv, MaskInv
    <3> QED BY <2>3, <3>2
  <2> QED BY <2>1, <2>4, <2>5 DEF RecvFor
<1> HIDE DEF z, g
<1>5. /\ val'[p][g] = z /\ \A k \in 1..NumGates : k # g => val'[p][k] = val[p][k]
      /\ \A q \in Parties : q # p => val'[q] = val[q] /\ words'[q] = words[q] /\ rcvd'[q] = rcvd[q]
      /\ words'[p][Gates[g].out] = z
      /\ \A w \in Wires : w # Gates[g].out => words'[p][w] = words[p][w]
      /\ rcvd'[p] = g
  BY <1>0, <1>1, <1>2, GateFacts DEF TypeOK
<1>6. NumGates \in Nat /\ \A q \in Parties :
        /\ sent[q] \in 0..NumGates /\ rcvd[q] \in 0..NumGates /\ rcvd[q] <= sent[q]
  BY <1>1, CircuitFacts DEF TypeOK, BaseInv, ControlInv, LevelInv
\* No other gate of the level reads the wire, or is read from it, in between.
<1>7. ASSUME NEW k \in 1..NumGates, g < k, k <= sent[p]
      PROVE  /\ Gates[g].out \notin Reads(k)
             /\ ~IsAnd(k) => Gates[k].out # Gates[g].out
  BY <1>0, <1>2, <1>6, <1>7, PendingSameLevel
<1>8. \A w \in Wires, n \in 0..sent[p] :
        LastWriter(w, n) # g =>
          ValueAt(input[p], val'[p], w, n) = ValueAt(input[p], val[p], w, n)
  <2> SUFFICES ASSUME NEW w \in Wires, NEW n \in 0..sent[p], LastWriter(w, n) # g
               PROVE  ValueAt(input[p], val'[p], w, n) = ValueAt(input[p], val[p], w, n)
    OBVIOUS
  <2>1. LastWriter(w, n) \in 0..n  BY WriterFacts
  <2>2. LastWriter(w, n) # 0 => LastWriter(w, n) \in 1..NumGates
    BY <1>2, <1>6, <2>1
  <2> QED BY <1>5, <2>2, ValueStable
<1>9. \A q \in Parties, k \in 1..NumGates : k <= sent[q] =>
        \A w \in Reads(k) \cap Wires :
          ValueAt(input[q], val'[q], w, k - 1) = ValueAt(input[q], val[q], w, k - 1)
  <2> SUFFICES ASSUME NEW q \in Parties, NEW k \in 1..NumGates, k <= sent[q],
                      NEW w \in Reads(k) \cap Wires
               PROVE  ValueAt(input[q], val'[q], w, k - 1) = ValueAt(input[q], val[q], w, k - 1)
    OBVIOUS
  <2>1. CASE q # p  BY <1>5, <2>1
  <2>2. CASE q = p
    <3>1. k - 1 \in 0..sent[p]  BY <1>2, <2>2
    <3>2. LastWriter(w, k - 1) \in 0..k - 1 /\ IsLastWriter(LastWriter(w, k - 1), w, k - 1)
      BY <3>1, WriterFacts
    <3>3. LastWriter(w, k - 1) # g
      <4> SUFFICES ASSUME LastWriter(w, k - 1) = g PROVE FALSE
        OBVIOUS
      <4>1. g < k /\ Gates[g].out = w  BY <1>2, <3>2 DEF IsLastWriter
      <4> QED BY <1>7, <2>2, <4>1
    <3> QED BY <1>8, <2>2, <3>1, <3>3
  <2> QED BY <2>1, <2>2
<1>10. \A q \in Parties, k \in 1..NumGates : k <= sent[q] =>
         /\ In0(q, k)' = In0(q, k)
         /\ Gates[k].type # "a" => In1(q, k)' = In1(q, k)
  <2> SUFFICES ASSUME NEW q \in Parties, NEW k \in 1..NumGates, k <= sent[q]
               PROVE  /\ In0(q, k)' = In0(q, k)
                      /\ Gates[k].type # "a" => In1(q, k)' = In1(q, k)
    OBVIOUS
  <2>1. /\ Gates[k].in0 \in Reads(k) \cap Wires
        /\ Gates[k].type # "a" => Gates[k].in1 \in Reads(k) \cap Wires
    BY GateFacts DEF Reads
  <2> QED BY <1>0, <1>9, <2>1 DEF In0, In1
<1>11. \A q \in Parties, k \in 1..NumGates : (IsAnd(k) /\ k <= sent[q]) =>
         /\ In0(q, k)' = In0(q, k) /\ In1(q, k)' = In1(q, k)
         /\ SentFor(q, k)' = SentFor(q, k)
  <2>1. \A k : IsAnd(k) => Gates[k].type # "a"  BY DEF IsAnd, AndTypes
  <2> QED BY <1>0, <1>10, <2>1 DEF SentFor
<1>12. \A q \in Parties, k \in 1..NumGates :
         (IsAnd(k) /\ k <= rcvd'[q]) => RecvFor(q, k)' = RecvFor(q, k)
  <2> SUFFICES ASSUME NEW q \in Parties, NEW k \in 1..NumGates, IsAnd(k), k <= rcvd'[q]
               PROVE  RecvFor(q, k)' = RecvFor(q, k)
    OBVIOUS
  <2>1. k <= sent[q] /\ k <= sent[Peer(q)] /\ Peer(q) \in Parties
    BY <1>3 DEF Peer, Parties
  <2> QED BY <1>0, <1>11, <2>1 DEF RecvFor
<1>13. WordsInv'
  <2> SUFFICES ASSUME NEW q \in Parties, NEW w \in Wires
               PROVE  LET h == LastWriter(w, sent[q])
                      IN \/ h > rcvd'[q] /\ IsAnd(h)
                         \/ words'[q][w] = ValueAt(input[q], val'[q], w, sent[q])
    BY <1>0 DEF WordsInv
  <2>1. CASE q # p  BY <1>5, <2>1 DEF DataInv, WordsInv
  <2>2. CASE q = p
    <3>0. sent[p] \in 0..sent[p]  BY <1>2
    <3> DEFINE h == LastWriter(w, sent[p])
    <3>1. h \in 0..sent[p] /\ IsLastWriter(h, w, sent[p])  BY <3>0, WriterFacts
    <3>2. h = LastWriter(w, sent[p])  OBVIOUS
    <3> HIDE DEF h
    <3>3. CASE h = g
      <4>1. Gates[g].out = w  BY <1>2, <3>1, <3>3 DEF IsLastWriter
      <4>2. ValueAt(input[p], val'[p], w, sent[p]) = z
        BY <1>2, <1>5, <3>2, <3>3 DEF ValueAt
      <4> QED BY <1>5, <2>2, <4>1, <4>2
    <3>4. CASE h # g /\ Gates[g].out = w
      <4>1. h > g  BY <1>2, <3>1, <3>4 DEF IsLastWriter
      <4>2. h \in 1..NumGates /\ h <= sent[p] /\ Gates[h].out = w
        BY <1>2, <1>6, <3>1, <4>1 DEF IsLastWriter
      <4>3. IsAnd(h)  BY <1>7, <3>4, <4>1, <4>2
      <4> QED BY <1>5, <2>2, <3>2, <4>1, <4>3
    <3>5. CASE h # g /\ Gates[g].out # w
      <4>1. ValueAt(input[p], val'[p], w, sent[p]) = ValueAt(input[p], val[p], w, sent[p])
        BY <1>8, <3>0, <3>2, <3>5
      <4>2. words'[p][w] = words[p][w]  BY <1>5, <3>5
      <4>3. h > rcvd[p] => h > rcvd'[p]  BY <1>2, <1>5, <3>1, <3>5
      <4> QED BY <2>2, <3>2, <4>1, <4>2, <4>3 DEF DataInv, WordsInv
    <3> QED BY <3>3, <3>4, <3>5
  <2> QED BY <2>1, <2>2
<1>14. InputsPinned'
  <2> SUFFICES ASSUME NEW q \in Parties, NEW k \in 1..NumGates,
                      IsAnd(k), rcvd'[q] < k, k <= sent[q]
               PROVE  X(q, k)' = In0(q, k)' /\ Y(q, k)' = In1(q, k)'
    BY <1>0 DEF InputsPinned, In0, In1
  <2>1. rcvd[q] < k  BY <1>2, <1>5, <1>6
  <2>2. X(q, k) = In0(q, k) /\ Y(q, k) = In1(q, k)
    BY <2>1 DEF DataInv, InputsPinned, In0, In1
  <2>3. X(q, k)' = X(q, k) /\ Y(q, k)' = Y(q, k)
    <3>1. CASE q # p  BY <1>5, <3>1 DEF X, Y
    <3>2. CASE q = p
      <4>1. Gates[g].out \notin Reads(k)  BY <1>5, <1>7, <3>2
      <4>2. Reads(k) = {Gates[k].in0, Gates[k].in1}
        BY DEF Reads, IsAnd, AndTypes
      <4> QED BY <1>5, <3>2, <4>1, <4>2, GateFacts DEF X, Y
    <3> QED BY <3>1, <3>2
  <2> QED BY <1>11, <2>2, <2>3
<1>15. MaskInv'
  <2> SUFFICES ASSUME NEW q \in Parties, NEW k \in 1..sent[q], IsAnd(k)
               PROVE  /\ stream[q][2 * AndBefore(k) - 1] = SentFor(q, k)'[1]
                      /\ stream[q][2 * AndBefore(k)] = SentFor(q, k)'[2]
    BY <1>0 DEF MaskInv
  <2>1. k \in 1..NumGates /\ k <= sent[q]  BY <1>6
  <2> QED BY <1>11, <2>1 DEF DataInv, MaskInv
<1>16. ValInv'
  <2>1. ASSUME NEW q \in Parties, NEW k \in 1..sent'[q], ~IsAnd(k)
        PROVE  val'[q][k] = LinearGate(q, Gates[k].type, In0(q, k)', In1(q, k)')
    <3>1. k \in 1..NumGates /\ k <= sent[q] /\ k \in 1..sent[q]  BY <1>0, <1>6
    <3>2. val'[q][k] = val[q][k]  BY <1>0, <1>5, <2>1, <3>1
    <3>3. LinearGate(q, Gates[k].type, In0(q, k)', In1(q, k)')
            = LinearGate(q, Gates[k].type, In0(q, k), In1(q, k))
      BY <1>10, <3>1 DEF LinearGate
    <3> QED BY <2>1, <3>1, <3>2, <3>3 DEF DataInv, ValInv
  <2>2. ASSUME NEW q \in Parties, NEW k \in 1..rcvd'[q], IsAnd(k)
        PROVE  val'[q][k] = RecvFor(q, k)'
    <3>1. k \in 1..NumGates /\ k <= rcvd'[q]
      BY <1>2, <1>5, <1>6
    <3>2. CASE q = p /\ k = g  BY <1>4, <1>5, <1>12, <2>2, <3>1, <3>2
    <3>3. CASE ~(q = p /\ k = g)
      <4>1. k \in 1..rcvd[q] /\ val'[q][k] = val[q][k]
        BY <1>2, <1>5, <1>6, <3>1, <3>3
      <4> QED BY <1>12, <2>2, <3>1, <4>1 DEF DataInv, ValInv
    <3> QED BY <3>2, <3>3
  <2> QED BY <2>1, <2>2 DEF ValInv
<1> QED BY <1>13, <1>14, <1>15, <1>16 DEF DataInv
----------------------------------------------------------------------------
(***************************************************************************)
(* The whole invariant.                                                    *)
(***************************************************************************)

\* The invariant in its two halves, control and data.
LEMMA IInvParts == IInv <=> BaseInv /\ DataInv
  BY DEF IInv, DataInv

\* The invariant holds before run().
LEMMA IInvInit == Init => IInv
  BY BaseInit, DataInit, IInvParts

\* Every step of either party keeps the invariant.
LEMMA IInvStep == IInv /\ [Next]_vars => IInv'
<1> SUFFICES ASSUME BaseInv, DataInv, [Next]_vars PROVE BaseInv' /\ DataInv'
  BY DEF IInv, DataInv
<1>0. BaseInv'  BY BaseStep
<1>1. 0 \in Parties  BY DEF Parties
<1>2. CASE GenerateTriple
  <2>1. \A q \in Parties : sent[q] = 0 /\ rcvd[q] = 0
    BY <1>2 DEF GenerateTriple, BaseInv, ControlInv, LevelInv
  <2>2. UNCHANGED <<words, sent, input, val, stream, rcvd>>  BY <1>2 DEF GenerateTriple
  <2> QED BY <1>0, <1>1, <2>1, <2>2, DataQuiet
<1>3. ASSUME NEW p \in Parties, BeginRun(p) \/ EndRound(p) \/ Finish(p) \/ UNCHANGED vars
      PROVE  DataInv'
  <2>1. UNCHANGED <<words, sent, input, val, stream, rcvd, deal>>
    BY <1>3 DEF BeginRun, EndRound, Finish, vars
  <2>2. UNCHANGED <<words, sent, input, val, stream>> /\ deal' = deal /\ rcvd' = rcvd
    BY <2>1
  <2> QED BY <1>1, <2>2, DataQuiet
<1>4. ASSUME NEW p \in Parties, SecondLinear(p) PROVE DataInv'
  <2>1. /\ UNCHANGED <<words, sent, input, val, stream, deal>>
        /\ rcvd' = [rcvd EXCEPT ![p] = @ + 1] /\ ~IsAnd(rcvd[p] + 1)
    BY <1>4 DEF SecondLinear
  <2> QED BY <2>1, DataQuiet
<1>6. DataInv'
  BY <1>1, <1>2, <1>3, <1>4, FirstLinearData, FirstAndData, SecondAndData
  DEF Next, Step, Terminated
<1> QED BY <1>0, <1>6

\* The inductive invariant behind all the properties of Gmw holds in every run.
THEOREM IInvHolds == Spec => []IInv
  BY IInvInit, IInvStep, PTL DEF Spec

\* The input words of an AND gate are, when the second loop of roundFunction
\* reads them again, what the first loop masked: levels protect them.
THEOREM InputsPinnedHolds == Spec => []InputsPinned
<1>1. IInv => InputsPinned
  BY DEF IInv
<1> QED BY <1>1, IInvHolds, PTL

----------------------------------------------------------------------------
(***************************************************************************)
(* Recombining the shares.                                                 *)
(***************************************************************************)

\* What a wire held after any walked gate is a bit.
LEMMA ValueType ==
  ASSUME BaseInv, NEW p \in Parties, NEW n \in 0..sent[p], NEW w \in Wires
  PROVE  ValueAt(input[p], val[p], w, n) \in Bit
<1>1. LastWriter(w, n) \in 0..n  BY WriterFacts
<1>2. /\ input[p] \in [Wires -> Bit] /\ val[p] \in [1..NumGates -> Bit]
      /\ sent[p] \in 0..NumGates /\ NumGates \in Nat
  BY CircuitFacts DEF BaseInv, ControlInv, TypeOK, Inputs
<1>3. LastWriter(w, n) # 0 => LastWriter(w, n) \in 1..NumGates
  BY <1>1, <1>2
<1> QED BY <1>2, <1>3 DEF ValueAt

\* A gate both parties have finished recombines to its plain value: for a local
\* gate by linearity, for an AND gate because both used the same dealt triple.
LEMMA GateRecombines ==
  ASSUME IInv, NEW g \in 1..NumGates, g <= rcvd[0], g <= rcvd[1]
  PROVE  Xor(val[0][g], val[1][g])
           = EvalGate(Gates[g].type, Xor(In0(0, g), In0(1, g)), Xor(In1(0, g), In1(1, g)))
<1>1. BaseInv /\ DataInv /\ TypeOK  BY DEF IInv, DataInv, BaseInv, ControlInv
<1>2. 0 \in Parties /\ 1 \in Parties /\ Peer(0) = 1 /\ Peer(1) = 0  BY DEF Parties, Peer
<1>3. \A p \in Parties : g \in 1..rcvd[p] /\ g \in 1..sent[p] /\ g - 1 \in 0..sent[p]
  BY <1>1 DEF Parties, BaseInv, ControlInv, LevelInv, TypeOK
<1>4. \A p \in Parties : In0(p, g) \in Bit /\ In1(p, g) \in Bit
  BY <1>1, <1>3, GateFacts, ValueType DEF In0, In1
<1>5. CASE ~IsAnd(g)
  <2>1. \A p \in Parties : val[p][g] = LinearGate(p, Gates[g].type, In0(p, g), In1(p, g))
    BY <1>1, <1>3, <1>5 DEF DataInv, ValInv
  <2>2. Gates[g].type \in LinearTypes  BY <1>5, GateFacts
  <2> QED BY <1>2, <1>4, <2>1, <2>2, LinearAlgebra
<1>6. CASE IsAnd(g)
  <2> DEFINE k == AndBefore(g)
  <2>1. \A p \in Parties : val[p][g] = RecvFor(p, g)
    BY <1>1, <1>3, <1>6 DEF DataInv, ValInv
  <2>2. k \in 1..NumTriples /\ Gates[g].type \in AndTypes  BY <1>6, GateFacts
  <2>3. HasDeal(deal)
    <3>1. NumAnd >= 1
      <4>1. k <= NumAnd /\ k >= 1  BY <1>6, AndBeforeGate, CircuitFacts DEF NumAnd
      <4> QED BY <2>2, <4>1, AndBeforeType, CircuitFacts DEF NumAnd
    <3>2. status[0] # "idle"
      BY <1>1, <1>2, <1>3 DEF BaseInv, ControlInv, LevelInv
    <3> QED BY <1>1, <1>2, <3>1, <3>2 DEF BaseInv, ControlInv, LevelInv
  <2>4. /\ \A p \in Parties : /\ deal[p].A[k] \in Bit /\ deal[p].B[k] \in Bit
                              /\ deal[p].C[k] \in Bit /\ deal[p].D[k] \in Bit
        /\ ValidDeal(deal)
    BY <1>1, <1>2, <2>2, <2>3, DealFacts
  <2>5. /\ Xor(And(deal[0].A[k], deal[1].C[k]), deal[0].B[k]) = deal[1].D[k]
        /\ Xor(And(deal[1].A[k], deal[0].C[k]), deal[1].B[k]) = deal[0].D[k]
    BY <1>2, <2>2, <2>4 DEF ValidDeal
  <2> HIDE DEF k
  <2>6. /\ RecvFor(0, g) = MultRecv(0, deal[0].B[k], deal[0].C[k], deal[0].D[k],
                             In0(0, g), In1(0, g), SentFor(1, g)[1], SentFor(1, g)[2], Gates[g].type)
        /\ RecvFor(1, g) = MultRecv(1, deal[1].B[k], deal[1].C[k], deal[1].D[k],
                             In0(1, g), In1(1, g), SentFor(0, g)[1], SentFor(0, g)[2], Gates[g].type)
    BY <1>2 DEF RecvFor, k
  <2>7. \A p \in Parties : SentFor(p, g) =
          MultSend(p, deal[p].A[k], deal[p].C[k], In0(p, g), In1(p, g), Gates[g].type)
    BY DEF SentFor, k
  <2> DEFINE T == Gates[g].type
             x0 == In0(0, g)  y0 == In1(0, g)  x1 == In0(1, g)  y1 == In1(1, g)
             a0 == deal[0].A[k]  b0 == deal[0].B[k]  c0 == deal[0].C[k]  d0 == deal[0].D[k]
             a1 == deal[1].A[k]  b1 == deal[1].B[k]  c1 == deal[1].C[k]  d1 == deal[1].D[k]
             s0 == MultSend(0, a0, c0, x0, y0, T)
             s1 == MultSend(1, a1, c1, x1, y1, T)
  <2>7a. /\ T \in AndTypes
         /\ x0 \in Bit /\ y0 \in Bit /\ x1 \in Bit /\ y1 \in Bit
         /\ a0 \in Bit /\ b0 \in Bit /\ c0 \in Bit /\ d0 \in Bit
         /\ a1 \in Bit /\ b1 \in Bit /\ c1 \in Bit /\ d1 \in Bit
         /\ Xor(And(a0, c1), b0) = d1 /\ Xor(And(a1, c0), b1) = d0
    BY <1>2, <1>4, <2>2, <2>4, <2>5
  <2>8. Xor(MultRecv(0, b0, c0, d0, x0, y0, s1[1], s1[2], T),
            MultRecv(1, b1, c1, d1, x1, y1, s0[1], s0[2], T))
          = EvalGate(T, Xor(x0, x1), Xor(y0, y1))
    <3>1. s0 = MultSend(0, a0, c0, x0, y0, T) /\ s1 = MultSend(1, a1, c1, x1, y1, T)
      OBVIOUS
    <3> HIDE DEF x0, y0, x1, y1, a0, b0, c0, d0, a1, b1, c1, d1, T, s0, s1
    <3>2. /\ s0[1] = Xor(Xor(a0, x0), InvertA(T))
          /\ s0[2] = Xor(c0, Xor(y0, InvertB(T)))
          /\ s1[1] = Xor(c1, y1)
          /\ s1[2] = Xor(a1, x1)
      BY <2>7a, <3>1 DEF MultSend, MaskedX, MaskedY, InvertA, InvertB, AndTypes, Bit, Xor
    <3> USE <2>7a, <3>2 DEF MultRecv, CrossX, CrossY, EvalGate, Bit, Xor, And, Not
    <3>3. CASE T = "And"  BY <3>3 DEF InvertA, InvertB, InvertC
    <3>4. CASE T = "Or"  BY <3>4 DEF InvertA, InvertB, InvertC
    <3>5. CASE T = "Nor"  BY <3>5 DEF InvertA, InvertB, InvertC
    <3>6. CASE T = "na_And"  BY <3>6 DEF InvertA, InvertB, InvertC
    <3>7. CASE T = "nb_And"  BY <3>7 DEF InvertA, InvertB, InvertC
    <3> QED BY <3>3, <3>4, <3>5, <3>6, <3>7 DEF AndTypes
  <2>9. SentFor(0, g) = s0 /\ SentFor(1, g) = s1  BY <1>2, <2>7
  <2> QED BY <1>2, <2>1, <2>6, <2>8, <2>9
<1> QED BY <1>5, <1>6

\* The gates both parties have finished are those each has finished.
LEMMA BothDoneFacts ==
  ASSUME TypeOK
  PROVE  /\ BothDone \in 0..NumGates /\ BothDone <= rcvd[0] /\ BothDone <= rcvd[1]
         /\ \A n \in Nat : n <= rcvd[0] /\ n <= rcvd[1] => n <= BothDone
  BY CircuitFacts DEF TypeOK, BothDone, Parties

\* Reading a wire of the recombined run is recombining the two wires.
LEMMA ReadRecombines ==
  ASSUME BaseInv, NEW w \in Wires, NEW n \in 0..BothDone
  PROVE  ValueAt(Secret, Recombined, w, n)
           = Xor(ValueAt(input[0], val[0], w, n), ValueAt(input[1], val[1], w, n))
<1>1. TypeOK /\ 0 \in Parties  BY DEF BaseInv, ControlInv, Parties
<1>2. n \in 0..sent[0]
  BY <1>1, BothDoneFacts DEF BaseInv, ControlInv, LevelInv, TypeOK
<1>3. LastWriter(w, n) \in 0..n  BY <1>1, <1>2, WriterFacts
<1>4. LastWriter(w, n) # 0 => LastWriter(w, n) \in 1..BothDone
  BY <1>1, <1>3, BothDoneFacts
<1> QED BY <1>4 DEF ValueAt, Secret, Recombined

\* When both calls of run() have returned, every wire recombines to what the
\* plain evaluation of the circuit leaves on it.
THEOREM OutputCorrectHolds == Spec => []OutputCorrect
<1>1. IInv => OutputCorrect
  <2> SUFFICES ASSUME IInv, \A p \in Parties : status[p] = "done"
               PROVE  /\ IsEvaluation(Secret, Recombined)
                      /\ \A w \in Wires : Xor(words[0][w], words[1][w])
                                            = ValueAt(Secret, Recombined, w, NumGates)
    BY DEF OutputCorrect
  <2>1. BaseInv /\ DataInv /\ TypeOK  BY DEF IInv, DataInv, BaseInv, ControlInv
  <2>2. \A p \in Parties : rcvd[p] = NumGates /\ sent[p] = NumGates
    <3> SUFFICES ASSUME NEW p \in Parties PROVE rcvd[p] = NumGates /\ sent[p] = NumGates
      OBVIOUS
    <3>1. round[p] = NumRounds /\ End(round[p]) <= rcvd[p] /\ rcvd[p] <= sent[p]
      BY <2>1 DEF BaseInv, ControlInv, LevelInv
    <3>2. rcvd[p] \in 0..NumGates /\ sent[p] \in 0..NumGates  BY <2>1 DEF TypeOK
    <3> QED BY <3>1, <3>2, CircuitFacts
  <2>3. BothDone = NumGates /\ NumGates \in 0..BothDone
    BY <2>2, CircuitFacts DEF BothDone, Parties
  <2>4. \A p \in Parties, w \in Wires : words[p][w] = ValueAt(input[p], val[p], w, NumGates)
    <3> SUFFICES ASSUME NEW p \in Parties, NEW w \in Wires
                 PROVE  words[p][w] = ValueAt(input[p], val[p], w, NumGates)
      OBVIOUS
    <3>1. LastWriter(w, sent[p]) \in 0..sent[p]
      <4>1. sent[p] \in 0..sent[p]  BY <2>2, CircuitFacts
      <4> QED BY <2>1, <4>1, WriterFacts
    <3>2. ~(LastWriter(w, sent[p]) > rcvd[p])  BY <2>2, <3>1, CircuitFacts
    <3> QED BY <2>1, <2>2, <3>2 DEF DataInv, WordsInv
  <2>5. IsEvaluation(Secret, Recombined)
    <3> SUFFICES ASSUME NEW g \in 1..NumGates
                 PROVE  Recombined[g] = EvalGate(Gates[g].type,
                           ValueAt(Secret, Recombined, Gates[g].in0, g - 1),
                           ValueAt(Secret, Recombined, Gates[g].in1, g - 1))
      BY DEF IsEvaluation
    <3>1. Recombined[g] = Xor(val[0][g], val[1][g])
      BY <2>3 DEF Recombined
    <3>2. Xor(val[0][g], val[1][g])
            = EvalGate(Gates[g].type, Xor(In0(0, g), In0(1, g)), Xor(In1(0, g), In1(1, g)))
      BY <2>2, GateRecombines, CircuitFacts DEF Parties
    <3>3. g - 1 \in 0..BothDone  BY <2>3, CircuitFacts
    <3>4. Gates[g].in0 \in Wires /\ Gates[g].in1 \in Wires  BY GateFacts
    <3>5. \A w \in Wires : ValueAt(Secret, Recombined, w, g - 1)
            = Xor(ValueAt(input[0], val[0], w, g - 1), ValueAt(input[1], val[1], w, g - 1))
      BY <2>1, <3>3, ReadRecombines
    <3> QED BY <3>1, <3>2, <3>4, <3>5 DEF In0, In1
  <2>6. ASSUME NEW w \in Wires
        PROVE  Xor(words[0][w], words[1][w]) = ValueAt(Secret, Recombined, w, NumGates)
    BY <2>1, <2>3, <2>4, ReadRecombines DEF Parties
  <2> QED BY <2>5, <2>6
<1> QED BY <1>1, IInvHolds, PTL
----------------------------------------------------------------------------
(***************************************************************************)
(* The shared evaluation implements the plain one.                         *)
(***************************************************************************)

\* No step changes the share of a gate both parties have finished, and a step
\* finishes at most one more gate.
LEMMA RecombinedStep ==
  ASSUME IInv, [Next]_vars
  PROVE  /\ Secret' = Secret
         /\ BothDone' \in {BothDone, BothDone + 1}
         /\ \A g \in 1..BothDone : Recombined'[g] = Recombined[g]
         /\ input' = input
         /\ \A p \in Parties, g \in 1..BothDone : val'[p][g] = val[p][g]
<1>1. TypeOK /\ LevelInv  BY DEF IInv, BaseInv, ControlInv
<1>2. NumGates \in Nat /\ \A p \in Parties :
        rcvd[p] \in 0..NumGates /\ sent[p] \in 0..NumGates /\ rcvd[p] <= sent[p]
  BY <1>1, CircuitFacts DEF TypeOK, LevelInv
<1>3. BothDone \in Nat /\ \A p \in Parties : BothDone <= rcvd[p]
  BY <1>1, BothDoneFacts DEF Parties
<1>4. input' = input
  BY DEF Next, Step, GenerateTriple, BeginRun, FirstLinear, FirstAnd, SecondLinear,
         SecondAnd, EndRound, Finish, Terminated, vars
<1>5. rcvd' = rcvd \/ \E p \in Parties : rcvd' = [rcvd EXCEPT ![p] = @ + 1]
  BY DEF Next, Step, GenerateTriple, BeginRun, FirstLinear, FirstAnd, SecondLinear,
         SecondAnd, EndRound, Finish, Terminated, vars
<1>6. BothDone' \in {BothDone, BothDone + 1}
  BY <1>1, <1>2, <1>5 DEF BothDone, Parties, TypeOK
<1>7. \A p \in Parties, g \in 1..BothDone : val'[p][g] = val[p][g]
  <2>1. ASSUME NEW q \in Parties, NEW k \in 1..NumGates, NEW z,
               val' = [val EXCEPT ![q][k] = z], k > rcvd[q]
        PROVE  \A p \in Parties, g \in 1..BothDone : val'[p][g] = val[p][g]
    <3> SUFFICES ASSUME NEW p \in Parties, NEW g \in 1..BothDone
                 PROVE  val'[p][g] = val[p][g]
      OBVIOUS
    <3>1. p = q => g # k  BY <1>2, <1>3, <2>1
    <3>2. val \in [Parties -> [1..NumGates -> Bit]]  BY <1>1 DEF TypeOK
    <3> QED BY <2>1, <3>1, <3>2
  <2>2. ASSUME NEW p \in Parties, FirstLinear(p)
        PROVE  \A q \in Parties, g \in 1..BothDone : val'[q][g] = val[q][g]
    <3>1. sent[p] + 1 \in 1..NumGates /\ sent[p] + 1 > rcvd[p]
      BY <1>2, <2>2, AtGate DEF FirstLinear, IInv, BaseInv
    <3>2. \E z : val' = [val EXCEPT ![p][sent[p] + 1] = z]  BY <2>2 DEF FirstLinear
    <3> QED BY <2>1, <3>1, <3>2
  <2>3. ASSUME NEW p \in Parties, SecondAnd(p)
        PROVE  \A q \in Parties, g \in 1..BothDone : val'[q][g] = val[q][g]
    <3>1. rcvd[p] + 1 \in 1..NumGates /\ rcvd[p] + 1 > rcvd[p]
      BY <1>2, <2>3, AtGate DEF SecondAnd, IInv, BaseInv
    <3>2. \E z : val' = [val EXCEPT ![p][rcvd[p] + 1] = z]  BY <2>3 DEF SecondAnd
    <3> QED BY <2>1, <3>1, <3>2
  <2>4. CASE val' = val  BY <2>4
  <2> QED
    BY <2>2, <2>3, <2>4
    DEF Next, Step, GenerateTriple, BeginRun, FirstAnd, SecondLinear, EndRound, Finish,
        Terminated, vars
<1>8. \A g \in 1..BothDone : Recombined'[g] = Recombined[g]
  <2> SUFFICES ASSUME NEW g \in 1..BothDone PROVE Recombined'[g] = Recombined[g]
    OBVIOUS
  <2>1. g \in 1..BothDone'  BY <1>3, <1>6
  <2>2. Recombined'[g] = Xor(val'[0][g], val'[1][g])  BY <2>1 DEF Recombined
  <2>3. val'[0][g] = val[0][g] /\ val'[1][g] = val[1][g]  BY <1>7 DEF Parties
  <2> QED BY <2>2, <2>3 DEF Recombined
<1> QED BY <1>4, <1>6, <1>7, <1>8 DEF Secret

\* The definitions the instance shares with this module.
LEMMA PlainDefs ==
  /\ Plain!NumGates = NumGates
  /\ Plain!Inputs = Inputs
  /\ \A inp, vals, w, n : Plain!ValueAt(inp, vals, w, n) = ValueAt(inp, vals, w, n)
  /\ \A type, x, y : Plain!EvalGate(type, x, y) = EvalGate(type, x, y)
<1>1. Plain!NumGates = NumGates  BY DEF Plain!NumGates, NumGates
<1>2. Plain!Inputs = Inputs  BY DEF Plain!Inputs, Inputs, Plain!Bit, Bit
<1>3. \A inp, vals, w, n : Plain!ValueAt(inp, vals, w, n) = ValueAt(inp, vals, w, n)
  BY DEF Plain!ValueAt, ValueAt, Plain!LastWriter, LastWriter, Plain!IsLastWriter, IsLastWriter
<1>4. \A type, x, y : Plain!EvalGate(type, x, y) = EvalGate(type, x, y)
  BY DEF Plain!EvalGate, EvalGate, Plain!And, And, Plain!Not, Not, Plain!Xor, Xor
<1> QED BY <1>1, <1>2, <1>3, <1>4

\* Every gate both parties have finished recombines to its plain value.
GateInv ==
  \A g \in 1..NumGates : (g <= rcvd[0] /\ g <= rcvd[1]) =>
     Xor(val[0][g], val[1][g])
       = EvalGate(Gates[g].type, Xor(In0(0, g), In0(1, g)), Xor(In1(0, g), In1(1, g)))

\* Every run of the two-party protocol is, gate by gate, a run of the plain
\* evaluation on the recombined inputs.
THEOREM Implementation == Spec => ImplementsPlain
<1>1. Init => Plain!Init
  <2> SUFFICES ASSUME Init PROVE Secret \in Inputs /\ Recombined = <<>>
    BY PlainDefs DEF Plain!Init
  <2>1. Secret \in Inputs
    BY DEF Init, Secret, Inputs, Parties, Xor, Bit
  <2>2. BothDone = 0  BY DEF Init, BothDone, Parties
  <2> QED BY <2>1, <2>2 DEF Recombined
<1>2. IInv => GateInv
  BY GateRecombines DEF GateInv
<1>3. IInv /\ IInv' /\ GateInv' /\ [Next]_vars => [Plain!EvalNext]_<<Secret, Recombined>>
  <2> SUFFICES ASSUME IInv, IInv', GateInv', [Next]_vars, Recombined' # Recombined
               PROVE  Plain!EvalNext
    BY RecombinedStep
  <2>1. TypeOK /\ TypeOK' /\ BaseInv
    BY DEF IInv, BaseInv, ControlInv
  <2> PICK n \in 0..NumGates : n = BothDone
    BY <2>1, BothDoneFacts, CircuitFacts
  <2> DEFINE g == n + 1
  <2>2. BothDone' = g /\ g \in 1..NumGates /\ g <= rcvd'[0] /\ g <= rcvd'[1] /\ n < NumGates
    <3>1. BothDone' \in {n, n + 1} /\ \A k \in 1..n : Recombined'[k] = Recombined[k]
      BY RecombinedStep
    <3>2. BothDone' = n => Recombined' = Recombined
      BY <3>1 DEF Recombined
    <3>3. rcvd'[0] \in 0..NumGates /\ rcvd'[1] \in 0..NumGates
      BY <2>1 DEF TypeOK, Parties
    <3>4. BothDone' = IF rcvd'[0] < rcvd'[1] THEN rcvd'[0] ELSE rcvd'[1]
      BY DEF BothDone
    <3> QED BY <3>1, <3>2, <3>3, <3>4, CircuitFacts
  <2>3. g - 1 = n /\ n \in 0..BothDone /\ n \in Nat /\ NumGates \in Nat
    BY <2>2, CircuitFacts
  <2>4. \A p \in Parties, w \in Wires :
          ValueAt(input'[p], val'[p], w, n) = ValueAt(input[p], val[p], w, n)
    <3> SUFFICES ASSUME NEW p \in Parties, NEW w \in Wires
                 PROVE  ValueAt(input[p], val'[p], w, n) = ValueAt(input[p], val[p], w, n)
      BY RecombinedStep
    <3>1. n \in 0..sent[p]
      <4>1. n <= rcvd[p]  BY <2>1, BothDoneFacts DEF Parties
      <4>2. rcvd[p] <= sent[p] /\ rcvd[p] \in 0..NumGates /\ sent[p] \in 0..NumGates
        BY <2>1 DEF BaseInv, ControlInv, LevelInv, TypeOK
      <4> QED BY <2>3, <4>1, <4>2
    <3>2. LastWriter(w, n) \in 0..n  BY <2>1, <3>1, WriterFacts
    <3>3. LastWriter(w, n) # 0 => LastWriter(w, n) \in 1..BothDone  BY <2>3, <3>2
    <3> QED BY <3>3, RecombinedStep, ValueStable
  <2>5. \A w \in Wires : ValueAt(Secret, Recombined, w, n)
          = Xor(ValueAt(input'[0], val'[0], w, n), ValueAt(input'[1], val'[1], w, n))
    <3> SUFFICES ASSUME NEW w \in Wires
                 PROVE  ValueAt(Secret, Recombined, w, n)
                          = Xor(ValueAt(input'[0], val'[0], w, n), ValueAt(input'[1], val'[1], w, n))
      OBVIOUS
    <3>1. ValueAt(Secret, Recombined, w, n)
            = Xor(ValueAt(input[0], val[0], w, n), ValueAt(input[1], val[1], w, n))
      BY <2>1, <2>3, ReadRecombines
    <3> QED BY <2>4, <3>1 DEF Parties
  <2>6. Recombined' = [k \in 1..g |-> Xor(val'[0][k], val'[1][k])]
    BY <2>2 DEF Recombined
  <2>7. Recombined'[g] = EvalGate(Gates[g].type,
                           ValueAt(Secret, Recombined, Gates[g].in0, n),
                           ValueAt(Secret, Recombined, Gates[g].in1, n))
    <3>0. Recombined'[g] = Xor(val'[0][g], val'[1][g])
      BY <2>2, <2>6
    <3>1. Gates[g].in0 \in Wires /\ Gates[g].in1 \in Wires  BY <2>2, GateFacts
    <3>2. \A p \in Parties :
            /\ In0(p, g)' = ValueAt(input'[p], val'[p], Gates[g].in0, n)
            /\ In1(p, g)' = ValueAt(input'[p], val'[p], Gates[g].in1, n)
      BY <2>3 DEF In0, In1
    <3>3. Xor(val'[0][g], val'[1][g]) = EvalGate(Gates[g].type,
             Xor(In0(0, g)', In0(1, g)'), Xor(In1(0, g)', In1(1, g)'))
      BY <2>2 DEF GateInv
    <3> QED BY <2>5, <3>0, <3>1, <3>2, <3>3 DEF Parties
  <2>8. Len(Recombined) = n /\ Recombined' = Append(Recombined, Recombined'[g])
    <3> DEFINE R == Recombined
               S == Recombined'
    <3>1. R = [k \in 1..n |-> R[k]] /\ S = [k \in 1..g |-> S[k]]
      BY <2>6 DEF Recombined
    <3>2. \A k \in 1..n : S[k] = R[k]
      BY RecombinedStep
    <3> HIDE DEF R, S
    <3> DEFINE T == {S[k] : k \in 1..g}
    <3>3. R \in Seq(T) /\ Len(R) = n
      <4>1. \A k \in 1..n : R[k] \in T  BY <2>3, <3>2
      <4> HIDE DEF T
      <4>2. R \in [1..n -> T] /\ n \in Nat  BY <2>3, <3>1, <4>1
      <4> QED BY <4>2, SeqDef
    <3>4. S \in Seq(T) /\ Len(S) = g /\ S[g] \in T
      BY <2>2, <2>3, <3>1
    <3> HIDE DEF T
    <3>5. Append(R, S[g]) = S
      <4>1. /\ Append(R, S[g]) \in Seq(T) /\ Len(Append(R, S[g])) = n + 1
            /\ \A k \in 1..n : Append(R, S[g])[k] = R[k]
            /\ Append(R, S[g])[n + 1] = S[g]
        BY <3>3, <3>4, AppendProperties
      <4>2. \A k \in 1..g : Append(R, S[g])[k] = S[k]
        BY <2>3, <3>2, <4>1
      <4> QED BY <2>3, <3>4, <4>1, <4>2, SeqEqual
    <3> QED BY <3>3, <3>5 DEF R, S
  <2> QED BY <2>2, <2>3, <2>7, <2>8, PlainDefs, RecombinedStep DEF Plain!EvalNext
<1> QED BY <1>1, <1>2, <1>3, IInvHolds, PTL DEF Spec, ImplementsPlain, Plain!Spec
=============================================================================
