-------------------------------- MODULE Gmw --------------------------------
(***************************************************************************)
(* The two-party evaluation of a circuit on XOR-shared wires (class Gmw).  *)
(* Both parties run the same rounds over the same gates and meet only at   *)
(* the socket.  A round walks its level twice: the first loop evaluates    *)
(* the local gates and sends the two masked words of every AND gate, the   *)
(* second receives the peer's two words gate by gate, in the same order.   *)
(*                                                                         *)
(* The socket is the sequence of everything a party sent and how much of   *)
(* it the peer has read.  Sends do not block, so the two sends of a gate   *)
(* are one step, and so are its two receives.                              *)
(***************************************************************************)
EXTENDS Circuit

CONSTANTS NumTriples,   \* how many triples one deal gives each party
          Deals,        \* the deals the triple generator may produce
          Preset        \* may setTriples have supplied the deal before run?

Parties == {0, 1}
Peer(p) == 1 - p
Spans == {"A", "B", "C", "C2", "D"}
NoDeal == <<>>
HasDeal(d) == d # NoDeal

(***************************************************************************)
(* mA, mB, mC, mD of each party.  C2 is a second cursor over C.  The code  *)
(* checks these equations itself in generateTriple when debugging.         *)
(***************************************************************************)
Share == [A : [1..NumTriples -> Bit], B : [1..NumTriples -> Bit],
          C : [1..NumTriples -> Bit], D : [1..NumTriples -> Bit]]

ValidDeal(d) ==
  \A p \in Parties, k \in 1..NumTriples :
     Xor(And(d[p].A[k], d[Peer(p)].C[k]), d[p].B[k]) = d[Peer(p)].D[k]

ASSUME GmwAssumption ==
  /\ NumTriples \in Nat
  /\ NumTriples >= NumAnd
  /\ \A d \in Deals : d \in [Parties -> Share] /\ ValidDeal(d)
  /\ Deals # {}
  /\ Levelized
  /\ Preset \in BOOLEAN

VARIABLES
  words,    \* words[p][w]: p's share of wire w (mWords)
  deal,     \* the triples both parties hold, or NoDeal
  pos,      \* pos[p][s]: how far p has consumed its span s
  status,   \* where run() of p is: "idle", "run" or "done"
  round,    \* mRoundIdx of p
  sent,     \* gates p's first loops have walked
  rcvd,     \* gates p's second loops have walked
  stream,   \* stream[p]: every bit p has put on the socket
  got,      \* how many bits of the peer's stream p has read
  input,    \* history: the shares p was given
  val       \* history: val[p][g] is the share p computed for gate g

vars == <<words, deal, pos, status, round, sent, rcvd, stream, got, input, val>>

TypeOK ==
  /\ words \in [Parties -> [Wires -> Bit]]
  /\ deal \in Deals \cup {NoDeal}
  /\ pos \in [Parties -> [Spans -> 0..NumTriples]]
  /\ status \in [Parties -> {"idle", "run", "done"}]
  /\ round \in [Parties -> 0..NumRounds]
  /\ sent \in [Parties -> 0..NumGates]
  /\ rcvd \in [Parties -> 0..NumGates]
  /\ stream \in [Parties -> Seq(Bit)]
  /\ got \in [Parties -> Nat]
  /\ input \in [Parties -> Inputs]
  /\ val \in [Parties -> [1..NumGates -> Bit]]

----------------------------------------------------------------------------
\* init and setInput on both sides, and setTriples where the caller has them.
Init ==
  /\ input \in [Parties -> Inputs]
  /\ words = input
  /\ deal \in {NoDeal} \cup (IF Preset THEN Deals ELSE {})
  /\ pos = [p \in Parties |-> [s \in Spans |-> 0]]
  /\ status = [p \in Parties |-> "idle"]
  /\ round = [p \in Parties |-> 0]
  /\ sent = [p \in Parties |-> 0]
  /\ rcvd = [p \in Parties |-> 0]
  /\ stream = [p \in Parties |-> <<>>]
  /\ got = [p \in Parties |-> 0]
  /\ val = [p \in Parties |-> [g \in 1..NumGates |-> 0]]

(***************************************************************************)
(* run() without triples: both parties expand a deal together, and neither *)
(* gets past it alone.                                                     *)
(***************************************************************************)
GenerateTriple ==
  /\ \A p \in Parties : status[p] = "idle"
  /\ ~HasDeal(deal) /\ NumAnd > 0
  /\ deal' \in Deals
  /\ status' = [p \in Parties |-> "run"]
  /\ UNCHANGED <<words, pos, round, sent, rcvd, stream, got, input, val>>

\* run() with triples set, or with no gate that needs one.
BeginRun(p) ==
  /\ status[p] = "idle"
  /\ HasDeal(deal) \/ NumAnd = 0
  /\ status' = [status EXCEPT ![p] = "run"]
  /\ UNCHANGED <<words, deal, pos, round, sent, rcvd, stream, got, input, val>>

InRound(p) == status[p] = "run" /\ round[p] < NumRounds
LevelLast(p) == End(round[p] + 1)

----------------------------------------------------------------------------
InvertA(type) == IF type \in {"na_And", "Or", "Nor"} THEN 1 ELSE 0
InvertB(type) == IF type \in {"nb_And", "Nor", "Or"} THEN 1 ELSE 0
InvertC(type) == IF type = "Or" THEN 1 ELSE 0

MaskedX(a, x, type) == Xor(Xor(a, x), InvertA(type))
MaskedY(c, y, type) == Xor(c, Xor(y, InvertB(type)))
CrossX(b, x, w, type) == Xor(And(Xor(x, InvertA(type)), w), b)
CrossY(c, d, u) == Xor(And(c, u), d)

\* Party 0 sends u then w, party 1 w then u; each reads in the peer's order.
\* Party 1 multiplies as if every gate were a plain And.
MultSend(p, a, c, x, y, type) ==
  IF p = 0 THEN <<MaskedX(a, x, type), MaskedY(c, y, type)>>
           ELSE <<MaskedY(c, y, "And"), MaskedX(a, x, "And")>>

\* Mutant: zm is forgotten, an Or opens as a Nor.
MultRecvNoC(p, b, c, d, x, y, m1, m2, type) ==
  IF p = 0
  THEN Xor(Xor(And(Xor(x, InvertA(type)), Xor(y, InvertB(type))),
               CrossX(b, x, m1, type)), CrossY(c, d, m2))
  ELSE Xor(Xor(CrossX(b, x, m2, "And"), CrossY(c, d, m1)), And(x, y))

MultRecv(p, b, c, d, x, y, m1, m2, type) ==
  IF p = 0
  THEN Xor(Xor(Xor(And(Xor(x, InvertA(type)), Xor(y, InvertB(type))),
                   CrossX(b, x, m1, type)), CrossY(c, d, m2)), InvertC(type))
  ELSE Xor(Xor(CrossX(b, x, m2, "And"), CrossY(c, d, m1)), And(x, y))

\* Mutant: both parties negate their share of an Nxor.
LinearGateBothNegate(p, type, x, y) ==
  CASE type = "a" -> x [] type = "Xor" -> Xor(x, y) [] type = "Nxor" -> Not(Xor(x, y))

LinearGate(p, type, x, y) ==
  CASE type = "a"    -> x
    [] type = "Xor"  -> Xor(x, y)
    [] type = "Nxor" -> IF p = 0 THEN Not(Xor(x, y)) ELSE Xor(x, y)

----------------------------------------------------------------------------
X(p, g) == words[p][Gates[g].in0]
Y(p, g) == words[p][Gates[g].in1]

\* The first word left in a span of p; mC2 runs over the same words as mC.
FrontOf(p, s) ==
  LET k == pos[p][s] + 1
  IN CASE s = "A" -> deal[p].A[k]          [] s = "B" -> deal[p].B[k]
       [] s \in {"C", "C2"} -> deal[p].C[k] [] s = "D" -> deal[p].D[k]

\* First loop, a local gate.
FirstLinear(p) ==
  LET g == sent[p] + 1
      z == LinearGate(p, Gates[g].type, X(p, g), Y(p, g))
  IN /\ InRound(p) /\ sent[p] < LevelLast(p)
     /\ ~IsAnd(g)
     /\ words' = [words EXCEPT ![p][Gates[g].out] = z]
     /\ val' = [val EXCEPT ![p][g] = z]
     /\ sent' = [sent EXCEPT ![p] = g]
     /\ UNCHANGED <<deal, pos, status, round, rcvd, stream, got, input>>

\* Mutant: multSendP2 forgets to move mC on.
FirstAndSameC(p) ==
  LET g == sent[p] + 1
  IN /\ InRound(p) /\ sent[p] < LevelLast(p)
     /\ IsAnd(g)
     /\ stream' = [stream EXCEPT ![p] = @ \o
                     MultSend(p, FrontOf(p, "A"), FrontOf(p, "C"),
                              X(p, g), Y(p, g), Gates[g].type)]
     /\ pos' = [pos EXCEPT ![p]["A"] = @ + 1]
     /\ sent' = [sent EXCEPT ![p] = g]
     /\ UNCHANGED <<words, deal, status, round, rcvd, got, input, val>>

\* Mutant: the output words are zeroed when the gate is sent, not when it opens.
FirstAndClears(p) ==
  LET g == sent[p] + 1
  IN /\ InRound(p) /\ sent[p] < LevelLast(p)
     /\ IsAnd(g)
     /\ stream' = [stream EXCEPT ![p] = @ \o
                     MultSend(p, FrontOf(p, "A"), FrontOf(p, "C"),
                              X(p, g), Y(p, g), Gates[g].type)]
     /\ words' = [words EXCEPT ![p][Gates[g].out] = 0]
     /\ pos' = [pos EXCEPT ![p]["A"] = @ + 1, ![p]["C"] = @ + 1]
     /\ sent' = [sent EXCEPT ![p] = g]
     /\ UNCHANGED <<deal, status, round, rcvd, got, input, val>>

\* First loop, an AND gate: both masked words go out.
FirstAnd(p) ==
  LET g == sent[p] + 1
  IN /\ InRound(p) /\ sent[p] < LevelLast(p)
     /\ IsAnd(g)
     /\ stream' = [stream EXCEPT ![p] = @ \o
                     MultSend(p, FrontOf(p, "A"), FrontOf(p, "C"),
                              X(p, g), Y(p, g), Gates[g].type)]
     /\ pos' = [pos EXCEPT ![p]["A"] = @ + 1, ![p]["C"] = @ + 1]
     /\ sent' = [sent EXCEPT ![p] = g]
     /\ UNCHANGED <<words, deal, status, round, rcvd, got, input, val>>

\* Second loop: local gates are passed over.
SecondLinear(p) ==
  LET g == rcvd[p] + 1
  IN /\ InRound(p) /\ sent[p] = LevelLast(p) /\ rcvd[p] < LevelLast(p)
     /\ ~IsAnd(g)
     /\ rcvd' = [rcvd EXCEPT ![p] = g]
     /\ UNCHANGED <<words, deal, pos, status, round, sent, stream, got, input, val>>

\* Mutant: the recv is not awaited; words that are not there read as zero.
SecondAndNoWait(p) ==
  LET g == rcvd[p] + 1
      q == Peer(p)
      Word(i) == IF Len(stream[q]) >= got[p] + i THEN stream[q][got[p] + i] ELSE 0
      z == MultRecv(p, FrontOf(p, "B"), FrontOf(p, "C2"), FrontOf(p, "D"), X(p, g), Y(p, g),
                    Word(1), Word(2), Gates[g].type)
  IN /\ InRound(p) /\ sent[p] = LevelLast(p) /\ rcvd[p] < LevelLast(p)
     /\ IsAnd(g)
     /\ words' = [words EXCEPT ![p][Gates[g].out] = z]
     /\ val' = [val EXCEPT ![p][g] = z]
     /\ got' = [got EXCEPT ![p] = @ + 2]
     /\ pos' = [pos EXCEPT ![p]["B"] = @ + 1, ![p]["C2"] = @ + 1, ![p]["D"] = @ + 1]
     /\ rcvd' = [rcvd EXCEPT ![p] = g]
     /\ UNCHANGED <<deal, status, round, sent, stream, input>>

\* Mutant: a recv sized for one word more than the peer sends.
SecondAndThreeWords(p) ==
  LET g == rcvd[p] + 1
  IN /\ InRound(p) /\ sent[p] = LevelLast(p) /\ rcvd[p] < LevelLast(p)
     /\ IsAnd(g)
     /\ Len(stream[Peer(p)]) >= got[p] + 3
     /\ got' = [got EXCEPT ![p] = @ + 3]
     /\ rcvd' = [rcvd EXCEPT ![p] = g]
     /\ UNCHANGED <<words, deal, pos, status, round, sent, stream, input, val>>

\* Second loop, an AND gate: the output wire gets its share, maybe in place.
SecondAnd(p) ==
  LET g == rcvd[p] + 1
      q == Peer(p)
      z == MultRecv(p, FrontOf(p, "B"), FrontOf(p, "C2"), FrontOf(p, "D"), X(p, g), Y(p, g),
                    stream[q][got[p] + 1], stream[q][got[p] + 2], Gates[g].type)
  IN /\ InRound(p) /\ sent[p] = LevelLast(p) /\ rcvd[p] < LevelLast(p)
     /\ IsAnd(g)
     /\ Len(stream[q]) >= got[p] + 2
     /\ words' = [words EXCEPT ![p][Gates[g].out] = z]
     /\ val' = [val EXCEPT ![p][g] = z]
     /\ got' = [got EXCEPT ![p] = @ + 2]
     /\ pos' = [pos EXCEPT ![p]["B"] = @ + 1, ![p]["C2"] = @ + 1, ![p]["D"] = @ + 1]
     /\ rcvd' = [rcvd EXCEPT ![p] = g]
     /\ UNCHANGED <<deal, status, round, sent, stream, input>>

EndRound(p) ==
  /\ InRound(p) /\ sent[p] = LevelLast(p) /\ rcvd[p] = LevelLast(p)
  /\ round' = [round EXCEPT ![p] = @ + 1]
  /\ UNCHANGED <<words, deal, pos, status, sent, rcvd, stream, got, input, val>>

\* Mutant: run() moves to one round more before it returns.
FinishCounting(p) ==
  /\ status[p] = "run" /\ round[p] = NumRounds
  /\ status' = [status EXCEPT ![p] = "done"]
  /\ round' = [round EXCEPT ![p] = @ + 1]
  /\ UNCHANGED <<words, deal, pos, sent, rcvd, stream, got, input, val>>

\* run() returns; the spans are dropped, all but C2.
Finish(p) ==
  /\ status[p] = "run" /\ round[p] = NumRounds
  /\ status' = [status EXCEPT ![p] = "done"]
  /\ pos' = [pos EXCEPT ![p] = [s \in Spans |-> IF s = "C2" THEN @[s] ELSE NumTriples]]
  /\ UNCHANGED <<words, deal, round, sent, rcvd, stream, got, input, val>>

Terminated == (\A p \in Parties : status[p] = "done") /\ UNCHANGED vars

Step(p) == \/ BeginRun(p) \/ FirstLinear(p) \/ FirstAnd(p)
           \/ SecondLinear(p) \/ SecondAnd(p) \/ EndRound(p) \/ Finish(p)

Next == GenerateTriple \/ (\E p \in Parties : Step(p)) \/ Terminated

Spec == Init /\ [][Next]_vars

\* Each coroutine is resumed whenever its next operation can proceed.
FairSpec == Spec /\ WF_vars(GenerateTriple) /\ \A p \in Parties : WF_vars(Step(p))

----------------------------------------------------------------------------
(***************************************************************************)
(* Properties.                                                             *)
(***************************************************************************)

\* What the two parties hold together: the gates both have finished, each
\* at the XOR of its two shares.
BothDone == IF rcvd[0] < rcvd[1] THEN rcvd[0] ELSE rcvd[1]
Secret == [w \in Wires |-> Xor(input[0][w], input[1][w])]
Recombined == [g \in 1..BothDone |-> Xor(val[0][g], val[1][g])]

Plain == INSTANCE PlainEval WITH secret <- Secret, plain <- Recombined

\* The shared evaluation implements the evaluation in the clear: whatever the
\* interleaving, each gate both parties finish (roundFunction) recombines to
\* the gate's plain value on the recombined inputs.
ImplementsPlain == Plain!Spec

\* When both run() calls have returned, getOutput of every wire recombines to
\* what the plain evaluation leaves on that wire, in-place gates included.
OutputCorrect ==
  (\A p \in Parties : status[p] = "done") =>
     /\ IsEvaluation(Secret, Recombined)
     /\ \A w \in Wires : Xor(words[0][w], words[1][w])
                           = ValueAt(Secret, Recombined, w, NumGates)

\* The two streams stay in step with the gates: what a party is about to read
\* (multRecv) was sent for the very gate it is at, and the masks used to make
\* and to open it are the ones dealt for that gate.
LockStep ==
  \A p \in Parties :
     /\ Len(stream[p]) = 2 * AndBefore(sent[p])
     /\ got[p] = 2 * AndBefore(rcvd[p])
     /\ status[p] # "done" =>
          /\ pos[p]["A"] = AndBefore(sent[p]) /\ pos[p]["C"] = AndBefore(sent[p])
          /\ pos[p]["B"] = AndBefore(rcvd[p]) /\ pos[p]["D"] = AndBefore(rcvd[p])
     /\ pos[p]["C2"] = AndBefore(rcvd[p])

\* No party finishes an AND gate its peer has not sent for: the parties are
\* never a whole round of AND gates apart (the awaits in multRecv).
NeverAhead ==
  \A p \in Parties, g \in 1..NumGates :
     (IsAnd(g) /\ g <= rcvd[p]) => g <= sent[Peer(p)]

\* An AND gate's input words stay as they were masked until the second loop
\* reads them again, although gates of the level write wires in between.
InputsPinned ==
  \A p \in Parties, g \in 1..NumGates :
     (IsAnd(g) /\ rcvd[p] < g /\ g <= sent[p]) =>
        /\ X(p, g) = ValueAt(input[p], val[p], Gates[g].in0, g - 1)
        /\ Y(p, g) = ValueAt(input[p], val[p], Gates[g].in1, g - 1)

----------------------------------------------------------------------------
(***************************************************************************)
(* The inductive invariant behind OutputCorrect and ImplementsPlain.       *)
(***************************************************************************)

\* Where the two loops of a party can be in its level.
LevelInv ==
  \A p \in Parties :
     /\ status[p] = "idle" => round[p] = 0 /\ sent[p] = 0 /\ rcvd[p] = 0
     /\ status[p] # "idle" => HasDeal(deal) \/ NumAnd = 0
     /\ status[p] = "done" => round[p] = NumRounds
     /\ End(round[p]) <= rcvd[p] /\ rcvd[p] <= sent[p]
     /\ round[p] < NumRounds =>
          /\ sent[p] <= LevelLast(p)
          /\ rcvd[p] > End(round[p]) => sent[p] = LevelLast(p)

\* The shares of p a gate is defined on, and the words p sends for it.
In0(p, g) == ValueAt(input[p], val[p], Gates[g].in0, g - 1)
In1(p, g) == ValueAt(input[p], val[p], Gates[g].in1, g - 1)
SentFor(p, g) ==
  LET k == AndBefore(g)
  IN MultSend(p, deal[p].A[k], deal[p].C[k], In0(p, g), In1(p, g), Gates[g].type)
RecvFor(p, g) ==
  LET k == AndBefore(g)
      m == SentFor(Peer(p), g)
  IN MultRecv(p, deal[p].B[k], deal[p].C[k], deal[p].D[k], In0(p, g), In1(p, g),
              m[1], m[2], Gates[g].type)

\* A wire no pending AND gate is to write holds its last written share.
WordsInv ==
  \A p \in Parties, w \in Wires :
     LET h == LastWriter(w, sent[p])
     IN \/ h > rcvd[p] /\ IsAnd(h)
        \/ words[p][w] = ValueAt(input[p], val[p], w, sent[p])

\* The streams carry, gate by gate, the shares masked with that gate's triples.
MaskInv ==
  \A p \in Parties : \A g \in 1..sent[p] :
     IsAnd(g) => /\ stream[p][2 * AndBefore(g) - 1] = SentFor(p, g)[1]
                 /\ stream[p][2 * AndBefore(g)] = SentFor(p, g)[2]

\* What each party computed for a gate, as a function of both parties' inputs.
ValInv ==
  \A p \in Parties :
     /\ \A g \in 1..sent[p] : ~IsAnd(g) =>
          val[p][g] = LinearGate(p, Gates[g].type, In0(p, g), In1(p, g))
     /\ \A g \in 1..rcvd[p] : IsAnd(g) => val[p][g] = RecvFor(p, g)

\* Every wire has a last writer, as far as any party has come.
WriterInv ==
  \A p \in Parties : \A n \in 0..sent[p], w \in Wires :
     \E h \in 0..n : IsLastWriter(h, w, n)

ControlInv == TypeOK /\ LevelInv /\ LockStep
BaseInv == ControlInv /\ NeverAhead /\ WriterInv
IInv == BaseInv /\ WordsInv /\ InputsPinned /\ MaskInv /\ ValInv

----------------------------------------------------------------------------
\* Both calls of run() return: nobody waits for a word the peer never sends.
BothFinish == <>(\A p \in Parties : status[p] = "done")
=============================================================================
