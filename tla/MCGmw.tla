------------------------------- MODULE MCGmw -------------------------------
(***************************************************************************)
(* An instance of Gmw: a hand-written circuit with every local gate type   *)
(* and gates that write in place.                                          *)
(***************************************************************************)
EXTENDS Gmw

G(t, i, j, o) == [type |-> t, in0 |-> i, in1 |-> j, out |-> o]

\* Wires 0, 1 are inputs.  Level 1 copies, sends an Or whose output replaces
\* its input, then works on other wires; level 2 is one na_And over both.
MixedWires == 0..2
MixedInputs == {0, 1}
MixedGates == << G("a", 0, 0, 2), G("Or", 0, 1, 0), G("Nxor", 2, 1, 2),
                 G("Xor", 0, 2, 1), G("na_And", 1, 2, 2), G("Xor", 0, 1, 0) >>
MixedLevels == <<3, 6>>

\* Two triples, one of them arbitrary and the other with a fixed mask pattern.
\* A quad names what the two halves of generateTriple's OTs are to give: A of
\* one party, C of the other, and the first one's B.
Quads == {<<a, c, b>> : a \in Bit, b \in Bit, c \in Bit}
Gen == INSTANCE OteGen WITH RowBits <- 1, Ssp <- 1
\* The OTs that give party 0 (which sends them) q, and party 1 r.
Sending(q) == [m |-> [c \in Bit |-> IF c = 0 THEN q[3] ELSE Xor(q[3], q[1])], c |-> q[2]]
Receiving(r) == [m |-> [c \in Bit |-> IF c = r[1] THEN r[3] ELSE Xor(r[3], r[2])], c |-> r[1]]
Rows(q, r) ==
  LET ots == [k \in 1..2 * NumTriples |->
                IF k <= NumTriples THEN Receiving(r[k]) ELSE Sending(q[k - NumTriples])]
  IN [p \in Parties |-> IF p = 0 THEN Gen!Crossed(Gen!SentBits(ots)) ELSE Gen!Straight(Gen!ReceivedBits(ots))]

\* Triple k of a deal is a rotation of the same pair, so that using the wrong
\* triple shows.
Rotate(q, k) == IF k % 2 = 1 THEN q ELSE <<1 - q[1], q[3], 1 - q[2]>>
RotatedDeals ==
  {Rows([k \in 1..NumTriples |-> Rotate(q, k)],
        [k \in 1..NumTriples |-> Rotate(r, k)]) :
     q \in Quads, r \in {<<0, 1, 1>>, <<1, 0, 1>>}}
=============================================================================
