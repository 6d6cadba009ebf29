# volePSI in TLA+

Specifications, model-checking runs and proofs for the C++ library in `src/volePSI`: private set
intersection from VOLE, the oblivious PRFs below it, circuit PSI and the private set operations above it.
Every definition is translated from the source; `PROJECT.json` ("map") names the lines of each one.

- [1. The system](#1-the-system)
- [2. Modules](#2-modules)
- [3. Runs, bounds and what they show](#3-runs-bounds-and-what-they-show)
- [4. Fairness](#4-fairness)
- [5. Proofs](#5-proofs)
- [6. Disagreements found](#6-disagreements-found)
- [7. What is not modelled](#7-what-is-not-modelled)
- [8. Plan](#8-plan)

## 1. The system

Two parties hold sets and run a protocol over one reliable, ordered socket (coproto). Each side is a
coroutine; it only waits at `MC_AWAIT(chl.recv(..))` and on local tasks. There is no retry, timeout or
persistence. Inside one party some components start `std::thread`s.

```
  doFilePSI ──► RsPsi ──► RsOprf ──► Baxos ──► Paxos
                            │ VOLE (libOTe)
  Cpso ──► RsCpsi ──► RsOpprf ──► RsOprf, Baxos
   │         └─ isZeroCircuit ──► Gmw
   ├──► permute and share ──► Benes
   └──► SilentOteGen (OTs and triples)
```

| Component | State | Operations | What makes it hard | What makes it correct |
|---|---|---|---|---|
| `Paxos`, `PaxosHash` (`PaxosImpl.h`, `PxUtil.h`) | rows, columns, weight lists, diagonal and gap, output | `buildRow`, `buildRow32`, `setInput`, `triangulate`, `backfill`, `decode` | two forms of hashing (one item, a batch in lanes) that must agree; hand-linked lists that change while rows are taken; a gap that needs a small dense system; two dense types; random free columns | an item has one row of distinct columns; the lists stay exact; a gap arises only from a core; what `encode` returns decodes to the values |
| `Baxos` (`PaxosImpl.h`) | bins of every thread in one array, a barrier, outputs by bin | `solve`, `decode` with threads | threads read each other's bins after a barrier; the merge is in place; decode collects batches by bin | a bin is complete when its thread encodes it; exact for every spread over bins and threads; every thread is joined |
| `RsOprf` | Baxos seed, VOLE outputs `mA`..`mD`, commitment | `send`, `eval`, `receive` | the VOLE runs eagerly on a forked socket; the masked vector travels in chunks; the malicious form interleaves a commitment | sender's `eval` equals the receiver's output; halves of `w` are opened in order |
| `RsOpprf` | `mP`, Baxos parameters | `send`, `eval`, `receive` | three widths take three paths through shared buffers | programmed keys get their values; both sides agree on all others |
| `RsPsi` | buffer of hashes, maps, `mIntersection` | `run` of both sides | lookup threads share one buffer for hashes and results; packing in place | the intersection, each item once |
| `Gmw`, `isZeroCircuit` | shared words, triples, cursors | `init`, `setTriples`, `run` | two passes over a level, in-place gates, words read by position | outputs recombine to the circuit's value |
| `RsCpsi`, `SimpleIndex` | cuckoo and simple tables, mapping, shares | `send`, `receive` | three indexings of rows, bins and entries | a shared join |
| `Benes`, permute and share | network, switches, OTs | `genBenesRoute`, `runPermAndShare` | in-place recursion with odd sizes; masks follow switches | shares of the permuted values |
| `SilentOteGen` | base OTs, OTs, triples, batches | `init`, `setBaseOts`, `expandOt`, `expandTriple` | each side plans its batches and cuts base OTs and halves of triples alone | supplies suffice; what both sides cut multiplies |
| `Cpso` | permutations, flags, OT and triple supplies | `setup`, union, cardinality, sum, threshold, inner product | permuted flags and rows; three protocols in a row on one supply | the results of the plain sets |
| `fileBased` | files, command line, sizes of both sides | `readSet`, `doFilePSI`, `writeOutput` | the receiver's file is read twice, by two scanners; a throw on one side while the other is mid-protocol | the output file is the intersection, in order; both sides end alike |

`PROJECT.json` lists the hazards of this code, each at its line, with the properties that cover it or
the reason none does.

## 2. Modules

One module for a component; a module that needs another one's promise uses that promise.

| Module | Models | State and actions against the code |
|---|---|---|
| `Circuit` | `BetaCircuit` as used by `roundFunction` | gates over wires, cut in levels; the first two conjuncts of `Levelized` are what the dirty-bit and pinned-input checks of the code test, the third is taken of the circuit |
| `PlainEval` | the debug replay in `roundFunction` | abstract specification: one gate at a time in the clear |
| `Gmw` | `GMW/Gmw.cpp` | both parties; `GenerateTriple`, `BeginRun`, `FirstLinear`, `FirstAnd` (first loop: local gates, masks sent), `SecondLinear`, `SecondAnd` (second loop: peer's words received), `EndRound`, `Finish` |
| `GmwProofs` | | theorems about `Gmw` |
| `IsZero` | `isZeroCircuit` | the gate list, by bit width: `Tree` joins the gates of its steps (`StepGates`) |
| `IdealPsi` | the promise of file based PSI | abstract specification: both give a set, then the receiver has the common elements and the sender ends, or both fail |
| `FilePsi` | `fileBased.cpp` around `RsPsi` | `ReadSet`/`ReadThrows`, `Connect`, `TellSize`/`OwnSizeThrows`, `HearSize`, `PeerGone`, `Oprf`, then the steps of `RsPsi`, `SenderDone`, `WriteOutput` (sorts, reads the file again, writes); job `Api` is the bare `run()` |
| `RsPsi` | `RsPsi.cpp` after the OPRF | sender packs (`SPack`) and sends; receiver looks up alone (`RInsert`, `RFind`, one entry at a time) or with threads (`TBuild`, `TBuilt`, `TPass`, `TStart`, `TFind`, `TMerge`) over one buffer of bytes and words |
| `PsiProofs` | | theorems about `RsPsi` and `FilePsi` |
| `RsOprf` | `RsOprf.cpp` | sender, receiver and the VOLE task as three processes with two message queues; `chunk` loops in steps |
| `RsOprfProofs` | | theorems about `RsOprf` |
| `RsOpprf` | `RsOpprf.cpp` | the OPRF is one joint step with the promise of `RsOprf`; the three branches on the width of values |
| `RsOpprfProofs` | | theorems about `RsOpprf`, `IsZero` and `RsCpsi` |
| `BenesNet` | `PS/benes.cpp` | the network: sizes, and the switches the recursion visits, as a recursive function that proofs can use |
| `Benes` | `PS/benes.cpp` | routing a permutation through it (recursive operators, model-checked only) |
| `PermShare` | `PS/PSSender.cpp`, `PS/PSReceiver.cpp` | both sides, one switch of a walk at a time, over any network; `MCPermShare` joins it with `BenesNet` and `Benes` |
| `PermShareProofs` | | theorems about `PermShare` and `BenesNet` |
| `Join` | the `Sharing` structures of `RsCpsi.h` | abstract specification of circuit PSI |
| `RsCpsi` | `RsCpsi.cpp`, `SimpleIndex::insertItems` | cuckoo (`RHash`) and simple hashing (`SHash`, which runs `Filled` over the insertions), keys and masked values, bin by bin (`SBin`), OPPRF as a joint step that gives what was programmed unless a row is exactly one block (`OneBlock`), the zero test as the plain evaluation of `IsZero`'s circuit (which `Gmw` implements) |
| `OteGen` | `GMW/SilentOteGen.cpp`, setups of `Cpso.h` | how many OTs and triples, in which batches (`Plan`), from which base OTs (`BaseBefore`, `RunsFit`), and how the bits of an OT become a triple (`SentBits`, `ReceivedBits`; `Straight`, `Crossed` halves, as `generateTriple` and `setTriple` cut them) |
| `Cpso` | `Cpso.cpp` | the setup (plans, `BaseOts`, batches of OTs and triples) and six operations of both sides over `Join`, permute and share and `OteGen`; the threshold's two circuits are two joint steps, `AddShares` and `Compare`; `CardModuli` is what shifting an int may give; `Taken` is what the receiver of the union keeps |
| `CpsoProofs` | | theorems about `OteGen`'s plans and the supplies and results of `Cpso` |
| `PaxosHash` | `PaxosHash::buildRow`, `buildRow32`, `mod32` | the row of a hash, for weight three and any other, alone and in the lanes of a batch |
| `Paxos` | one Paxos system | `SetInput`, `TakeColumn`/`ThrowColumn` (one column of `triangulate`), `Triangulated`, `SolveGap`/`ThrowGap` (with the elimination of `gf128Inv`: `Swapped`, `Cleared`, `Inverts`), `Backfill` |
| `PaxosProofs` | | theorems about the rows, the elimination and the solution of `Paxos` |
| `Baxos` | `implParSolve`, `implParDecode` | threads one input (or one bin) at a time: `Hash`, `Arrive`, `Pass`, `Gather`, `Encode`, `Throw`, then `Take`, `TakeRest`; with one bin `SolveSingle`/`ThrowSingle`; a bin's Paxos is a black box with the promise of `Paxos` |
| `BaxosProofs` | | theorems about the threads of `Baxos` |

How they fit: `FilePsi` extends `RsPsi` and implements `IdealPsi` (TLC and TLAPS), `Gmw` implements `PlainEval` (TLC and TLAPS), `RsCpsi` uses `PlainEval`'s meaning of a
circuit for its zero test and implements `Join` (TLC and TLAPS), `Cpso` runs on `Join`, `OteGen` cuts
the triples of `Cpso` and the deals `Gmw` is checked with. `Paxos` promises `EncodeSolves`,
`Baxos` turns it into `DecodeExact`, which is the decoder `RsOprf` and `RsOpprf` take as a parameter;
`RsOprf`'s `EvalAgrees` is the joint OPRF step of `RsOpprf` and the input of `RsPsi`.

Data is abstract where properties do not tell it apart. One bit stands for a 128-bit row of `Gmw` (every
operation on it is bitwise); hashes are rows of symbolic bytes in `RsPsi`; blocks of `PermShare` are sets of
unknowns, so a result holds for all their values; fields and linear decoders are parameters of `RsOprf`
and `Paxos`; numbers of `RsCpsi` and `Cpso` wrap at a small word.

## 3. Runs, bounds and what they show

| Run | Instance | Question |
|---|---|---|
| `GmwMixed` | six gates of all local kinds and two AND-like ones, in place, two levels; 16 deals that `OteGen` cuts from OTs, all input shares, triples preset or made | Does every interleaving of the two parties implement the plain evaluation, stay in step and end? |
| `RsPsiLookup` | `run` alone: four items against five, every spread over one to three threads, compressed and full hashes. In `FilePsi`: binary and text files, repeated and empty rows, a last row with and without newline, every output option, every wrong size, an odd file on either side | Is the intersection exact, is no hash lost to a thread or in packing, is the file in order, does it implement `IdealPsi`, do both sides end? |
| `RsPsiShare` | as above | violation, see 6 |
| `RsOprfRun` | two values, three slots, field of four, chunks of two, semi-honest and malicious | Do `eval` and `receive` agree, in order, and end? |
| `RsOprfChunks` | a vector longer than two chunks | violation, see 6 |
| `PermShare` | every permutation of two to five, some of six to eleven items; blocks and bits, OTs preset or not | Are the shares those of the permuted input? |
| `RsOpprf` | widths one to four with blocks of two bytes, three keys, two seeds | Are programmed keys right and do both sides agree? |
| `RsOpprfBlock` | as above | violation, see 6 |
| `RsCpsi` | four rows, five bins, every cuckoo placement under two seeds, xor, additive and no values, three-bit keys | Are the outputs a shared join, and do both sides return? |
| `Cpso` | two or three rows, five bins, six operations, with and without setup, two batch caps | Do supplies suffice, do the triples multiply, are results exact, and do both sides return? |
| `Paxos` | four of seven hashes, three of them in a batch, as rows of two or three in six columns, field of eight, distinct and repeated keys, both dense types, with and without a prng | Has an item one row of distinct columns, are the lists exact, does a gap come only from a core, does `encode` solve, and which items does it lose? |
| `Baxos` | four items, five queries, every hash into one or two bins, one to three threads, room for one to three items | Is a bin complete when it is encoded, are solve and decode exact under every interleaving, do all threads join? |

Why the bounds are enough to be interesting:

- `GmwMixed` has a level whose AND-like gate writes over its own input and one that reads it, local gates
  before and after it in both levels that write other wires, and a second triple that differs from the first, so a slip of
  a cursor or an order shows. The theorems of section 5 remove the bound.
- `RsPsi`: three threads are the fewest whose words can overlap (two threads' shares never do). The sender has
  one entry more than the receiver, so packing and lookup run over different counts. `MoveUntil` is three:
  with blocks of four bytes and masks of three, the first size at which entries no longer overlap.
- `FilePsi`: `ElemBytes` is two; the text files hold the same element in both cases of a hexadecimal digit, so
  that equal elements come from different rows.
- `RsOprf`: the chunk constant `Chunk` stands for 2^28 blocks and `Unroll` for 8; three slots make two
  chunks, five make three, the fewest for which the tail loop's bound reaches another chunk.
- `PermShare`: sizes 2 and 3 are the special cases of `benes.cpp`, 4 and 5 an even and an odd split, 6, 7, 9
  and 11 splits of every parity at two depths.
- `RsCpsi`: rows that share one, two or no bins, bins that are empty, and a zero test whose tree is not full.
- `Cpso`: with the smaller cap the triples come in several batches. `Words` is two to the `WordBits`.
- `Paxos`: the hashes have words past the modulus, equal after it and in every order; the rows they give contain
  a repeated row, a repeated row in another order, a core of three independent rows and a core of four that are
  not. Random free columns come from `RandomElems`.
- `Baxos`: with one thread all four items can overfill a bin (`ItemsPerBin = 3`), with `ThrdMaxes` below that
  a thread's region runs over into the next one's; three threads get parts of one, one and two items.

Bounds that are constants of a module are listed in its `ASSUME`s. Two parameters stand for statistics of
the real code: that a bin does not exceed its size (`SimpleIndex::get_bin_size`) and that a gap is small
(`PaxosParam`). Properties are stated for the good case where the code cannot promise more (`ExactIfRoom`,
`DecodeExact`'s `Roomy`) and the bad case is in the states explored.

`EncodeSolves` names the one case in which `encode` returns a wrong vector without an error: with a prng and a gap
row that does not repeat a diagonal row, `getX2Prime` drops the sparse part of `D' r` (its comment says it assumes "only
duplcate rows in the gap"). `Lost` are the items of those rows; every other item, of the gap or not, must decode, so the
loss may not spread through the dense columns or the back-substitution. TLC finds lost items at once when `Lost` is taken
to be empty; with the code's parameters such a gap has a negligible probability.

Every property of a passing run has a mutant in `PROJECT.json`: a change to one mapped definition, of the
kind a slip in the code would be, under which TLC finds that property violated.

## 4. Fairness

The specifications with liveness state weak fairness of each side (`Gmw`, `RsOprf`), of each side and thread
(`FilePsi`, `Baxos`) or of the whole next-state relation (the joint protocols). This is what the code gives: both
coroutines are driven by `sync_wait`/`when_all_ready` until they end, `std::thread`s are scheduled by the system, the VOLE task of
`RsOprf` is started eagerly, and the socket delivers what was sent. No fairness between alternatives is
assumed, and no message is lost: TCP or a local queue is below. `FilePsi` also has fairness
of `Connect` (one side listens, the other retries until it is there); a party that waits for a peer that threw
before connecting is an explicit end, because `asioConnect` has no time limit. `Paxos` is one thread that takes
rows one after the other; it is checked for safety and deadlock (its ends are explicit `Ended` steps).

## 5. Proofs

`GmwProofs` proves, for every circuit, level structure, set of deals and input (constants as assumed below):

| Theorem | Statement |
|---|---|
| `TypeCorrect` | `Spec => []TypeOK` |
| `LockStepHolds` | streams and triple cursors stay in step with the gates |
| `NeverAheadHolds` | no party finishes an AND gate its peer has not sent for |
| `InputsPinnedHolds` | what an AND gate masked is what it multiplies |
| `OutputCorrectHolds` | when both runs end, shares recombine to the plain evaluation on every wire |
| `Implementation` | `Spec => ImplementsPlain`, the refinement of `PlainEval` |

Assumptions: `CircuitAssumption` (a list of gates, levels that partition it) and `GmwAssumption` (enough
triples; every deal satisfies the equations `generateTriple` checks in debug mode; the circuit is levelized). Of `Levelized`,
`roundFunction` checks with `dirtyBits` and `pinnedInputs` that a level neither reads the output of an AND gate before it nor
overwrites its input. That no later local gate of the level writes over the AND gate's output is not checked by the code: it is an
assumption on the circuit, true of `isZeroCircuit`. TLC evaluates both in `GmwMixed`, and `Levelized` for the zero test in `RsCpsi`.

The argument. `OutputCorrect` is not inductive: it speaks of the end. `IInv` adds, in three layers:

1. `ControlInv`: where each party's two loops can be (`LevelInv`), types, and `LockStep`. Proved action by
   action in `ControlStep`.
2. `BaseInv` adds `NeverAhead`: a party finishes an AND gate after reading two words the peer has
   sent for that gate, which follows from the lengths of the streams.
3. `DataInv`: `WordsInv` (a wire holds its last written share unless a pending AND gate of the level is to
   write it), `InputsPinned`, `MaskInv` (what is in the stream for gate g is `SentFor(p, g)`) and `ValInv` (a
   finished AND gate's share is `RecvFor(p, g)`). The levelized circuit is needed exactly here
   (`PendingSameLevel`, `ReadClean`): a gate of the level never reads or overwrites what a pending gate writes.

`GateRecombines` is the algebra: for a valid deal the two `RecvFor` add up to the plain gate. From there
`OutputCorrect` follows by comparing both parties' values with the plain ones, and each step of `Gmw` is a
step of `PlainEval` (a gate that both have now finished) or a stutter.

`PermShareProofs` proves, for every routed network (a sequence of switches between two different places,
of which nothing else is assumed), switches, OT choices, inputs and masks:

| Theorem | Statement |
|---|---|
| `TypeCorrect` | `Spec => []TypeOK` |
| `HeldMatchesHolds` | once the receiver has turned its OTs, the sender holds the message at its switch's position |
| `SharedAlongHolds` | `Spec /\ SwitchesApart => []SharedAlong`: both walks agree before every switch |
| `OutputsShare` | under the same premise, when both return the outputs add up to what the switches make of the inputs |
| `SharedHolds` | under `SwitchesApart` and `Routes` (the switches carry every place to its image), the outputs are shares of the permuted inputs |
| `NetworkSound` | for every `n >= 2`, `Network(n)` visits entries of the switch matrix, each at most once, by switches between two different places |
| `SwitchesApartHolds` | under `Built` (every instance has `n >= 2` and `net = Network(n)`, as in the run), `Spec => []SwitchesApart` |
| `SharedOnBenes` | under `Built`, `Spec => []SharedAlong`, and with `Routes` also `Spec => []Shared` |

Assumption: `PermShareAssumption` (the network is well formed; values, masks and OT messages are blocks; the OTs
are bits), evaluated by TLC in `PermShare`. `SwitchesApart` is a premise on the network in the
theorems for any network, without which one switch would overwrite the correction of another; `SwitchesApartHolds`
discharges it for the networks of `benes.cpp`.

The argument. `SharedAlong` compares the sender's values, which it has after the whole exchange, with masks the
receiver had long before, so the inductive invariant follows the corrections from one side to the other:
`TurnInv` (which OTs each side has, how they lie, and the bits under way), `TrailInv` (the receiver's walk),
`SocketInv` (exactly what the sender has still to read, in both variants), `MsgInv` (its masks, before and
after each correction), `WalkInv`, and `MovedInv` (the masks before and after each switch, and its correction,
are still related as when the receiver passed it). `FixedIs` puts these together: a straight switch masks by
the OT message the receiver added, a swapping one by the masks of the two places exchanged. `XorCancel` is all
the algebra that `SharedStep` then needs.

`SharedHolds` follows the switches of a walk one by one: `Carried` is the permutation of places they have made so far, and
`Routes` says that at the end it is the one wanted. That the switches `Benes` sets meet `Routes` is only
model-checked (in the run `PermShare`, for its sizes): the routing is computed by recursive operators.

`NetworkSound` is by induction on `coDepth`. A subnetwork on `size <= 2^coDepth` places that starts at row `permIdx` keeps to
a rectangle of the switch matrix, `Area`: its columns are `depth` to `depth + 2 * coDepth - 2` and its rows the `size / 2` from `permIdx` on
(`Fits` says that these are rows of the matrix). Its two own columns are the first and the last of the rectangle and the
halves stay between them; their rows are apart because `size / 4`, where the top half starts, is exactly what the bottom half needs,
and the top half, of `size - size / 2` places, needs no more than what is left, for each remainder of `size` by four (`LevelSizes`). Entries of
different columns or rows are different positions of `getSwitchesAsBitVec` (`AtApart`). `NeighboursPart` shows that of the two
places of a switch exactly one goes to the bottom half, so that the halves can be listed switch by switch. The recursive
functions `Pow2` and `Subnet` are unrolled first (`Pow2Is`, `SubnetIs`), which needs that functions satisfying them exist.

`RsOprfProofs` proves, for every field, coin toss, VOLE and linear decoding
(`FieldAssumption`, `DecodeAssumption`, `OprfAssumption`), any number of
items and slots, semi-honest and malicious, under every interleaving of sender, receiver and VOLE task:

| Theorem | Statement |
|---|---|
| `OprfEvalAgrees` | `Spec => []EvalAgrees`: the sender's `eval` of a receiver's value is the receiver's output |
| `OprfCommitFirst` | `Spec => []CommitFirst`: `ws` is opened after `wr` is read, and `wr` after the commitment is held |

`OprfCommitFirst` has no assumption on the size. `OprfEvalAgrees` assumes `NumSlots < 2 * Chunk` (fewer than
2^29 blocks), which is the whole range in which it holds: at two full chunks and beyond it is the violation
`RsOprfChunks`. `OpenInv` carries the first: every half of `w` in a queue is the coin's and says what the other
side knew when it was sent. The second needs to know which slots a chunk holds. `FlowInv` says that what is in
the queue is a window of one stream, the seed, `w`, and the pieces the receiver's vector is cut into, so the
sender always takes the piece for the slots it is at; `TurnFacts` that both sides cut at the same slots; `TurnIs`
that one turn of the receiver's loop masks exactly the slots it sends, although its tail loop counts to the size
of what is left. `Sol` takes the masks off again, is a solution throughout (`SolInv`), and the sender's vector is
`a + d Sol` in the slots it has taken and `d c + a` in the others (`SendInv`). `EndsAgree` is the algebra: the
decoder is linear, so the sender's decoding minus `d` times the value is the receiver's decoding of `a`.

`PsiProofs` proves, for every size of both sets, of blocks, words and masks, any number of threads:

| Theorem | Statement |
|---|---|
| `MapsWholeHolds` | under `KeysApart`, `Spec => []MapsWhole`: no match of a fast thread overwrites a hash a slow one has still to insert |
| `PackedWholeHolds` | under `PackRoom`, `Spec => []PackedWhole`: packing in place loses no hash |
| `ExactIfRoomHolds` | under `PackRoom`, `KeysApart` and `TheirsApart`, `Spec => []ExactIfRoom`: the receiver's intersection is exact, each item once, unless the words of two threads overlap |

`KeysApart` says that the receiver's hashes differ in the bytes that travel (what `mMaskSize` is computed for);
`PackRoom` that the entries moved by `memmove` reach past the last one whose source and target overlap (100
entries do, for blocks of 16 bytes and any shorter mask of at most 15). The invariants: `LookupInv` (a map is
the thread's share of the hashes it has passed; the hashes are intact while any thread builds; once a thread
is past the barrier none builds) and `PackInv` (entries before `packed` are in place, the others where they were).
`FindInv` adds what a thread (or the receiver alone) has found: the places of its map met among the entries passed, each once, in words
at its offset of the buffer; as long as no two threads' words overlap the merge reads them all back.

And of the program around it, for every pair of files and every order of the two parties' steps:

| Theorem | Statement |
|---|---|
| `OutputInOrderHolds` | under `PackRoom` and `OprfApart`, `FileSpec => []OutputInOrder`: the output is in the order of the input, each row as often as the sender has it, and the rows written are those the indices count |
| `ImplementsIdealHolds` | under the same, `FileSpec => ImplementsIdeal`: every step is one of `IdealPsi`'s or none |
| `SpansAreLines` | `writeOutput`'s scan for newlines and `std::getline` find the same rows in every text |
| `CountingSortIs` | `counting_sort` puts any indices below its end in order and keeps how often each is there |

`OprfApart` is `KeysApart` for the elements of the files: two different elements have OPRF outputs that differ in
what travels. The steps outside of `run()` leave the state of `RsPsi` alone, so `PackInv` carries over; `SingleInv`
describes the one thread there is, for sets with repetitions too: its map holds the first row of each key
(`Firsts`), and after `n` of the sender's hashes each of those rows is in `out` as often as it was asked for
(`Askers`). `Parties` ties what a party has read to where it is, and says that neither is past the OPRF alone; it
is why no party can end once the other has given up. `Written` and `SpansAreLines` turn indices into rows;
`ReadBackIs` reads them back as the intersection. The scans are recursive functions, unrolled by `Recursion`; `ScansAgree`
goes along the text: what follows the last newline is what `getline` has in its buffer, and the spans cut so far
are the rows it has returned.

`PaxosProofs` proves, for every number of items, size, weight, batch, hashes, keys and values (`PaxosAssumption`):

| Theorem | Statement |
|---|---|
| `PaxosRowsAgree` | `Spec => []RowsAgree`: `buildRow32` and `buildRow` give an item the same row |
| `PaxosRowsApart` | `Spec => []RowsApart`: a row of any weight has that many distinct sparse columns |
| `PaxosWeightsExact` | `Spec => []WeightsExact`: the lists of `WeightData` hold each column that is not taken once, by the number of its rows that are not set |
| `PaxosGapOnlyOnCore` | `Spec => []GapOnlyOnCore`: there is a gap exactly when some rows have no column of their own, and `encode` throws only then |
| `PaxosEncodeSolves` | `Spec => []EncodeSolves`: over any field of characteristic two, what `encode` returns decodes to every item's value, but for the items in `Lost` |

- The rows. The lanes of `buildRow32` use comparisons as masks where `buildRow` branches; `LaneIsRow` compares the two
  case by case. For other weights `buildRow` inserts into sorted columns; that the columns ascend is kept by each
  insertion (`InsertAscends`).
- The elimination. `TriInv` says that the lists of `WeightData` are exact (`WeightsOK`: each column outside the diagonal in
  the list of its weight, once), that the rows on the diagonal are a triangle (`Triangle`: a column taken earlier is in
  none of the later rows) and that a gap was opened only when all rows that are left form a core (`LeastWeightCore`:
  the least weight was then two). A step pops a column and moves those of its rows down one list each (`PopNodeIs`,
  `PushNodeIs`, `LowerRowsIs`). As there are more columns than rows, a column always remains, so the last list is never empty.
- The solution. `ElemAssumption` lists the laws of the blocks that are used: addition is commutative, associative and its own
  inverse, multiplication distributes over it, a bit is 0 or 1. Nothing is assumed of multiplication beyond that, so powers of a key
  and bits are treated alike. `SolveInv` says that the dense part solves the equations of the gap, that
  the sparse part is zero where it has not been set, and in the end that the diagonal decodes to its values (`Fills`, along the loop from
  the last row to the first, because of the triangle). `ReducedIs`, along the loop of `getFCInv`, says that the rows added to
  a row of the gap cancel its sparse part when the free columns are zero; when the row repeats its diagonal row they always cancel. So
  the equation of the gap gives the row its value (`GapRowSolved`). That `E'` is invertible is not needed: `SolveGap`
  requires a solution of the equations. Of `ThrowGap` the proof only shows that there was a gap (`NoGapNoThrow`): without one `gf128Inv` is
  not called, and the binary form finds the empty set of columns invertible.

`RsOpprfProofs` proves, for every width, OPRF, decoder, program and query (`OpprfAssumption`):

| Theorem | Statement |
|---|---|
| `OpprfProgrammed` | `Spec => []EvalProgrammed`: the sender's `eval` of its own keys gives their values |
| `OpprfEvalAgrees` | `Spec => []EvalAgrees`: what the receiver puts out is what the sender's `eval` gives, but for the width of one block |

`OpprfInv` lists the stages of the two sides with what is under way in each, and that from `send` on the table
decodes to the differences; `XorBack` and `XorSwap` are the algebra.

The same module proves circuit PSI, for every number of bins, hashing, cuckoo placement, pair of sets, values, share type and
key length of two bits or more:

| Theorem | Statement |
|---|---|
| `CpsiImplementsJoin` | under `WidthsApart` (neither a key nor a key with its value is exactly one block, see 6), `CpsiSpec => ImplementsJoin`: every step is `Join`'s one step or none; the flags of both sides recombine to one exactly in the bins of common rows, and there the values to the sender's |
| `ZeroTestExact` | the circuit of `isZeroCircuit`, evaluated gate by gate, puts out one exactly when all its inputs are zero |

`CpsiAssumption` says what the inputs are: no set has a row twice, the bins of a row differ for the three hash functions (as `computeLocations`
makes them), a lookup that was not programmed has a value of the right width, XOR undoes itself. It does not say that
placements exist: where there is none the receiver has no step. That the random keys never
coincide with others is in the form of the keys (`Secret`, `Random`, `Unprogrammed`), not an assumption on a constant.

- The zero test. The tree works in place, with inversions pending on wires. `Literal` is a wire with its pending
  inversion; `TreeSum` says that after `d` steps the literal of each multiple of `2^d` tells whether the wires it stands for are
  all zero. `LevelWires` is one step of it, along the gates: they touch different wires (`Multiples`), so each reads what the step
  before it left. Powers of two and the gate list are recursive functions (`StepIs`, `TreeIs`).
- The protocol. `CpsiInv` says where both sides are (`CpsiStages`); that the receiver's rows are in bins of their own (`Placed`);
  that the sender's table holds each row once for each of its bins (`IsTable`, from `TableFilled` along the insertions); that
  the keys and values put out so far are those of the bins passed (`Programmed`); and what the receiver makes of them: a lookup
  gives the secret of the row's bin exactly when the row is common (`LookedUp`, `LookupIs`), and so does the bin's row
  (`RowsPlaced`). That keys carry their hash function is used in `LookupIs`: the sender's key of a row equals the receiver's only
  if both used the same function, so the secret is that of the receiver's bin.
- The padding loop of `send` (`SPad`, of which the source asks why it is needed) may add any number of keys in the proof: they match no lookup.

`BaxosProofs` proves, for any number of threads, bins and inputs:

| Theorem | Statement |
|---|---|
| `HashedFirstHolds` | no thread hashes into the shared arrays once one gathers or encodes a bin |
| `BinsApartHolds` | no two threads are ever at the same bin |
| `BinCompleteHolds` | `Spec => []BinComplete`: with room in the regions, the bin a thread encodes has every input hashed to it, once, whatever thread hashed it |
| `DecodeExactHolds` | `Spec => []DecodeExact`: with room, what decode puts out is every query's value |

`SolveInv` counts: `numDone` is the number of threads past their hashing, and the promise is set when
these are all; a thread's bins are its number plus multiples of `numThreads`. `BinInv` says what lies in each thread's
region of a bin (its inputs hashed there, in their order, while the regions have room) and what a gathering thread has merged; the
merges are recursive functions over the regions. `DecodeInv` does the same for the queries a thread has taken, those pending
in its batches and those put out.

`CpsoProofs` proves, for every number of rows and bins, width of rows and words, security parameter and caps:

| Theorem | Statement |
|---|---|
| `SuppliesSufficeHolds` | no operation after a setup takes more OTs or triples than the setup's plan made, and neither side's batches or base OTs run out |
| `TriplesMultiplyHolds` | the triples the two sides cut from their halves of the same batches multiply, at every cursor |
| `UnionExactHolds` | `Spec => []UnionExact`: what the union gives the receiver is each row of the sender that it does not have, once, and nothing else |
| `ResultExactHolds` | `Spec => []ResultExact`: both sums and inner product are those of the plain sets, and so is the cardinality where its modulus fits an int (`ShiftFits`; see 6); the threshold's bit is `IntGteq` of the cardinality and the carried bits of the threshold |

The first two assume `BitTranscripts` (OTs are of bits, as the runs' are). `SupplyInv` has two parts: `PlanInv`, where
each side is in its plan (both compute it alone, from their own sizes), and `TripleInv`, that the two halves cut so far lie crosswise.
The plan's arithmetic is rounding up to blocks and capping batches; `CeilIs` and `PlanFits` state what is needed of the divisions.
`UnionInv` follows the rows through the three protocols: `JoinedInv` (flags of the bins are shares of membership), `SharedInv` (rows and flags are
permuted alike, whatever the permutation), and what the receiver keeps.

`ResultExactHolds` assumes `WordDraws`: what is drawn (random OTs, masks, the sides' data) are words. `ResultInv` follows the stages
of each operation after the join (`CardStage`, `SumStage`, `Sum32Stage`, `ProductStage`): while a message is under way it says what its reader will
make of it (`CardComing`, `Sum32Coming`, `FirstComing`, `SecondComing`, `ShareComing`), which with the share its sender keeps is the plain result up to
a multiple of the modulus (`Same`). The sums need three facts of loops that are proved by induction: masks add up to nothing (`MasksAddUp`), a sum over
the bins is the sum over the rows spread over them (`TotalOfShared`), and the bits of a number, each times its power, add up to it (`BitsAddUp`).
In a cleared bin without a common row the shares vanish because the two flags agree there (`FirstClears`, `SecondClears`).

Induction. The library's induction theorems take an operator, which the provers cannot instantiate. Where a proof needs induction over
numbers it goes by sets instead: `Induction` (a set with 0 and every successor has all of `Nat`, from the least element of a nonempty set,
`Least`) and `Recursion` (a function given by its value at 0 and its step exists), both proved where they are used.

Only model-checked: liveness (`BothFinish`, `BothReturn`, `CpsiReturns`, `BothEnd`, `AllJoined`), which is out of the prover's reach; and the routing of
`Benes`, made of recursive operators (`Routes` is a premise of `SharedHolds`). Every other property of the passing runs is a theorem.

## 6. Disagreements found

Three runs check what a test of the repository expects and find it violated by the code.

- `RsPsiShare` (`RsPsi.cpp:286`): lookup threads write one `u64` per match from their offset in the shared
  buffer with no bound. With three threads and one that owns most matches, words of two threads overlap and
  `mIntersection` is wrong. `ExactIfRoom` shows that this is the only way.
- `RsOprfChunks` (`RsOprf.cpp:413`): the tail of the chunk loop runs to the size of what is left of `p`
  and not of the chunk, so slots of later chunks are masked twice. Only for encodings beyond 2^29 blocks.
- `RsOpprfBlock` (`RsOpprf.cpp:206`): for values of exactly one block the branch that adds the decoded
  values relies on `outputs` holding the OPRF, which an `if (0)` above prevents.

Three more are in the modules as the code has them, with the properties stated where the code can keep them:

- Circuit PSI meets the last one when key and value bytes come to sixteen: no lookup gives what was programmed, and no common
  row is flagged (`OneBlock`), where `src/tests/RsCpsi_Tests.cpp:223` expects the intersection for any `-bytelen`. `WidthsApart`, the premise of
  `CpsiImplementsJoin`, is exactly its absence; with `ValueBytes = 15` in `RsCpsi.cfg` TLC finds `ImplementsJoin` violated.
- `Cpso.cpp:122`: the modulus of the cardinality is `1 << (cardByteLength*8)` in an `int`. With more than 2^24 bins the shift is
  by 32, which is undefined; a build that takes the count modulo 32 returns 0, where `src/tests/Pso_Tests.cpp:133` expects the
  cardinality for any `-n`. `CardModuli` has both outcomes; `ResultExact` speaks of numbers of bins with `ShiftFits`, and with
  `IntBits = 4` in `Cpso.cfg` and without `ShiftFits` TLC finds it violated.
- `PaxosImpl.h:84`: `gf128Inv` swaps a zero on the diagonal only for a row whose entry is exactly one, where its comment (line 80) says
  non-zero, so `encode` throws "E' not invertable" for matrices that are invertible. `Swapped` is what the code does, and
  `ThrowGap` throws in those cases.

## 7. What is not modelled

- The cryptography: VOLE and OT (libOTe), AES, hash functions. They appear as joint steps or functions with
  the property the code relies on. Nothing is said about what a party learns.
- `PaxosParam` and `getBinSize`, `get_bin_size`: statistics in floating point. Their results are constants, and the
  modules' assumptions say what is relied on (`SparseSize > NumItems`, `DenseSize >= MaxGap`, `DenseSize >= 1`: for
  `GF128` decode reads the first dense entry without asking, and with `ssp` of 40 `PaxosParam::init` makes `mG` positive for any number of
  items that fits in memory).
- `decode32` and `decode8`: `decode1` in lanes. They read the low 64 dense bits of a row only, as an assertion
  of theirs (`mDenseSize <= 64`) allows.
- In `SilentOteGen.cpp` the build without SSE: its `_mm_shuffle_epi8` (lines 93-107) stores the index where the
  instruction, and the comment at its use, take the element. Only the SSE build is modelled.
- Of `fileBased.cpp`: files that cannot be opened, the choice of a file type by its extension, parties with
  different file types, TLS and what is printed. An assertion of `writeOutput` in a debug build fails on empty rows,
  which `readSet` accepts; the model has no such assertion. It is of the release build throughout: other assertions of the
  repository name members that do not exist (`Cpso.cpp:83`), so a debug build does not compile as it stands.
- What `int_int_gteq` compares. The code passes the cardinality first and the threshold second (`Cpso.cpp:405-407`, `500-502`), and
  `src/tests/Pso_Tests.cpp:396` expects `threshold >= intersection`. The circuit is in the library, which is not in this repository, so its
  direction and its use of the top bit are the parameter `IntGteq`; nothing is claimed of them.
- `add32` values whose bytes are not whole words: the code leaves the trailing bytes unmasked, and an assertion kept
  as a comment (`RsCpsi.cpp:89`) rules them out.
- `Join` as a step of `Cpso` takes circuit PSI at the widths at which it is right (`WidthsApart`).
- Liveness of `Paxos`: TLC's instance is too large for it, and there is one thread.
- A second `send` of one `RsOprfSender`, whose `mB` is a view into the VOLE's buffer: every caller sends once.
- Throws on sizes that do not match, where all callers in the repository pass sizes that do.
- Threads of `Baxos` that share one prng: a data race whose effect no decoded value depends on.
- The frontend's command line and the performance tests: they call one operation each.

## 8. Plan

In the order in which the modules were written, the most important behaviour first:

1. `Circuit`, `PlainEval`, `Gmw`, `GmwProofs`: the deepest interleaving, with a refinement and its proof.
2. `RsPsi`: threads over a shared buffer.
3. `RsOprf`: the OPRF everything rests on.
4. `BenesNet`, `Benes`, `PermShare`, `PermShareProofs`.
5. `RsOpprf`.
6. `IsZero`, `Join`, `RsCpsi`.
7. `OteGen`, `Cpso`, on `Join`.
8. `Paxos`, then `Baxos` on it.
9. `IdealPsi`, `FilePsi` around `RsPsi`.
10. `PaxosHash`; the values of `SilentOteGen` in `OteGen`.
11. `PaxosProofs`, `RsOprfProofs`, `PsiProofs`, `RsOpprfProofs`, `BaxosProofs`, `CpsoProofs`.

All of it is done. What no theorem reaches is named at the end of section 5.
