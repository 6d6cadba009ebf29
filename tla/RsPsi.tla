------------------------------- MODULE RsPsi -------------------------------
(***************************************************************************)
(* Private set intersection after the OPRF (RsPsiSender::run and           *)
(* RsPsiReceiver::run): the sender packs its hashes and sends them, the    *)
(* receiver looks them up, with one thread or with several that share a    *)
(* single buffer.                                                          *)
(*                                                                         *)
(* A hash is a row of Block bytes; the first is the part that picks the    *)
(* thread (its low 32 bits), and only the first Mask of them travel.  The  *)
(* receiver's buffer holds its own hashes, then the sender's; the threads  *)
(* write what they find, a machine word each, over its own hashes.         *)
(***************************************************************************)
EXTENDS Integers, Sequences, FiniteSets, SequencesExt

CONSTANTS RecvSize, SendSize,  \* mRecverSize, mSenderSize
          ThreadCounts,        \* the values of mNumThreads
          Block, Word, Mask,   \* bytes of a block, of a u64, and of a compressed hash
          MoveUntil,           \* entries packed by memmove rather than memcpy (100)
          Byte,                \* the values of a byte
          Instances            \* pairs of OPRF outputs [mine, theirs]

IsInstance(n) == /\ n.mine \in [0..RecvSize - 1 -> [0..Block - 1 -> Byte]]
                 /\ n.theirs \in [0..SendSize - 1 -> [0..Block - 1 -> Byte]]

ASSUME RsPsiAssumption ==
  /\ RecvSize \in Nat /\ SendSize \in Nat
  /\ ThreadCounts \subseteq Nat /\ MoveUntil \in Nat
  /\ Byte \subseteq 0..98
  /\ Word \in Nat \ {0} /\ Block = 2 * Word /\ Mask \in 1..Block
  /\ \A n \in Instances : IsInstance(n)

\* A byte of an index a thread writes, and a byte nothing defined has written.
IndexByte(i) == 100 + i
Spoilt == 99

VARIABLES
  inst,    \* the OPRF outputs of both parties
  nt,      \* mNumThreads
  mal,     \* mMalicious: hashes travel whole
  spc,     \* sender: "eval", "pack", "send" or "done"
  hashes,  \* the sender's buffer
  packed,  \* how many of its entries are packed
  wire,    \* what the sender has sent: a row of bytes, or NoMsg
  rpc,     \* receiver: "start", "recv", "find", "join" or "done"
  buf,     \* data: myHashes and theirHashes
  tpc,     \* threads: "build", "barrier", "wait", "find" or "done"
  at,      \* where each thread's loop is
  map,     \* its hash map, a set of [key, idx]
  found,   \* its intersectionSize
  open,    \* the future fu is set: theirHashes has arrived
  out      \* mIntersection

vars == <<inst, nt, mal, spc, hashes, packed, wire, rpc, buf, tpc, at, map, found, open, out>>
NoMsg == <<>>
Threads == 0..(IF nt = 0 THEN 1 ELSE nt) - 1

\* mMaskSize, and the sizes of the two buffers.
MaskSize == IF mal THEN Block ELSE Mask
Masked(h) == [b \in 0..MaskSize - 1 |-> h[b]]
SendBytes == Block * SendSize
BufBytes == Block * RecvSize + MaskSize * SendSize

----------------------------------------------------------------------------
\* The receiver is back from mRecver.receive, the sender about to evaluate.
Start ==
  /\ nt \in ThreadCounts
  /\ mal \in BOOLEAN
  /\ spc = "eval"
  /\ hashes = [b \in 0..SendBytes - 1 |-> Spoilt]
  /\ packed = 0
  /\ wire = NoMsg
  /\ rpc = "start"
  /\ buf = [b \in 0..BufBytes - 1 |->
              IF b < Block * RecvSize THEN inst.mine[b \div Block][b % Block] ELSE Spoilt]
  /\ tpc = [t \in Threads |-> "build"]
  /\ at = [t \in Threads |-> 0]
  /\ map = [t \in Threads |-> {}]
  /\ found = [t \in Threads |-> 0]
  /\ open = FALSE
  /\ out = <<>>
Init == inst \in Instances /\ Start

sender == <<spc, hashes, packed, wire>>
receiver == <<rpc, buf, tpc, at, map, found, open, out>>

SEval ==
  /\ spc = "eval"
  /\ hashes' = [b \in 0..SendBytes - 1 |-> inst.theirs[b \div Block][b % Block]]
  /\ spc' = IF MaskSize # Block THEN "pack" ELSE "send"
  /\ UNCHANGED <<inst, nt, mal, packed, wire, receiver>>

\* Copy n bytes inside f; overlapping ranges are undefined without memmove.
Copy(f, dest, src, n, move) ==
  [b \in DOMAIN f |->
     IF b \in dest..dest + n - 1
     THEN IF ~move /\ dest # src /\ dest < src + n /\ src < dest + n
          THEN Spoilt ELSE f[src + b - dest]
     ELSE f[b]]

\* Mutant: memcpy from the first entry on.
SPackMemcpy ==
  /\ spc = "pack" /\ packed < SendSize
  /\ hashes' = Copy(hashes, packed * MaskSize, packed * Block, MaskSize, FALSE)
  /\ packed' = packed + 1
  /\ UNCHANGED <<inst, nt, mal, spc, wire, receiver>>

SPack ==
  /\ spc = "pack" /\ packed < SendSize
  /\ hashes' = Copy(hashes, packed * MaskSize, packed * Block, MaskSize, packed < MoveUntil)
  /\ packed' = packed + 1
  /\ UNCHANGED <<inst, nt, mal, spc, wire, receiver>>

SSend ==
  /\ spc = "send" \/ (spc = "pack" /\ packed = SendSize)
  /\ wire' = [b \in 0..MaskSize * SendSize - 1 |-> hashes[b]]
  /\ spc' = "done"
  /\ UNCHANGED <<inst, nt, mal, hashes, packed, receiver>>

----------------------------------------------------------------------------
MyHash(i) == [b \in 0..Block - 1 |-> buf[Block * i + b]]
TheirHash(k) == [b \in 0..MaskSize - 1 |-> buf[Block * RecvSize + MaskSize * k + b]]
Arrive == [b \in 0..BufBytes - 1 |->
             IF b < Block * RecvSize THEN buf[b] ELSE wire[b - Block * RecvSize]]

\* dense_hash_map::insert keeps the first value of a key.
Insert(m, pairs) ==
  m \cup {q \in pairs : /\ ~\E r \in m : r.key = q.key
                        /\ ~\E r \in pairs : r.key = q.key /\ r.idx < q.idx}
Find(m, h) == {q.idx : q \in {r \in m : r.key = h}}

\* Fewer than two threads: insert, receive and look up in the coroutine itself.
RInsert ==
  /\ rpc = "start" /\ nt < 2
  /\ map' = [t \in Threads |-> Insert({}, {[key |-> Masked(MyHash(i)), idx |-> i] : i \in 0..RecvSize - 1})]
  /\ rpc' = "recv"
  /\ UNCHANGED <<inst, nt, mal, sender, buf, tpc, at, found, open, out>>

RFind ==
  LET hit == Find(map[0], TheirHash(at[0])) IN
  /\ rpc = "find" /\ nt < 2 /\ at[0] < SendSize
  /\ out' = IF hit = {} THEN out ELSE Append(out, CHOOSE i \in hit : TRUE)
  /\ at' = [at EXCEPT ![0] = @ + 1]
  /\ UNCHANGED <<inst, nt, mal, sender, rpc, buf, tpc, map, found, open>>

RFound ==
  /\ rpc = "find" /\ nt < 2 /\ at[0] = SendSize
  /\ rpc' = "done"
  /\ UNCHANGED <<inst, nt, mal, sender, buf, tpc, at, map, found, open, out>>

\* Otherwise the threads start before the hashes are there.
RSpawn ==
  /\ rpc = "start" /\ nt >= 2
  /\ rpc' = "recv"
  /\ UNCHANGED <<inst, nt, mal, sender, buf, tpc, at, map, found, open, out>>

RRecv ==
  /\ rpc = "recv" /\ wire # NoMsg
  /\ buf' = Arrive
  /\ open' = TRUE
  /\ rpc' = IF nt < 2 THEN "find" ELSE "join"
  /\ UNCHANGED <<inst, nt, mal, sender, tpc, at, map, found, out>>

RJoin ==
  /\ rpc = "join" /\ \A t \in Threads : tpc[t] = "done"
  /\ rpc' = "done"
  /\ UNCHANGED <<inst, nt, mal, sender, buf, tpc, at, map, found, open, out>>

----------------------------------------------------------------------------
\* The low bits of a hash modulo mNumThreads pick the thread.
Owner(h) == h[0] % nt
Running(t) == nt >= 2 /\ rpc # "start" /\ tpc[t] # "done"

\* One hash of the build loop.  The code collects batchSize of its own before
\* it inserts them; the map is the thread's own, so only the reads show.
TBuild(t) ==
  LET h == MyHash(at[t])
      mine == IF Owner(h) = t THEN {[key |-> Masked(h), idx |-> at[t]]} ELSE {} IN
  /\ Running(t) /\ tpc[t] = "build" /\ at[t] < RecvSize
  /\ map' = [map EXCEPT ![t] = Insert(@, mine)]
  /\ at' = [at EXCEPT ![t] = @ + 1]
  /\ UNCHANGED <<inst, nt, mal, sender, rpc, buf, tpc, found, open, out>>

\* ++numDone, then wait for the others: the last one sets the future.
TBuilt(t) ==
  /\ Running(t) /\ tpc[t] = "build" /\ at[t] = RecvSize
  /\ tpc' = [tpc EXCEPT ![t] = "barrier"]
  /\ UNCHANGED <<inst, nt, mal, sender, rpc, buf, at, map, found, open, out>>

\* Mutant: nobody waits.
TPassAlone(t) ==
  /\ Running(t) /\ tpc[t] = "barrier"
  /\ tpc' = [tpc EXCEPT ![t] = "wait"]
  /\ UNCHANGED <<inst, nt, mal, sender, rpc, buf, at, map, found, open, out>>
TPass(t) ==
  /\ Running(t) /\ tpc[t] = "barrier"
  /\ \A u \in Threads : tpc[u] # "build"
  /\ tpc' = [tpc EXCEPT ![t] = "wait"]
  /\ UNCHANGED <<inst, nt, mal, sender, rpc, buf, at, map, found, open, out>>

TStart(t) ==
  /\ Running(t) /\ tpc[t] = "wait" /\ open
  /\ tpc' = [tpc EXCEPT ![t] = "find"]
  /\ at' = [at EXCEPT ![t] = 0]
  /\ UNCHANGED <<inst, nt, mal, sender, rpc, buf, map, found, open, out>>

\* Mutant: every thread writes from the start of the buffer.
BeginShared(t) == 0

\* Where thread t writes: whole blocks into myHashes, a word per match.
Begin(t) == (t * RecvSize) \div nt
Slot(t, k) == Block * Begin(t) + Word * k

TFind(t) ==
  LET h == TheirHash(at[t])
      hit == IF Owner(h) = t THEN Find(map[t], h) ELSE {}
      here == Slot(t, found[t]) .. Slot(t, found[t] + 1) - 1
  IN /\ Running(t) /\ tpc[t] = "find" /\ at[t] < SendSize
     /\ buf' = [b \in 0..BufBytes - 1 |->
                  IF hit # {} /\ b \in here THEN IndexByte(CHOOSE i \in hit : TRUE) ELSE buf[b]]
     /\ found' = [found EXCEPT ![t] = @ + Cardinality(hit)]
     /\ at' = [at EXCEPT ![t] = @ + 1]
     /\ UNCHANGED <<inst, nt, mal, sender, rpc, tpc, map, open, out>>

\* Under mMergeMtx: append this thread's words, read back from the buffer.
IndexAt(b) == buf[b] - 100
TMerge(t) ==
  /\ Running(t) /\ tpc[t] = "find" /\ at[t] = SendSize
  /\ out' = out \o [k \in 1..found[t] |-> IndexAt(Slot(t, k - 1))]
  /\ tpc' = [tpc EXCEPT ![t] = "done"]
  /\ UNCHANGED <<inst, nt, mal, sender, rpc, buf, at, map, found, open>>

Sender == SEval \/ SPack \/ SSend
Receiver == RInsert \/ RFind \/ RFound \/ RSpawn \/ RRecv \/ RJoin
Thread(t) == TBuild(t) \/ TBuilt(t) \/ TPass(t) \/ TStart(t) \/ TFind(t) \/ TMerge(t)
Terminated == rpc = "done" /\ spc = "done" /\ UNCHANGED vars

Next == Sender \/ Receiver \/ (\E t \in Threads : Thread(t)) \/ Terminated
Spec == Init /\ [][Next]_vars

----------------------------------------------------------------------------
(***************************************************************************)
(* Properties.                                                             *)
(***************************************************************************)
MyKey(i) == Masked(inst.mine[i])
TheirKey(k) == Masked(inst.theirs[k])
Common == {i \in 0..RecvSize - 1 : \E k \in 0..SendSize - 1 : TheirKey(k) = MyKey(i)}
Exact == rpc = "done" => /\ ToSet(out) = Common
                         /\ Len(out) = Cardinality(Common)

\* Every thread's matches end before the words of the next thread that has any,
\* and before the sender's hashes.
Matches(t) == Cardinality({i \in Common : Owner(inst.mine[i]) = t})
Fits ==
  \A t \in Threads :
     /\ Slot(t, Matches(t)) <= Block * RecvSize
     /\ \A u \in t + 1 .. nt - 1 :
           Matches(t) > 0 /\ Matches(u) > 0 => Slot(t, Matches(t)) <= Slot(u, 0)

\* Of two sets without repetitions, with up to two threads or when the matches
\* of each thread fit its share of the buffer, mIntersection is the common
\* items, each once, whatever the interleaving of the threads' lookups and merges.
Sets == IsInjective(inst.mine) /\ IsInjective(inst.theirs)
ExactIfRoom == Sets /\ (nt <= 2 \/ Fits) => Exact

\* The test Psi_Rs_multiThrd_test expects this of every number of threads.
MultiThreadExact == Exact

\* Nobody overwrites a hash another thread has still to insert: once a thread
\* is past its build loop its map holds exactly its share of the items.
MapsWhole ==
  \A t \in Threads : (nt >= 2 /\ rpc # "start" /\ tpc[t] # "build") =>
     map[t] = {[key |-> MyKey(i), idx |-> i] :
                 i \in {j \in 0..RecvSize - 1 : Owner(inst.mine[j]) = t}}

\* Packing in place loses nothing: what is sent is the masked hash of each
\* entry, by memmove first and by memcpy once the ranges are apart.
PackedWhole ==
  wire # NoMsg => \A k \in 0..SendSize - 1, b \in 0..MaskSize - 1 :
                     wire[MaskSize * k + b] = inst.theirs[k][b]
=============================================================================
