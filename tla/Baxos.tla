------------------------------- MODULE Baxos -------------------------------
(***************************************************************************)
(* Baxos: hashes the items into bins and encodes each bin by a Paxos of    *)
(* its own; implParSolve and implParDecode with their threads.             *)
(*                                                                         *)
(* A key stands for its hash and an item is a key with the value the key   *)
(* names.  A bin's Paxos is the set of items it was given: it decodes a    *)
(* key of the set to its value and any other key to Noise.                 *)
(***************************************************************************)
EXTENDS Integers, SequencesExt

CONSTANTS Inputs,           \* inputs_: the keys, a sequence
          Queries,          \* the keys to decode
          ThreadCounts, BinCounts,
          ThrdMaxes,        \* perThrdMaxBinSize: what getBinSize may give
          ItemsPerBin,      \* mItemsPerBin
          BatchCap,         \* decodeSize is at most this
          Old,              \* what the decoder's values hold before
          Noise, Nothing

N == Len(Inputs)
Keys == Range(Inputs) \cup Range(Queries)
MaxThreads == Max(ThreadCounts)

ASSUME BaxosAssumption ==
  /\ Inputs \in Seq(Keys) /\ Queries \in Seq(Keys) /\ Old \notin Keys
  /\ IsInjective(Inputs) /\ ThreadCounts \subseteq Nat \ {0} /\ BinCounts \subseteq Nat \ {0}
  /\ ThrdMaxes \subseteq Nat \ {0} /\ {ItemsPerBin, BatchCap} \subseteq Nat \ {0}

VARIABLES
  numBins, numThreads, binOf, thrdMax, addToDecode,
  phase,            \* "solve", "decode", "done", or "dead" after a throw
  tpc, at, bin,     \* each thread's place, next input and bin
  sizes,            \* thrdBinSizes
  hashes, vals,     \* hashBacking and valBacking
  numDone, promise, \* numDone and hashingDoneProm
  P,                \* the output, a Paxos for each bin
  batch,            \* each thread's batches: positions in Queries
  values            \* the decoded values

vars == <<numBins, numThreads, binOf, thrdMax, addToDecode, phase, tpc, at, bin, sizes, hashes, vals,
          numDone, promise, P, batch, values>>
inst == <<numBins, numThreads, binOf, thrdMax, addToDecode>>
memory == <<sizes, hashes, vals>>
barrier == <<numDone, promise>>
decoding == <<batch, values>>

Threads == 0..numThreads - 1
Bins == 0..numBins - 1
\* The part of n inputs a thread takes is [From(t, n), From(t + 1, n)).
From(t, n) == (n * t) \div numThreads

\* thread t's region of bin b
Region(b, t) == (b * numThreads + t) * thrdMax
Slots == 0..numBins * numThreads * thrdMax - 1
\* A write past the end goes to memory the model does not have.
Write(mem, s, x) == IF s \in Slots THEN [mem EXCEPT ![s] = x] ELSE mem
ReadAt(mem, s) == IF s \in Slots THEN mem[s] ELSE Nothing

Init ==
  /\ numBins \in BinCounts /\ numThreads \in ThreadCounts /\ thrdMax \in ThrdMaxes
  /\ addToDecode \in BOOLEAN /\ binOf \in [Keys -> Bins]
  /\ phase = "solve" /\ tpc = [t \in Threads |-> "hash"]
  /\ at = [t \in Threads |-> From(t, N)] /\ bin = [t \in Threads |-> t]
  /\ sizes = [t \in Threads |-> [b \in Bins |-> 0]]
  /\ hashes = [s \in Slots |-> Nothing] /\ vals = [s \in Slots |-> Nothing]
  /\ numDone = 0 /\ promise = FALSE
  /\ P = [b \in Bins |-> {}]
  /\ batch = [t \in Threads |-> [b \in Bins |-> <<>>]]
  /\ values = [k \in DOMAIN Queries |-> {Old}]

\* One bin: a single Paxos and no threads.
SolveSingle ==
  /\ phase = "solve" /\ numBins = 1
  /\ P' = [b \in Bins |-> {<<k, k>> : k \in Range(Inputs)}]
  /\ phase' = "decode"
  /\ tpc' = [t \in Threads |-> "take"] /\ at' = [t \in Threads |-> From(t, Len(Queries))]
  /\ UNCHANGED <<inst, bin, memory, barrier, decoding>>
\* Its setInput or encode throws, which reaches the caller.
ThrowSingle ==
  /\ phase = "solve" /\ numBins = 1
  /\ phase' = "dead"
  /\ UNCHANGED <<inst, tpc, at, bin, memory, barrier, P, decoding>>

Go(t, from, to) == phase = "solve" /\ numBins > 1 /\ tpc[t] = from /\ tpc' = [tpc EXCEPT ![t] = to]

\* Hash the next input into the thread's own bins, with no check of their size.
Hash(t) ==
  /\ Go(t, "hash", "hash") /\ at[t] < From(t + 1, N)
  /\ LET k == Inputs[at[t] + 1]
         b == binOf[k]
         s == Region(b, t) + sizes[t][b] IN
       /\ hashes' = Write(hashes, s, k) /\ vals' = Write(vals, s, k)
       /\ sizes' = [sizes EXCEPT ![t][b] = @ + 1]
  /\ at' = [at EXCEPT ![t] = @ + 1]
  /\ UNCHANGED <<inst, phase, bin, barrier, P, decoding>>

\* ++numDone == numThreads
\* Mutant: only the threads that were started count.
AllStarted(n) == n >= numThreads - 1
\* Mutant: the count before the increment.
AllBefore(n) == n - 1 = numThreads
AllHashed(n) == n = numThreads
Arrive(t) ==
  /\ at[t] = From(t + 1, N)
  /\ numDone' = numDone + 1
  /\ IF AllHashed(numDone + 1) THEN Go(t, "hash", "bins") /\ promise' = TRUE
                          ELSE Go(t, "hash", "wait") /\ promise' = promise
  /\ UNCHANGED <<inst, phase, at, bin, memory, P, decoding>>
Pass(t) ==
  /\ promise /\ Go(t, "wait", "bins")
  /\ UNCHANGED <<inst, phase, at, bin, memory, barrier, P, decoding>>

\* memmove of size entries, and the loop that assigns as many values.
Move(mem, to, from, size) ==
  [s \in Slots |-> IF s \in to..to + size - 1 THEN ReadAt(mem, from + s - to) ELSE mem[s]]
Assign(mem, to, from, size) ==
  LET v[j \in 0..size] == IF j = 0 THEN mem ELSE Write(v[j - 1], to + j - 1, ReadAt(v[j - 1], from + j - 1))
  IN v[size]

\* What the threads before t mapped to bin b.
Before(b, t) == LET sum[n \in 0..t] == IF n = 0 THEN 0 ELSE sum[n - 1] + sizes[n - 1][b] IN sum[t]
\* Mutant: each part goes to the end of the first thread's.
BinPosFirst(b, t) == Region(b, 0) + sizes[0][b]
BinPos(b, t) == Region(b, 0) + Before(b, t)
\* The other threads' parts, one after the other.
MergeHashes(b) ==
  LET v[t \in Threads] == IF t = 0 THEN hashes ELSE Move(v[t - 1], BinPos(b, t), Region(b, t), sizes[t][b])
  IN v[numThreads - 1]
MergeVals(b) ==
  LET v[t \in Threads] == IF t = 0 THEN vals ELSE Assign(v[t - 1], BinPos(b, t), Region(b, t), sizes[t][b])
  IN v[numThreads - 1]

Gather(t) ==
  /\ bin[t] < numBins /\ Before(bin[t], numThreads) <= ItemsPerBin
  /\ Go(t, "bins", "encode")
  /\ hashes' = MergeHashes(bin[t]) /\ vals' = MergeVals(bin[t])
  /\ UNCHANGED <<inst, phase, at, bin, sizes, barrier, P, decoding>>
\* A throw, here or in encode: it leaves solve when there is one thread, and
\* otherwise leaves a thread or destroys threads not joined: std::terminate.
Throw(t) ==
  /\ phase = "solve" /\ numBins > 1
  /\ \/ tpc[t] = "bins" /\ bin[t] < numBins /\ Before(bin[t], numThreads) > ItemsPerBin
     \/ tpc[t] = "encode"
  /\ phase' = "dead"
  /\ UNCHANGED <<inst, tpc, at, bin, memory, barrier, P, decoding>>
Encode(t) ==
  /\ Go(t, "encode", "bins")
  /\ LET b == bin[t]  first == Region(b, 0) IN
       P' = [P EXCEPT ![b] =
               {<<ReadAt(hashes, s), ReadAt(vals, s)>> : s \in first..first + Before(b, numThreads) - 1}]
  /\ bin' = [bin EXCEPT ![t] = @ + numThreads]
  /\ UNCHANGED <<inst, phase, at, memory, barrier, decoding>>
Return(t) ==
  /\ bin[t] >= numBins /\ Go(t, "bins", "done")
  /\ UNCHANGED <<inst, phase, at, bin, memory, barrier, P, decoding>>

\* join; then decode starts its own threads.
Joined ==
  /\ phase = "solve" /\ \A t \in Threads : tpc[t] = "done"
  /\ phase' = "decode"
  /\ tpc' = [t \in Threads |-> "take"] /\ at' = [t \in Threads |-> From(t, Len(Queries))]
  /\ UNCHANGED <<inst, bin, memory, barrier, P, decoding>>

(***************************************************************************)
(* implParDecode: each thread collects its inputs by bin, in batches.      *)
(***************************************************************************)
Decoded(b, k) == IF \E p \in P[b] : p[1] = k THEN {p[2] : p \in {q \in P[b] : q[1] = k}} ELSE {Noise}
Plus(x, y) == (x \ y) \cup (y \ x)
\* implDecodeBin: the values at the given positions.
DecodeBin(v, b, idxs) ==
  [k \in DOMAIN v |-> IF k \notin Range(idxs) THEN v[k]
                      ELSE IF addToDecode THEN Plus(v[k], Decoded(b, Queries[k]))
                      ELSE Decoded(b, Queries[k])]
DecodeSize(t) == LET n == From(t + 1, Len(Queries)) - From(t, Len(Queries)) IN IF n < BatchCap THEN n ELSE BatchCap

\* One bin: the Paxos decodes all of its inputs.
DecodeSingle ==
  /\ phase = "decode" /\ numBins = 1
  /\ values' = DecodeBin(values, 0, [k \in DOMAIN Queries |-> k])
  /\ phase' = "done"
  /\ UNCHANGED <<inst, tpc, at, bin, memory, barrier, P, batch>>

\* Put the next input in its bin's batch; a full batch is decoded and starts again.
\* Mutant: a full batch is not emptied.
RestartFull(full) == full
Restart(full) == <<>>
Take(t) ==
  /\ phase = "decode" /\ numBins > 1 /\ tpc[t] = "take" /\ at[t] < From(t + 1, Len(Queries))
  /\ LET b == binOf[Queries[at[t] + 1]]
         idxs == Append(batch[t][b], at[t] + 1) IN
       IF Len(idxs) = DecodeSize(t)
       THEN values' = DecodeBin(values, b, idxs) /\ batch' = [batch EXCEPT ![t][b] = Restart(idxs)]
       ELSE values' = values /\ batch' = [batch EXCEPT ![t][b] = idxs]
  /\ at' = [at EXCEPT ![t] = @ + 1]
  /\ UNCHANGED <<inst, phase, tpc, bin, memory, barrier, P>>
\* Then what is left of each bin.
TakeRest(t) ==
  /\ phase = "decode" /\ numBins > 1 /\ tpc[t] = "take" /\ at[t] = From(t + 1, Len(Queries))
  /\ values' = LET v[b \in 0..numBins] == IF b = 0 THEN values ELSE DecodeBin(v[b - 1], b - 1, batch[t][b - 1])
                IN v[numBins]
  /\ tpc' = [tpc EXCEPT ![t] = "done"]
  /\ UNCHANGED <<inst, phase, at, bin, memory, barrier, P, batch>>
DecodeJoined ==
  /\ phase = "decode" /\ \A t \in Threads : tpc[t] = "done"
  /\ phase' = "done"
  /\ UNCHANGED <<inst, tpc, at, bin, memory, barrier, P, decoding>>

Ended == phase \in {"done", "dead"} /\ UNCHANGED vars

Step(t) ==
  \/ Hash(t) \/ Arrive(t) \/ Pass(t) \/ Gather(t) \/ Throw(t) \/ Encode(t) \/ Return(t) \/ Take(t) \/ TakeRest(t)
Main == SolveSingle \/ ThrowSingle \/ Joined \/ DecodeSingle \/ DecodeJoined

Next == Main \/ Ended \/ \E t \in Threads : Step(t)
Spec == Init /\ [][Next]_vars
\* Every started thread runs, and so does the caller.
FairSpec == Spec /\ WF_vars(Main) /\ \A t \in 0..MaxThreads - 1 : WF_vars(t \in Threads /\ Step(t))

(***************************************************************************)
(* Properties                                                              *)
(***************************************************************************)

\* What a thread encodes as its bin is exactly the inputs of that bin, each
\* with its value: no other thread was still hashing into it (the numDone
\* barrier), and no other thread's merge reached into it.
Roomy == \A t \in Threads, b \in Bins : sizes[t][b] <= thrdMax
BinComplete ==
  \A t \in Threads : (phase = "solve" /\ tpc[t] = "encode" /\ Roomy) =>
     LET b == bin[t]  region == Region(b, 0)..Region(b, 0) + Before(b, numThreads) - 1
         items == {k \in Range(Inputs) : binOf[k] = b} IN
       /\ {ReadAt(hashes, s) : s \in region} = items /\ Cardinality(region) = Cardinality(items)
       /\ \A s \in region : ReadAt(vals, s) = ReadAt(hashes, s)

\* solve and decode end, or a throw ends them: no thread waits at the
\* barrier for good, whatever the number of threads, inputs and bins.
AllJoined == <>(phase \in {"done", "dead"})

\* If every bin of every thread has room (what getBinSize is computed for),
\* the whole of implParSolve and implParDecode is exact for any spread over
\* threads and bins: each query that was an input has its value, added once
\* with mAddToDecode, however the parts were merged and the batches filled.
DecodeExact ==
  (phase = "done" /\ Roomy) =>
    \A k \in DOMAIN Queries : Queries[k] \in Range(Inputs) =>
       values[k] = IF addToDecode THEN {Old, Queries[k]} ELSE {Queries[k]}
=============================================================================
