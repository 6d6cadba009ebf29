----------------------------- MODULE PsiProofs -----------------------------
(***************************************************************************)
(* RsPsi and the file based PSI around it.  The shared buffer of the       *)
(* receiver and the sender's packing in place, for every size of the sets, *)
(* of the blocks and of the masks, any number of threads and every         *)
(* interleaving: no thread loses a hash to another one's matches (the      *)
(* numDone barrier), no hash is lost in packing (the switch from memmove   *)
(* to memcpy), and what the lookup ends with is the intersection.  Then,   *)
(* for every pair of files: readSet and writeOutput find the same rows,    *)
(* the output is in order, and doFilePSI implements IdealPsi.              *)
(***************************************************************************)
EXTENDS FilePsi, FiniteSetTheorems, SequenceTheorems, WellFoundedInduction, TLAPS

Rows == 0..RecvSize - 1
Building == \E u \in Threads : tpc[u] = "build"

(***************************************************************************)
(* The invariant of the receiver.  A thread's map holds its share of the   *)
(* hashes it has passed; while any thread builds, the buffer holds the     *)
(* receiver's hashes; and once one thread is past the barrier none builds. *)
(***************************************************************************)
Entries(t, n) == {[key |-> MyKey(i), idx |-> i] : i \in {j \in 0..n - 1 : Owner(inst.mine[j]) = t}}
TypeInv ==
  /\ inst \in Instances /\ nt \in Nat /\ mal \in BOOLEAN
  /\ at \in [Threads -> Nat] /\ map = [t \in Threads |-> map[t]]
  /\ tpc \in [Threads -> {"build", "barrier", "wait", "find", "done"}]
MapInv ==
  (nt >= 2) => \A t \in Threads :
     /\ tpc[t] = "build" => at[t] \in 0..RecvSize /\ map[t] = Entries(t, at[t])
     /\ tpc[t] # "build" => map[t] = Entries(t, RecvSize)
Intact == Building => \A i \in Rows, b \in 0..Block - 1 : buf[Block * i + b] = inst.mine[i][b]
BarrierInv == (\E u \in Threads : tpc[u] \in {"wait", "find", "done"}) => ~Building
LookupInv == TypeInv /\ MapInv /\ Intact /\ BarrierInv

\* Two hashes of the receiver differ in what travels (for a mask of the size
\* init computes, but for a chance of 2^-ssp).
KeysApart == \A n \in Instances, i, j \in Rows : i # j => \E b \in 0..Mask - 1 : n.mine[i][b] # n.mine[j][b]

(***************************************************************************)
(* Arithmetic.                                                             *)
(***************************************************************************)
LEMMA Within ==
  ASSUME NEW n \in Nat, NEW k \in Nat, NEW i \in 0..n - 1
  PROVE  k * i + k <= k * n
<1>1. PICK d \in Nat : n = (i + 1) + d
  <2>1. n - (i + 1) \in Nat /\ n = (i + 1) + (n - (i + 1))
    OBVIOUS
  <2> QED BY <2>1
<1>2. k * n = k * i + k + k * d
  BY <1>1
<1>3. k * d \in Nat /\ k * i \in Nat
  BY <1>1
<1> QED BY <1>2, <1>3

LEMMA DivAt ==
  ASSUME NEW k \in Nat \ {0}, NEW i \in Nat, NEW c \in 0..k - 1
  PROVE  (k * i + c) \div k = i /\ (k * i + c) % k = c
<1> DEFINE x == k * i + c
           q == x \div k
           r == x % k
<1>1. x \in Nat /\ q \in Int /\ r \in 0..k - 1 /\ x = k * q + r
  OBVIOUS
<1>2. q = i
  <2>1. ASSUME q < i PROVE FALSE
    <3>1. q + 1 <= i
      BY <1>1, <2>1
    <3>2. k * (q + 1) <= k * i
      BY <1>1, <3>1
    <3> QED BY <1>1, <3>2
  <2>2. ASSUME i < q PROVE FALSE
    <3>1. i + 1 <= q
      BY <1>1, <2>2
    <3>2. k * (i + 1) <= k * q
      BY <1>1, <3>1
    <3> QED BY <1>1, <3>2
  <2> QED BY <1>1, <2>1, <2>2
<1>3. r = c
  BY <1>1, <1>2
<1> QED BY <1>2, <1>3

LEMMA Sizes ==
  ASSUME mal \in BOOLEAN
  PROVE  /\ Block \in Nat \ {0} /\ MaskSize \in 1..Block /\ Mask \in 1..MaskSize
         /\ RecvSize \in Nat /\ SendSize \in Nat /\ MoveUntil \in Nat
  BY RsPsiAssumption DEF MaskSize

\* Byte c of row i, in n rows of k bytes.
LEMMA CellAt ==
  ASSUME NEW n \in Nat, NEW k \in Nat \ {0}, NEW i \in 0..n - 1, NEW c \in 0..k - 1
  PROVE  k * i + c \in 0..k * n - 1 /\ (k * i + c) \div k = i /\ (k * i + c) % k = c
<1>1. k * i + k <= k * n
  BY Within
<1>2. k * i \in Nat /\ k * n \in Nat
  OBVIOUS
<1>3. (k * i + c) \div k = i /\ (k * i + c) % k = c
  BY DivAt
<1> QED BY <1>1, <1>2, <1>3

\* Where the receiver's own hashes are, nothing of the sender arrives.
LEMMA OwnCells ==
  ASSUME mal \in BOOLEAN, NEW i \in Rows, NEW b \in 0..Block - 1
  PROVE  /\ Block * i + b \in 0..BufBytes - 1 /\ Block * i + b < Block * RecvSize
         /\ (Block * i + b) \div Block = i /\ (Block * i + b) % Block = b
<1>1. Block \in Nat \ {0} /\ RecvSize \in Nat
  BY Sizes
<1>2. Block * i + b \in 0..Block * RecvSize - 1 /\ (Block * i + b) \div Block = i /\ (Block * i + b) % Block = b
  BY <1>1, CellAt DEF Rows
<1>3. MaskSize * SendSize \in Nat /\ Block * RecvSize \in Nat
  BY Sizes
<1> QED BY <1>2, <1>3 DEF BufBytes

LEMMA MineIs ==
  ASSUME inst \in Instances, NEW i \in Rows
  PROVE  inst.mine[i] = [b \in 0..Block - 1 |-> inst.mine[i][b]]
<1>1. inst.mine \in [Rows -> [0..Block - 1 -> Byte]]
  BY RsPsiAssumption DEF IsInstance, Rows
<1> QED BY <1>1

(***************************************************************************)
(* The receiver's actions.                                                 *)
(***************************************************************************)
LEMMA InitInv == Init => LookupInv
<1> SUFFICES ASSUME Init PROVE LookupInv
  OBVIOUS
<1> USE DEF Init, Start
<1>1. TypeInv
  BY RsPsiAssumption DEF TypeInv, Threads
<1>2. MapInv
  BY RsPsiAssumption DEF MapInv, Entries, TypeInv, Threads
<1>3. Intact
  <2> SUFFICES ASSUME NEW i \in Rows, NEW b \in 0..Block - 1 PROVE buf[Block * i + b] = inst.mine[i][b]
    BY DEF Intact
  <2> DEFINE c == Block * i + b
  <2>1. c \in 0..BufBytes - 1 /\ c < Block * RecvSize /\ c \div Block = i /\ c % Block = b
    BY OwnCells
  <2> HIDE DEF c
  <2>2. buf[c] = inst.mine[c \div Block][c % Block]
    BY <2>1
  <2> QED BY <2>1, <2>2, Zenon DEF c
<1>4. BarrierInv
  BY DEF BarrierInv, Building
<1> QED BY <1>1, <1>2, <1>3, <1>4 DEF LookupInv

\* Nothing of the invariant changes when only other variables do.
LEMMA Kept ==
  ASSUME LookupInv, UNCHANGED <<inst, nt, mal, tpc, at, map>>, buf' = buf
  PROVE  LookupInv'
<1>1. Threads' = Threads /\ (\A u, k : Entries(u, k)' = Entries(u, k))
  BY DEF Threads, Entries, MyKey, Masked, MaskSize, Owner
<1>2. TypeInv' /\ Intact' /\ BarrierInv'
  BY <1>1 DEF LookupInv, TypeInv, Intact, BarrierInv, Building
<1>3. MapInv'
  BY <1>1 DEF LookupInv, MapInv
<1> QED BY <1>2, <1>3 DEF LookupInv

LEMMA BuildInv == ASSUME KeysApart, LookupInv, NEW t \in Threads, TBuild(t) PROVE LookupInv'
<1> USE DEF TBuild, receiver, sender
<1> DEFINE n == at[t]
<1>1. /\ inst \in Instances /\ nt \in Nat /\ nt >= 2 /\ mal \in BOOLEAN /\ tpc[t] = "build" /\ n \in Rows
      /\ map[t] = Entries(t, n) /\ Building
  BY RsPsiAssumption DEF LookupInv, TypeInv, MapInv, Running, Building, Rows
<1>2. MyHash(n) = inst.mine[n]
  BY <1>1, MineIs DEF LookupInv, Intact, MyHash
<1>3. map' = [map EXCEPT ![t] = Entries(t, n + 1)]
  <2> DEFINE mine == IF Owner(inst.mine[n]) = t THEN {[key |-> MyKey(n), idx |-> n]} ELSE {}
  <2>1. map' = [map EXCEPT ![t] = Insert(Entries(t, n), mine)]
    BY <1>1, <1>2, Zenon DEF MyKey
  <2>2. \A r \in Entries(t, n) : r.key # MyKey(n)
    <3> SUFFICES ASSUME NEW i \in 0..n - 1 PROVE MyKey(i) # MyKey(n)
      BY DEF Entries
    <3>0. i \in Rows /\ n \in Rows /\ i # n
      BY <1>1, RsPsiAssumption DEF Rows
    <3>1. PICK b \in 0..Mask - 1 : inst.mine[i][b] # inst.mine[n][b]
      BY <1>1, <3>0, Zenon DEF KeysApart
    <3>2. b \in 0..MaskSize - 1
      BY <1>1, Sizes
    <3> QED BY <3>1, <3>2 DEF MyKey, Masked
  <2>3. Insert(Entries(t, n), mine) = Entries(t, n) \cup mine
    <3>1. \A q \in mine : q.key = MyKey(n) /\ q.idx = n
      OBVIOUS
    <3>2. n \in Int
      BY <1>1 DEF Rows
    <3> HIDE DEF mine, n
    <3> QED BY <2>2, <3>1, <3>2 DEF Insert
  <2>4. Entries(t, n) \cup mine = Entries(t, n + 1)
    <3>1. 0..(n + 1) - 1 = (0..n - 1) \cup {n}
      BY <1>1 DEF Rows
    <3> HIDE DEF n
    <3> QED BY <3>1 DEF Entries
  <2> QED BY <2>1, <2>3, <2>4
<1> HIDE DEF n
<1>4. at' = [at EXCEPT ![t] = n + 1] /\ tpc' = tpc /\ inst' = inst /\ nt' = nt /\ mal' = mal /\ buf' = buf
  BY DEF n
<1>5. TypeInv'
  <2>1. Threads' = Threads /\ at' \in [Threads -> Nat]
    BY <1>1, <1>4 DEF LookupInv, TypeInv, Threads, Rows
  <2>2. map' = [u \in Threads |-> map'[u]]
    BY <1>3 DEF LookupInv, TypeInv
  <2> QED BY <1>1, <1>4, <2>1, <2>2 DEF LookupInv, TypeInv
<1>6. MapInv'
  <2>1. \A u, k : Entries(u, k)' = Entries(u, k)
    BY <1>4 DEF Entries, MyKey, Masked, MaskSize, Owner
  <2>2. /\ map'[t] = Entries(t, n + 1) /\ at'[t] = n + 1 /\ n + 1 \in 0..RecvSize
        /\ \A u \in Threads : u # t => map'[u] = map[u] /\ at'[u] = at[u]
    BY <1>1, <1>3, <1>4, RsPsiAssumption DEF LookupInv, TypeInv, Rows
  <2>3. Threads' = Threads
    BY <1>4 DEF Threads
  <2> QED BY <1>1, <1>4, <2>1, <2>2, <2>3 DEF LookupInv, MapInv
<1>7. Intact' /\ BarrierInv'
  BY <1>4 DEF LookupInv, Intact, BarrierInv, Building, Threads
<1> QED BY <1>5, <1>6, <1>7 DEF LookupInv

\* The steps that only move a thread on from its place to the next.
LEMMA MovesOn ==
  ASSUME LookupInv, NEW t \in Threads, NEW to \in {"barrier", "wait", "find", "done"},
         tpc' = [tpc EXCEPT ![t] = to], UNCHANGED <<inst, nt, mal, map, buf>>,
         at' \in [Threads -> Nat],
         \A u \in Threads : u # t => at'[u] = at[u],
         tpc[t] = "build" => at[t] = RecvSize,
         to # "barrier" => ~Building
  PROVE  LookupInv'
<1>1. Threads' = Threads
  BY DEF Threads
<1>2. TypeInv'
  BY <1>1 DEF LookupInv, TypeInv
<1>3. MapInv'
  <2>1. \A u, k : Entries(u, k)' = Entries(u, k)
    BY DEF Entries, MyKey, Masked, MaskSize, Owner
  <2>2. /\ tpc'[t] = to /\ \A u \in Threads : u # t => tpc'[u] = tpc[u]
    BY DEF LookupInv, TypeInv
  <2> QED BY <1>1, <2>1, <2>2 DEF LookupInv, MapInv
<1>4. Building' => Building
  BY <1>1 DEF Building, LookupInv, TypeInv
<1>5. Intact'
  BY <1>4 DEF LookupInv, Intact
<1>6. BarrierInv'
  BY <1>1, <1>4 DEF LookupInv, BarrierInv, Building, TypeInv
<1> QED BY <1>2, <1>3, <1>5, <1>6 DEF LookupInv

LEMMA ThreadInv == ASSUME KeysApart, LookupInv, NEW t \in Threads, Thread(t) PROVE LookupInv'
<1> USE DEF LookupInv, TypeInv
<1>1. CASE TBuild(t)
  BY <1>1, BuildInv
<1>2. CASE TBuilt(t)
  BY <1>2, MovesOn DEF TBuilt
<1>3. CASE TPass(t)
  <2>1. ~Building
    BY <1>3 DEF TPass, Building
  <2> QED BY <1>3, <2>1, MovesOn DEF TPass
<1>4. CASE TStart(t)
  <2>1. ~Building
    BY <1>4 DEF TStart, BarrierInv
  <2>2. at' \in [Threads -> Nat] /\ \A u \in Threads : u # t => at'[u] = at[u]
    BY <1>4 DEF TStart
  <2> QED BY <1>4, <2>1, <2>2, MovesOn DEF TStart
<1>5. CASE TFind(t)
  <2>1. ~Building /\ tpc' = tpc /\ nt' = nt
    BY <1>5 DEF TFind, BarrierInv
  <2>2. ~Building'
    BY <2>1 DEF Building, Threads
  <2>3. at' \in [Threads -> Nat] /\ UNCHANGED <<inst, mal, map>>
    BY <1>5 DEF TFind
  <2>4. TypeInv'
    BY <2>1, <2>3 DEF Threads
  <2>5. MapInv'
    <3>1. \A u, k : Entries(u, k)' = Entries(u, k)
      BY <2>1, <2>3 DEF Entries, MyKey, Masked, MaskSize, Owner
    <3>2. \A u \in Threads : tpc[u] # "build"
      BY <2>1 DEF Building
    <3> QED BY <2>1, <2>3, <3>1, <3>2 DEF MapInv, Threads
  <2> QED BY <2>2, <2>4, <2>5 DEF Intact, BarrierInv
<1>6. CASE TMerge(t)
  <2>1. ~Building
    BY <1>6 DEF TMerge, BarrierInv
  <2> QED BY <1>6, <2>1, MovesOn DEF TMerge
<1> QED BY <1>1, <1>2, <1>3, <1>4, <1>5, <1>6 DEF Thread

LEMMA ReceiverInv == ASSUME LookupInv, Receiver PROVE LookupInv'
<1> USE DEF sender
<1>1. CASE RInsert \/ RFind
  <2>1. nt \in Nat /\ nt < 2 /\ UNCHANGED <<inst, nt, mal, tpc, buf>> /\ Threads' = Threads
    BY <1>1 DEF RInsert, RFind, LookupInv, TypeInv, Threads
  <2>2. TypeInv'
    BY <1>1, <2>1 DEF LookupInv, TypeInv, RInsert, RFind, Threads
  <2>3. MapInv'
    BY <2>1 DEF MapInv
  <2>4. Intact' /\ BarrierInv'
    BY <2>1 DEF LookupInv, Intact, BarrierInv, Building
  <2> QED BY <2>2, <2>3, <2>4 DEF LookupInv
<1>2. CASE RRecv
  <2>1. /\ UNCHANGED <<inst, nt, mal, tpc, at, map>> /\ Threads' = Threads /\ buf' = Arrive
        /\ mal \in BOOLEAN
    BY <1>2 DEF RRecv, Threads, LookupInv, TypeInv
  <2>2. Intact'
    <3> SUFFICES ASSUME Building', NEW i \in Rows, NEW b \in 0..Block - 1
                 PROVE  buf'[Block * i + b] = inst.mine[i][b]
      BY <2>1 DEF Intact
    <3>1. buf[Block * i + b] = inst.mine[i][b]
      BY <2>1 DEF Building, LookupInv, Intact
    <3> DEFINE c == Block * i + b
    <3>2. c \in 0..BufBytes - 1 /\ c < Block * RecvSize
      BY <2>1, OwnCells
    <3> HIDE DEF c
    <3>3. buf'[c] = buf[c]
      BY <2>1, <3>2 DEF Arrive
    <3> QED BY <3>1, <3>3 DEF c
  <2>3. TypeInv' /\ BarrierInv'
    BY <2>1 DEF LookupInv, TypeInv, BarrierInv, Building
  <2>4. MapInv'
    BY <2>1 DEF LookupInv, MapInv, Entries, MyKey, Masked, MaskSize, Owner
  <2> QED BY <2>2, <2>3, <2>4 DEF LookupInv
<1>3. CASE RFound \/ RSpawn \/ RJoin
  BY <1>3, Kept DEF RFound, RSpawn, RJoin
<1> QED BY <1>1, <1>2, <1>3 DEF Receiver

LEMMA LookupStep == ASSUME KeysApart, LookupInv, [Next]_vars PROVE LookupInv'
<1>1. CASE Sender
  BY <1>1, Kept DEF Sender, SEval, SPack, SSend, receiver
<1>2. CASE Receiver
  BY <1>2, ReceiverInv
<1>3. CASE \E t \in Threads : Thread(t)
  BY <1>3, ThreadInv
<1>4. CASE Terminated \/ UNCHANGED vars
  BY <1>4, Kept DEF Terminated, vars
<1> QED BY <1>1, <1>2, <1>3, <1>4 DEF Next

\* For every number of threads, sizes and interleaving: a thread past its build loop has
\* exactly its share of the items in its map, so no match of a faster thread has been
\* written over a hash it had still to insert (RsPsiReceiver::run, the numDone barrier).
THEOREM MapsWholeHolds ==
  ASSUME KeysApart
  PROVE  Spec => []MapsWhole
<1>1. Init => LookupInv
  BY InitInv
<1>2. LookupInv /\ [Next]_vars => LookupInv'
  BY LookupStep
<1>3. LookupInv => MapsWhole
  BY DEF LookupInv, MapInv, MapsWhole, Entries
<1> QED BY <1>1, <1>2, <1>3, PTL DEF Spec

(***************************************************************************)
(* The sender.  While it packs, the entries before packed are where they   *)
(* go and those from packed on where they were.                            *)
(***************************************************************************)
Ours == 0..SendSize - 1
\* Entry k of inst n is whole in f, or in its place among masks of z bytes.
Whole(f, n, k) == \A b \in 0..Block - 1 : f[Block * k + b] = n.theirs[k][b]
Placed(f, n, z, k) == \A b \in 0..z - 1 : f[z * k + b] = n.theirs[k][b]
Entry(k) == IF k < packed THEN Placed(hashes, inst, MaskSize, k) ELSE Whole(hashes, inst, k)
PackInv ==
  /\ mal \in BOOLEAN /\ packed \in 0..SendSize
  /\ spc = "eval" => packed = 0
  /\ spc = "pack" => MaskSize # Block /\ DOMAIN hashes = 0..SendBytes - 1 /\ \A k \in Ours : Entry(k)
  /\ spc = "send" => MaskSize = Block /\ \A k \in Ours : Whole(hashes, inst, k)
  /\ PackedWhole

\* memcpy starts only where source and target of an entry are apart (from entry 100
\* on, with blocks of 16 bytes and any shorter mask).
PackRoom == Mask < Block => MoveUntil * (Block - Mask) >= Mask

LEMMA PackKept ==
  ASSUME PackInv, UNCHANGED <<inst, mal, sender>>
  PROVE  PackInv'
  BY DEF PackInv, sender, Entry, Placed, Whole, PackedWhole, MaskSize

LEMMA EvalPacks == ASSUME PackInv, SEval PROVE PackInv'
<1>1. /\ inst' = inst /\ mal' = mal /\ packed' = packed /\ wire' = wire
      /\ packed = 0 /\ mal \in BOOLEAN
      /\ hashes' = [b \in 0..SendBytes - 1 |-> inst.theirs[b \div Block][b % Block]]
      /\ spc' = (IF MaskSize # Block THEN "pack" ELSE "send")
  BY DEF PackInv, SEval
<1>2. ASSUME NEW k \in Ours, NEW b \in 0..Block - 1
      PROVE  hashes'[Block * k + b] = inst.theirs[k][b]
  <2> DEFINE c == Block * k + b
  <2>1. Block \in Nat \ {0} /\ SendSize \in Nat
    BY <1>1, Sizes
  <2>2. c \in 0..SendBytes - 1 /\ c \div Block = k /\ c % Block = b
    BY <2>1, CellAt DEF Ours, SendBytes
  <2> HIDE DEF c
  <2>3. hashes'[c] = inst.theirs[c \div Block][c % Block]
    BY <1>1, <2>2
  <2> QED BY <2>2, <2>3, Zenon DEF c
<1>3. \A k \in Ours : Whole(hashes', inst', k)
  BY <1>1, <1>2, Zenon DEF Whole
<1>4. PackedWhole' /\ MaskSize' = MaskSize
  BY <1>1 DEF PackInv, PackedWhole, MaskSize
<1>5. DOMAIN hashes' = 0..SendBytes - 1
  BY <1>1
<1>6. \A k \in Ours : Entry(k)'
  <2> SUFFICES ASSUME NEW k \in Ours PROVE Entry(k)'
    OBVIOUS
  <2>1. ~(k < packed')
    BY <1>1 DEF Ours
  <2> QED BY <1>3, <2>1, Zenon DEF Entry
<1>7. packed' \in 0..SendSize /\ packed' = 0
  BY <1>1, Sizes
<1> QED BY <1>1, <1>3, <1>4, <1>5, <1>6, <1>7 DEF PackInv

LEMMA PackPacks == ASSUME PackRoom, PackInv, SPack PROVE PackInv'
<1> DEFINE p == packed
           m == MaskSize
<1>1. /\ inst' = inst /\ mal' = mal /\ spc' = spc /\ wire' = wire
      /\ spc = "pack" /\ p \in Ours /\ packed' = p + 1
      /\ hashes' = Copy(hashes, p * m, p * Block, m, p < MoveUntil)
      /\ DOMAIN hashes = 0..SendBytes - 1 /\ mal \in BOOLEAN
      /\ \A k \in Ours : Entry(k)
  BY Sizes DEF PackInv, SPack, Ours
<1>2. /\ m \in Nat \ {0} /\ m < Block /\ m = Mask /\ Block \in Nat \ {0} /\ SendSize \in Nat
      /\ MoveUntil \in Nat /\ p \in Nat /\ p < SendSize
  BY <1>1, Sizes DEF PackInv, MaskSize, Ours
<1>3. /\ \A k \in Ours : k < p => Placed(hashes, inst, m, k)
      /\ \A k \in Ours : ~(k < p) => Whole(hashes, inst, k)
  BY <1>1 DEF Entry
<1>4. MaskSize' = m
  BY <1>1 DEF MaskSize
<1> HIDE DEF p, m
<1>5. p * Block \in Nat /\ p * m \in Nat /\ p * m <= p * Block /\ m * p = p * m /\ Block * p = p * Block
  <2>1. p * Block = p * m + p * (Block - m) /\ p * (Block - m) \in Nat
    BY <1>2
  <2> QED BY <1>2, <2>1
<1>6. ASSUME NEW x \in 0..SendBytes - 1, x < p * m \/ x >= p * m + m
      PROVE  hashes'[x] = hashes[x]
  <2>1. x \notin p * m .. p * m + m - 1
    BY <1>2, <1>5, <1>6
  <2>2. Copy(hashes, p * m, p * Block, m, p < MoveUntil)[x] = hashes[x]
    BY <1>1, <2>1, Zenon DEF Copy
  <2> QED BY <1>1, <2>2, Zenon
\* Entries that are packed stay.
<1>7. ASSUME NEW k \in Ours, k < p, NEW b \in 0..m - 1
      PROVE  hashes'[m * k + b] = inst.theirs[k][b]
  <2>1. k \in 0..p - 1 /\ k \in Nat
    BY <1>2, <1>7 DEF Ours
  <2>2. m * k + m <= m * p /\ m * k \in Nat
    <3>1. m * k + m <= m * p
      BY <1>2, <2>1, Within
    <3> QED BY <1>2, <2>1, <3>1
  <2>3. Block * p + Block <= Block * SendSize
    BY <1>2, <1>1, Within DEF Ours
  <2> DEFINE x == m * k + b
  <2>4. x < p * m /\ x \in 0..SendBytes - 1
    BY <1>2, <1>5, <2>2, <2>3 DEF SendBytes
  <2>5. hashes[x] = inst.theirs[k][b]
    BY <1>3, <1>7, Zenon DEF Placed
  <2> HIDE DEF x
  <2>6. hashes'[x] = inst.theirs[k][b]
    BY <1>6, <2>4, <2>5
  <2> QED BY <2>6 DEF x
\* The next entry moves to its place.
<1>8. ASSUME NEW b \in 0..m - 1
      PROVE  hashes'[m * p + b] = inst.theirs[p][b]
  <2>1. ~(~(p < MoveUntil) /\ p * m # p * Block /\ p * m < p * Block + m /\ p * Block < p * m + m)
    <3> SUFFICES ASSUME p >= MoveUntil PROVE p * Block >= p * m + m
      BY <1>2, <1>5
    <3>1. PICK d \in Nat : p = MoveUntil + d
      <4>1. p - MoveUntil \in Nat /\ p = MoveUntil + (p - MoveUntil)
        BY <1>2
      <4> QED BY <4>1, Zenon
    <3>2. PICK e \in Nat : Block - m = e
      BY <1>2
    <3>3. MoveUntil * e >= m
      BY <1>2, <3>2 DEF PackRoom
    <3>4. p * Block = p * m + p * e
      BY <1>2, <3>2
    <3>5. p * e = MoveUntil * e + d * e /\ d * e \in Nat /\ MoveUntil * e \in Nat
      BY <1>2, <3>1, <3>2
    <3> QED BY <1>2, <1>5, <3>3, <3>4, <3>5
  <2> DEFINE x == p * m + b
             y == p * Block + b
  <2>2. Block * p + Block <= Block * SendSize
    BY <1>1, <1>2, Within DEF Ours
  <2>3. x \in 0..SendBytes - 1 /\ x \in p * m .. p * m + m - 1
    BY <1>2, <1>5, <2>2 DEF SendBytes
  <2>4. p * Block + x - p * m = y
    BY <1>2, <1>5
  <2>5. m * p + b = x /\ Block * p + b = y /\ b \in 0..Block - 1
    BY <1>2, <1>5
  <2> HIDE DEF x, y
  <2>6. Copy(hashes, p * m, p * Block, m, p < MoveUntil)[x] = hashes[p * Block + x - p * m]
    BY <1>1, <2>1, <2>3, Zenon DEF Copy
  <2>7. hashes'[x] = hashes[y]
    BY <1>1, <2>4, <2>6, Zenon
  <2>8. Whole(hashes, inst, p)
    BY <1>1, <1>2, <1>3
  <2>9. hashes[Block * p + b] = inst.theirs[p][b]
    BY <2>5, <2>8, Zenon DEF Whole
  <2> QED BY <2>5, <2>7, <2>9, Zenon
\* And the entries after it are not reached.
<1>9. ASSUME NEW k \in Ours, k > p, NEW b \in 0..Block - 1
      PROVE  hashes'[Block * k + b] = inst.theirs[k][b]
  <2> DEFINE x == Block * k + b
  <2>1. k \in Nat /\ p \in 0..k - 1 /\ ~(k < p)
    BY <1>2, <1>9 DEF Ours
  <2>2. Block * p + Block <= Block * k /\ Block * k \in Nat
    <3>1. Block * p + Block <= Block * k
      BY <1>2, <2>1, Within
    <3> QED BY <1>2, <2>1, <3>1
  <2>3. x \in 0..SendBytes - 1
    BY <1>2, CellAt DEF Ours, SendBytes
  <2>4. x >= p * m + m
    BY <1>2, <1>5, <2>2
  <2>5. Whole(hashes, inst, k)
    BY <1>3, <2>1
  <2>6. hashes[x] = inst.theirs[k][b]
    BY <2>5, Zenon DEF Whole
  <2> HIDE DEF x
  <2>7. hashes'[x] = inst.theirs[k][b]
    BY <1>6, <2>3, <2>4, <2>6
  <2> QED BY <2>7 DEF x
<1>10. ASSUME NEW k \in Ours PROVE Entry(k)'
  <2>1. CASE k < p
    <3>1. Placed(hashes', inst', MaskSize', k)
      BY <1>1, <1>4, <1>7, <2>1, Zenon DEF Placed
    <3>2. k < packed'
      BY <1>1, <1>2, <2>1 DEF Ours
    <3> QED BY <3>1, <3>2, Zenon DEF Entry
  <2>2. CASE k = p
    <3>1. Placed(hashes', inst', MaskSize', k)
      BY <1>1, <1>4, <1>8, <2>2, Zenon DEF Placed
    <3>2. k < packed'
      BY <1>1, <1>2, <2>2 DEF Ours
    <3> QED BY <3>1, <3>2, Zenon DEF Entry
  <2>3. CASE k > p
    <3>1. Whole(hashes', inst', k)
      BY <1>1, <1>9, <2>3, Zenon DEF Whole
    <3>2. ~(k < packed')
      BY <1>1, <1>2, <2>3 DEF Ours
    <3> QED BY <3>1, <3>2, Zenon DEF Entry
  <2> QED BY <1>2, <2>1, <2>2, <2>3 DEF Ours
<1>11. DOMAIN hashes' = 0..SendBytes - 1
  BY <1>1 DEF Copy
<1>12. PackedWhole'
  BY <1>1, <1>4 DEF PackInv, PackedWhole, MaskSize
<1>13. packed' \in 0..SendSize /\ MaskSize' # Block
  BY <1>1, <1>2, <1>4
<1> QED BY <1>1, <1>10, <1>11, <1>12, <1>13 DEF PackInv

LEMMA SendPacks == ASSUME PackInv, SSend PROVE PackInv'
<1>1. /\ inst' = inst /\ mal' = mal /\ hashes' = hashes /\ packed' = packed
      /\ spc' = "done" /\ mal \in BOOLEAN /\ packed \in 0..SendSize
      /\ wire' = [b \in 0..MaskSize * SendSize - 1 |-> hashes[b]]
      /\ spc = "send" \/ (spc = "pack" /\ packed = SendSize)
  BY DEF PackInv, SSend
<1>2. MaskSize' = MaskSize
  BY <1>1 DEF MaskSize
<1>3. ASSUME NEW k \in Ours PROVE Placed(hashes, inst, MaskSize, k)
  <2>1. CASE spc = "send"
    <3>1. MaskSize = Block /\ Whole(hashes, inst, k)
      BY <2>1 DEF PackInv
    <3> QED BY <3>1, Zenon DEF Whole, Placed
  <2>2. CASE spc = "pack" /\ packed = SendSize
    <3>1. k < packed
      BY <2>2, <1>1, Sizes DEF Ours
    <3> QED BY <2>2, <3>1 DEF PackInv, Entry
  <2> QED BY <1>1, <2>1, <2>2
<1>4. PackedWhole'
  <2> SUFFICES ASSUME NEW k \in Ours, NEW b \in 0..MaskSize - 1
               PROVE  wire'[MaskSize * k + b] = inst.theirs[k][b]
    BY <1>1, <1>2 DEF PackedWhole, Ours
  <2>1. MaskSize \in Nat \ {0} /\ SendSize \in Nat
    BY <1>1, Sizes
  <2> DEFINE x == MaskSize * k + b
  <2>2. x \in 0..MaskSize * SendSize - 1
    BY <2>1, CellAt DEF Ours
  <2>3. hashes[x] = inst.theirs[k][b]
    BY <1>3, Zenon DEF Placed
  <2> HIDE DEF x
  <2>4. wire'[x] = hashes[x]
    BY <1>1, <2>2
  <2> QED BY <2>3, <2>4 DEF x
<1> QED BY <1>1, <1>4 DEF PackInv

LEMMA PackStep == ASSUME PackRoom, PackInv, [Next]_vars PROVE PackInv'
<1>1. CASE Sender
  BY <1>1, EvalPacks, PackPacks, SendPacks DEF Sender
<1>2. CASE Receiver
  BY <1>2, PackKept DEF Receiver, RInsert, RFind, RFound, RSpawn, RRecv, RJoin
<1>3. CASE \E t \in Threads : Thread(t)
  BY <1>3, PackKept DEF Thread, TBuild, TBuilt, TPass, TStart, TFind, TMerge
<1>4. CASE Terminated \/ UNCHANGED vars
  BY <1>4, PackKept DEF Terminated, vars, sender
<1> QED BY <1>1, <1>2, <1>3, <1>4 DEF Next

\* For every number of entries, block and mask with room before the switch to memcpy, what
\* RsPsiSender::run sends is the masked hash of each entry, in order, whole.
THEOREM PackedWholeHolds ==
  ASSUME PackRoom
  PROVE  Spec => []PackedWhole
<1>1. Init => PackInv
  BY RsPsiAssumption DEF Init, Start, PackInv, PackedWhole
<1>2. PackInv /\ [Next]_vars => PackInv'
  BY PackStep
<1>3. PackInv => PackedWhole
  BY DEF PackInv
<1> QED BY <1>1, <1>2, <1>3, PTL DEF Spec

(***************************************************************************)
(* The lookup.  What the first n entries of the sender match, and of that  *)
(* what thread t owns; the sender's hashes in the receiver's buffer.       *)
(***************************************************************************)
Hit(i, n) == \E k \in 0..n - 1 : TheirKey(k) = MyKey(i)
Got(n) == {i \in Rows : Hit(i, n)}
Hits(t, n) == {i \in Got(n) : Owner(inst.mine[i]) = t}
\* Two hashes of the sender differ in what travels, as KeysApart has it of the receiver's.
TheirsApart == \A n \in Instances, k, l \in Ours : k # l => \E b \in 0..Mask - 1 : n.theirs[k][b] # n.theirs[l][b]
TheirsIn == \A k \in Ours, b \in 0..MaskSize - 1 : buf[Block * RecvSize + MaskSize * k + b] = inst.theirs[k][b]
All == {[key |-> MyKey(i), idx |-> i] : i \in Rows}

(***************************************************************************)
(* Sequences and sets.                                                     *)
(***************************************************************************)
LEMMA AppendSet ==
  ASSUME NEW S, NEW s \in Seq(S), NEW e \in S
  PROVE  /\ Append(s, e) \in Seq(S) /\ Len(Append(s, e)) = Len(s) + 1
         /\ ToSet(Append(s, e)) = ToSet(s) \cup {e}
<1>1. Append(s, e) \in Seq(S) /\ Len(Append(s, e)) = Len(s) + 1 /\ Len(s) \in Nat
  OBVIOUS
<1>2. DOMAIN s = 1..Len(s) /\ DOMAIN Append(s, e) = 1..Len(s) + 1
  BY <1>1
<1>3. /\ \A i \in 1..Len(s) : Append(s, e)[i] = s[i]
      /\ Append(s, e)[Len(s) + 1] = e
  OBVIOUS
<1> DEFINE f == Append(s, e)
<1> HIDE DEF f
<1>4. 1..Len(s) + 1 = 1..Len(s) \cup {Len(s) + 1}
  BY <1>1
<1>5. ToSet(f) = ToSet(s) \cup {e}
  BY <1>2, <1>3, <1>4 DEF ToSet, f
<1> QED BY <1>1, <1>5 DEF f

LEMMA ConcatSet ==
  ASSUME NEW S, NEW s \in Seq(S), NEW r \in Seq(S)
  PROVE  /\ s \o r \in Seq(S) /\ Len(s \o r) = Len(s) + Len(r)
         /\ ToSet(s \o r) = ToSet(s) \cup ToSet(r)
<1> DEFINE f == s \o r
<1>1. /\ f \in Seq(S) /\ Len(f) = Len(s) + Len(r) /\ Len(s) \in Nat /\ Len(r) \in Nat
      /\ \A i \in 1..Len(s) + Len(r) : f[i] = IF i <= Len(s) THEN s[i] ELSE r[i - Len(s)]
  BY ConcatProperties, LenProperties
<1> HIDE DEF f
<1>2. DOMAIN s = 1..Len(s) /\ DOMAIN r = 1..Len(r) /\ DOMAIN f = 1..Len(s) + Len(r)
  BY <1>1, LenProperties
<1>3. ASSUME NEW x \in ToSet(f) PROVE x \in ToSet(s) \cup ToSet(r)
  <2>1. PICK i \in 1..Len(s) + Len(r) : x = f[i]
    BY <1>2, <1>3 DEF ToSet
  <2>2. CASE i <= Len(s)
    BY <1>1, <1>2, <2>1, <2>2 DEF ToSet
  <2>3. CASE i > Len(s)
    <3>1. i - Len(s) \in 1..Len(r) /\ x = r[i - Len(s)]
      BY <1>1, <2>1, <2>3
    <3> QED BY <1>2, <3>1 DEF ToSet
  <2> QED BY <1>1, <2>2, <2>3
<1>4. ASSUME NEW i \in 1..Len(s) PROVE s[i] \in ToSet(f)
  <2>1. i \in 1..Len(s) + Len(r) /\ f[i] = s[i]
    BY <1>1
  <2> QED BY <1>2, <2>1 DEF ToSet
<1>5. ASSUME NEW i \in 1..Len(r) PROVE r[i] \in ToSet(f)
  <2>1. Len(s) + i \in 1..Len(s) + Len(r) /\ ~(Len(s) + i <= Len(s)) /\ (Len(s) + i) - Len(s) = i
    BY <1>1
  <2>2. f[Len(s) + i] = r[i]
    BY <1>1, <2>1
  <2> QED BY <1>2, <2>1, <2>2 DEF ToSet
<1>6. ToSet(f) = ToSet(s) \cup ToSet(r)
  <2>1. ToSet(s) \subseteq ToSet(f) /\ ToSet(r) \subseteq ToSet(f)
    BY <1>2, <1>4, <1>5 DEF ToSet
  <2> QED BY <1>3, <2>1
<1> QED BY <1>1, <1>6 DEF f

LEMMA RowsFinite ==
  ASSUME NEW S \in SUBSET Rows
  PROVE  IsFiniteSet(S) /\ Cardinality(S) \in Nat /\ Cardinality(S) <= RecvSize
<1>1. IsFiniteSet(Rows) /\ Cardinality(Rows) = RecvSize
  BY FS_Interval, RsPsiAssumption DEF Rows
<1> QED BY <1>1, FS_Subset, FS_CardinalityType

\* A function from 1..n into S is a sequence over S.
LEMMA FunSeq ==
  ASSUME NEW n \in Nat, NEW S, NEW f \in [1..n -> S]
  PROVE  f \in Seq(S) /\ Len(f) = n /\ ToSet(f) = {f[k] : k \in 1..n}
<1>1. f \in Seq(S)
  BY SeqDef
<1>2. DOMAIN f = 1..n /\ DOMAIN f = 1..Len(f) /\ Len(f) \in Nat
  BY <1>1, LenProperties
<1>3. Len(f) = n
  BY <1>2
<1> QED BY <1>1, <1>2, <1>3 DEF ToSet

LEMMA DivNat ==
  ASSUME NEW a \in Nat, NEW n \in Nat \ {0}
  PROVE  a \div n \in Nat
<1> DEFINE q == a \div n
           r == a % n
<1>1. q \in Int /\ r \in 0..n - 1 /\ a = n * q + r
  OBVIOUS
<1> HIDE DEF q, r
<1>2. ASSUME q < 0 PROVE FALSE
  <2>1. PICK d \in Nat : q = 0 - 1 - d
    <3>1. 0 - 1 - q \in Nat /\ q = 0 - 1 - (0 - 1 - q)
      BY <1>1, <1>2
    <3> QED BY <3>1
  <2>2. n * q = 0 - n - n * d /\ n * d \in Nat
    BY <2>1
  <2> QED BY <1>1, <2>2
<1> QED BY <1>1, <1>2 DEF q

(***************************************************************************)
(* What a lookup finds.                                                    *)
(***************************************************************************)
LEMMA FoundAt ==
  ASSUME NEW S, NEW h
  PROVE  Find({[key |-> MyKey(i), idx |-> i] : i \in S}, h) = {i \in S : MyKey(i) = h}
<1> DEFINE m == {[key |-> MyKey(i), idx |-> i] : i \in S}
<1>1. ASSUME NEW x \in Find(m, h) PROVE x \in S /\ MyKey(x) = h
  <2>1. PICK r \in m : r.key = h /\ x = r.idx
    BY <1>1 DEF Find
  <2> QED BY <2>1
<1>2. ASSUME NEW i \in S, MyKey(i) = h PROVE i \in Find(m, h)
  <2>1. [key |-> MyKey(i), idx |-> i] \in {r \in m : r.key = h}
    BY <1>2
  <2>2. [key |-> MyKey(i), idx |-> i].idx = i
    OBVIOUS
  <2> QED BY <2>1, <2>2 DEF Find
<1> QED BY <1>1, <1>2

\* A match has the owner of the item it matches.
LEMMA SameOwner ==
  ASSUME mal \in BOOLEAN, NEW i \in Rows, NEW k \in Ours, MyKey(i) = TheirKey(k)
  PROVE  Owner(TheirKey(k)) = Owner(inst.mine[i])
<1>1. 0 \in 0..MaskSize - 1
  BY Sizes
<1>2. MyKey(i)[0] = inst.mine[i][0]
  BY <1>1 DEF MyKey, Masked
<1> QED BY <1>2 DEF Owner

LEMMA OneMore ==
  ASSUME KeysApart, TheirsApart, inst \in Instances, mal \in BOOLEAN, NEW k \in Ours
  PROVE  LET hit == {i \in Rows : MyKey(i) = TheirKey(k)}
         IN  /\ Got(k + 1) = Got(k) \cup hit
             /\ Got(k) \cap hit = {}
             /\ \A i, j \in hit : i = j
<1> DEFINE hit == {i \in Rows : MyKey(i) = TheirKey(k)}
<1>1. k \in Nat /\ 0..(k + 1) - 1 = (0..k - 1) \cup {k}
  BY DEF Ours
<1>2. Got(k + 1) = Got(k) \cup hit
  BY <1>1 DEF Got, Hit
<1>3. ASSUME NEW i \in Got(k) \cap hit PROVE FALSE
  <2>1. PICK l \in 0..k - 1 : TheirKey(l) = MyKey(i)
    BY <1>3 DEF Got, Hit
  <2>2. l \in Ours /\ l # k
    BY <1>1, RsPsiAssumption DEF Ours
  <2>3. PICK b \in 0..Mask - 1 : inst.theirs[l][b] # inst.theirs[k][b]
    BY <2>2, Zenon DEF TheirsApart
  <2>4. b \in 0..MaskSize - 1
    BY Sizes
  <2>5. TheirKey(l) # TheirKey(k)
    BY <2>3, <2>4 DEF TheirKey, Masked
  <2> QED BY <1>3, <2>1, <2>5
<1>4. ASSUME NEW i \in hit, NEW j \in hit, i # j PROVE FALSE
  <2>1. PICK b \in 0..Mask - 1 : inst.mine[i][b] # inst.mine[j][b]
    BY <1>4, Zenon DEF KeysApart
  <2>2. b \in 0..MaskSize - 1
    BY Sizes
  <2>3. MyKey(i) # MyKey(j)
    BY <2>1, <2>2 DEF MyKey, Masked
  <2> QED BY <2>3
<1> QED BY <1>2, <1>3, <1>4

LEMMA TheirsRead ==
  ASSUME TheirsIn, NEW k \in Ours
  PROVE  TheirHash(k) = TheirKey(k)
BY DEF TheirsIn, TheirHash, TheirKey, Masked

(***************************************************************************)
(* Where the threads write.                                                *)
(***************************************************************************)
LEMMA SlotAt ==
  ASSUME nt \in Nat \ {0}, NEW t \in 0..nt - 1, NEW k \in Nat
  PROVE  /\ Slot(t, k) \in Nat /\ Slot(t, k + 1) = Slot(t, k) + Word
         /\ \A j \in Nat : j <= k => Slot(t, j) <= Slot(t, k)
<1>1. Word \in Nat \ {0} /\ Block \in Nat /\ RecvSize \in Nat
  BY RsPsiAssumption
<1>2. t * RecvSize \in Nat
  BY <1>1
<1>3. Begin(t) \in Nat
  BY <1>2, DivNat DEF Begin
<1> DEFINE base == Block * Begin(t)
<1>4. base \in Nat
  BY <1>1, <1>3
<1>5. \A j : Slot(t, j) = base + Word * j
  BY DEF Slot
<1> HIDE DEF base
<1>6. Word * k \in Nat /\ Word * (k + 1) = Word * k + Word
  BY <1>1
<1>7. ASSUME NEW j \in Nat, j <= k PROVE Word * j <= Word * k
  <2>1. PICK d \in Nat : k = j + d
    <3>1. k - j \in Nat /\ k = j + (k - j)
      BY <1>7
    <3> QED BY <3>1
  <2>2. Word * k = Word * j + Word * d /\ Word * d \in Nat /\ Word * j \in Nat
    BY <1>1, <2>1
  <2> QED BY <2>2
<1>8. \A j \in Nat : Word * j \in Nat
  BY <1>1
<1> QED BY <1>1, <1>4, <1>5, <1>6, <1>7, <1>8

MatchSet(t) == {i \in Common : Owner(inst.mine[i]) = t}
LEMMA MatchesNat ==
  ASSUME NEW t
  PROVE  Matches(t) \in Nat /\ Matches(t) = Cardinality(MatchSet(t)) /\ MatchSet(t) = Hits(t, SendSize)
<1>1. MatchSet(t) \subseteq Rows
  BY DEF MatchSet, Common, Rows
<1>2. MatchSet(t) = Hits(t, SendSize)
  BY DEF MatchSet, Common, Hits, Got, Hit, Rows
<1> QED BY <1>1, <1>2, RowsFinite DEF Matches, MatchSet

\* What a thread writes for its match j misses the word k of any other match
\* and the hashes of the sender.
LEMMA SlotsApart ==
  ASSUME Fits, nt \in Nat, nt >= 2, mal \in BOOLEAN,
         NEW t \in Threads, NEW u \in Threads, NEW j \in Nat, NEW k \in Nat,
         j < Matches(t), k < Matches(u), t # u \/ j # k,
         NEW x \in Slot(t, j) .. Slot(t, j + 1) - 1
  PROVE  x # Slot(u, k)
<1>1. nt \in Nat \ {0} /\ t \in 0..nt - 1 /\ u \in 0..nt - 1 /\ Threads = 0..nt - 1
  BY DEF Threads
<1>2. Matches(t) \in Nat /\ Matches(u) \in Nat
  BY MatchesNat
<1> DEFINE T(y) == Slot(t, y)
           U(y) == Slot(u, y)
           m == Matches(t)
           n == Matches(u)
<1>3. /\ T(j) \in Nat /\ T(0) \in Nat /\ T(m) \in Nat /\ T(j + 1) = T(j) + Word /\ T(0) <= T(j) /\ T(j + 1) <= T(m)
      /\ U(k) \in Nat /\ U(0) \in Nat /\ U(n) \in Nat /\ U(k + 1) = U(k) + Word /\ U(0) <= U(k) /\ U(k + 1) <= U(n)
      /\ Word \in Nat \ {0}
  <2>1. j + 1 \in Nat /\ j + 1 <= m /\ k + 1 \in Nat /\ k + 1 <= n /\ 0 <= j /\ 0 <= k /\ 0 \in Nat
    BY <1>2
  <2> HIDE DEF m, n
  <2>2. T(j) \in Nat /\ T(0) \in Nat /\ U(k) \in Nat /\ U(0) \in Nat /\ T(j + 1) = T(j) + Word /\ U(k + 1) = U(k) + Word
    BY <1>1, SlotAt
  <2>3. m \in Nat /\ n \in Nat
    BY <1>2 DEF m, n
  <2>4. T(m) \in Nat /\ U(n) \in Nat /\ T(j + 1) <= T(m) /\ U(k + 1) <= U(n)
    BY <1>1, <2>1, <2>3, SlotAt
  <2>5. T(0) <= T(j) /\ U(0) <= U(k)
    BY <1>1, <2>1, SlotAt
  <2> QED BY <2>2, <2>4, <2>5, RsPsiAssumption
<1>4. CASE t < u
  <2>1. T(m) <= U(0)
    BY <1>1, <1>2, <1>4 DEF Fits
  <2> HIDE DEF T, U, m, n
  <2>2. x < T(j) + Word /\ x \in Int
    BY <1>3 DEF T
  <2>3. x < U(k)
    BY <2>1, <2>2, <1>3
  <2> QED BY <2>2, <2>3, <1>3 DEF U
<1>5. CASE u < t
  <2>1. U(n) <= T(0)
    BY <1>1, <1>2, <1>5 DEF Fits
  <2> HIDE DEF T, U, m, n
  <2>2. x >= T(j) /\ x \in Int
    BY <1>3 DEF T
  <2>3. x > U(k)
    BY <2>1, <2>2, <1>3
  <2> QED BY <2>2, <2>3, <1>3 DEF U
<1>6. CASE t = u /\ j < k
  <2>1. T(j + 1) <= U(k) /\ x \in Int
    BY <1>1, <1>3, <1>6, SlotAt
  <2> QED BY <1>3, <2>1
<1>7. CASE t = u /\ k < j
  <2>1. k + 1 \in Nat /\ k + 1 <= j
    BY <1>7
  <2>2. Slot(u, k + 1) <= Slot(u, j)
    BY <1>1, <2>1, SlotAt
  <2>3. Slot(u, j) = Slot(t, j)
    BY <1>7, Zenon
  <2> QED BY <1>3, <2>2, <2>3
<1> QED BY <1>1, <1>4, <1>5, <1>6, <1>7

LEMMA SlotsInside ==
  ASSUME Fits, nt \in Nat, nt >= 2, NEW t \in Threads, NEW j \in Nat, j < Matches(t)
  PROVE  /\ Slot(t, j) \in Nat /\ Slot(t, j) < Slot(t, j + 1) /\ Slot(t, j + 1) <= Block * RecvSize
         /\ Slot(t, j + 1) \in Nat
<1>1. nt \in Nat \ {0} /\ t \in 0..nt - 1
  BY DEF Threads
<1>2. Matches(t) \in Nat
  BY MatchesNat
<1>3. /\ Slot(t, j) \in Nat /\ Slot(t, j + 1) = Slot(t, j) + Word /\ Slot(t, Matches(t)) \in Nat
      /\ Slot(t, j + 1) <= Slot(t, Matches(t))
  BY <1>1, <1>2, SlotAt
<1>4. Slot(t, Matches(t)) <= Block * RecvSize
  BY DEF Fits
<1>5. Word \in Nat \ {0} /\ Block * RecvSize \in Nat
  BY RsPsiAssumption
<1> QED BY <1>3, <1>4, <1>5

(***************************************************************************)
(* The invariant of the lookup.                                            *)
(***************************************************************************)
Words(t) == {IndexAt(Slot(t, k - 1)) : k \in 1..found[t]}
Collected(S) == ToSet(out) = S /\ Len(out) = Cardinality(S)
\* Fewer than two threads.
Alone ==
  /\ rpc \in {"start", "recv", "find", "done"} /\ tpc[0] = "build"
  /\ rpc \in {"start", "recv", "find"} => at[0] \in 0..SendSize /\ Collected(Got(at[0]))
  /\ rpc \in {"recv", "find"} => map[0] = All
  /\ rpc = "done" => Collected(Common)
\* Two or more: what a thread has found is in its words until it merges them.
Sharing(t) ==
  /\ tpc[t] \in {"build", "barrier", "wait"} => found[t] = 0
  /\ tpc[t] = "find" => /\ at[t] \in 0..SendSize
                        /\ found[t] = Cardinality(Hits(t, at[t])) /\ Words(t) = Hits(t, at[t])
  /\ tpc[t] \in {"find", "done"} => open
Merged == {i \in Common : tpc[Owner(inst.mine[i])] = "done"}
Together ==
  /\ rpc \in {"start", "recv", "join", "done"}
  /\ \A t \in Threads : Sharing(t)
  /\ Collected(Merged)
  /\ rpc = "done" => \A t \in Threads : tpc[t] = "done"
FindTypes ==
  /\ found \in [Threads -> Nat] /\ out \in Seq(Rows)
  /\ open = (rpc \notin {"start", "recv"})
FindInv ==
  /\ FindTypes
  /\ open => TheirsIn
  /\ nt < 2 => Alone
  /\ nt >= 2 => Together

LEMMA Rigid ==
  ASSUME UNCHANGED <<inst, nt, mal>>
  PROVE  /\ Threads' = Threads /\ MaskSize' = MaskSize /\ Common' = Common /\ All' = All
         /\ Fits' = Fits /\ BufBytes' = BufBytes
         /\ \A n : Got(n)' = Got(n)
         /\ \A t, n : Hits(t, n)' = Hits(t, n) /\ Slot(t, n)' = Slot(t, n)
         /\ \A h : Owner(h)' = Owner(h)
  BY DEF Threads, MaskSize, Common, All, Fits, BufBytes, Got, Hits, Hit, Slot, Begin, Owner, Matches, MyKey, TheirKey,
         Masked

LEMMA OwnerThread ==
  ASSUME inst \in Instances, nt \in Nat, nt >= 2, NEW i \in Rows
  PROVE  Owner(inst.mine[i]) \in Threads
<1>1. inst.mine \in [Rows -> [0..Block - 1 -> Byte]] /\ 0 \in 0..Block - 1
  BY RsPsiAssumption DEF IsInstance, Rows
<1>2. inst.mine[i][0] \in 0..98
  BY <1>1, RsPsiAssumption
<1>3. inst.mine[i][0] % nt \in 0..nt - 1
  BY <1>2
<1> QED BY <1>3 DEF Owner, Threads

LEMMA InitFind == Init => FindInv
<1> SUFFICES ASSUME Init PROVE FindInv
  OBVIOUS
<1> USE DEF Init, Start
<1>1. inst \in Instances /\ nt \in Nat /\ mal \in BOOLEAN /\ 0 \in Threads /\ SendSize \in Nat
  BY RsPsiAssumption DEF Threads
<1>2. FindTypes
  <2>1. out \in Seq(Rows)
    BY EmptySeq
  <2> QED BY <2>1 DEF FindTypes
<1>3. Collected({})
  BY FS_EmptySet DEF Collected, ToSet
<1>4. nt < 2 => Alone
  <2>1. Got(0) = {}
    BY DEF Got, Hit
  <2> QED BY <1>1, <1>3, <2>1 DEF Alone
<1>5. nt >= 2 => Together
  <2> SUFFICES ASSUME nt >= 2 PROVE Together
    OBVIOUS
  <2>1. \A t \in Threads : Sharing(t)
    BY DEF Sharing
  <2>2. Merged = {}
    <3> SUFFICES ASSUME NEW i \in Common PROVE tpc[Owner(inst.mine[i])] # "done"
      BY DEF Merged
    <3>1. Owner(inst.mine[i]) \in Threads
      BY <1>1, OwnerThread DEF Common, Rows
    <3> QED BY <3>1
  <2> QED BY <1>3, <2>1, <2>2 DEF Together
<1> QED BY <1>2, <1>4, <1>5 DEF FindInv

LEMMA SharingKept ==
  ASSUME NEW t, UNCHANGED <<inst, nt, mal>>, tpc'[t] = tpc[t], at'[t] = at[t], found'[t] = found[t],
         open => open', tpc[t] = "find" => Words(t)' = Words(t), Sharing(t)
  PROVE  Sharing(t)'
<1>1. PICK a : a = at[t] /\ a = at'[t]
  OBVIOUS
<1>2. Hits(t, a)' = Hits(t, a)
  BY Rigid
<1>3. Hits(t, at[t])' = Hits(t, a) /\ Hits(t, at[t]) = Hits(t, a)
  BY <1>1, <1>2, Zenon
<1> QED BY <1>3 DEF Sharing

LEMMA MergedKept ==
  ASSUME UNCHANGED <<inst, nt, mal, tpc, out>>, Collected(Merged)
  PROVE  Collected(Merged)'
<1>1. Merged' = Merged
  BY Rigid DEF Merged
<1> QED BY <1>1 DEF Collected

LEMMA FindKept ==
  ASSUME FindInv, UNCHANGED <<inst, nt, mal, receiver>>
  PROVE  FindInv'
<1> USE DEF receiver
<1>1. FindTypes' /\ (open' => TheirsIn')
  BY Rigid DEF FindInv, FindTypes, TheirsIn
<1>2. nt' < 2 => Alone'
  BY Rigid DEF FindInv, Alone, Collected
<1>3. \A t : Words(t)' = Words(t)
  BY Rigid DEF Words, IndexAt
<1>4. nt' >= 2 => Together'
  <2> SUFFICES ASSUME nt >= 2 PROVE Together'
    OBVIOUS
  <2>1. \A t \in Threads : Sharing(t)'
    BY <1>3, SharingKept DEF FindInv, Together
  <2>2. Collected(Merged)'
    BY MergedKept DEF FindInv, Together
  <2> QED BY <2>1, <2>2, Rigid DEF FindInv, Together
<1> QED BY <1>1, <1>2, <1>4 DEF FindInv

(***************************************************************************)
(* The receiver's steps.                                                   *)
(***************************************************************************)
LEMMA Keys ==
  ASSUME KeysApart, inst \in Instances, mal \in BOOLEAN, NEW i \in Rows, NEW j \in Rows, MyKey(i) = MyKey(j)
  PROVE  i = j
<1> SUFFICES ASSUME i # j PROVE FALSE
  OBVIOUS
<1>1. PICK b \in 0..Mask - 1 : inst.mine[i][b] # inst.mine[j][b]
  BY Zenon DEF KeysApart
<1>2. b \in 0..MaskSize - 1
  BY Sizes
<1> QED BY <1>1, <1>2 DEF MyKey, Masked

LEMMA InsertFinds == ASSUME KeysApart, LookupInv, FindInv, RInsert PROVE FindInv'
<1>1. /\ rpc = "start" /\ nt < 2 /\ rpc' = "recv" /\ UNCHANGED <<inst, nt, mal, buf, tpc, at, found, open, out>>
      /\ map' = [t \in Threads |-> Insert({}, {[key |-> Masked(MyHash(i)), idx |-> i] : i \in Rows})]
  BY DEF RInsert, Rows
<1>2. inst \in Instances /\ nt \in Nat /\ mal \in BOOLEAN /\ 0 \in Threads /\ Alone
  BY <1>1 DEF LookupInv, TypeInv, FindInv, Threads
<1>3. \A i \in Rows : MyHash(i) = inst.mine[i]
  <2>1. Building
    BY <1>2 DEF Building, Alone
  <2> QED BY <1>2, <2>1, MineIs DEF LookupInv, Intact, MyHash
<1>4. {[key |-> Masked(MyHash(i)), idx |-> i] : i \in Rows} = All
  BY <1>3 DEF All, MyKey
<1>5. Insert({}, All) = All
  <2>1. \A q, r \in All : r.key = q.key => r.idx = q.idx
    BY <1>2, Keys DEF All
  <2>2. \A q \in All : q.idx \in Int
    BY DEF All, Rows
  <2> QED BY <2>1, <2>2 DEF Insert
<1>6. map'[0] = All
  BY <1>1, <1>2, <1>4, <1>5
<1>7. Alone'
  <2>1. PICK a : a = at[0] /\ a = at'[0]
    BY <1>1
  <2>2. Got(a)' = Got(a)
    BY <1>1, Rigid
  <2>3. Got(at[0])' = Got(a) /\ Got(at[0]) = Got(a)
    BY <2>1, <2>2, Zenon
  <2>4. All' = All
    BY <1>1, Rigid
  <2> QED BY <1>1, <1>2, <1>6, <2>1, <2>3, <2>4 DEF Alone, Collected
<1>8. FindTypes' /\ (open' => TheirsIn')
  BY <1>1, Rigid DEF FindInv, FindTypes, TheirsIn
<1> QED BY <1>1, <1>7, <1>8, <1>2 DEF FindInv

LEMMA TheirsArrive == ASSUME PackInv, RRecv PROVE TheirsIn'
<1>1. wire # NoMsg /\ buf' = Arrive /\ UNCHANGED <<inst, nt, mal>> /\ mal \in BOOLEAN
  BY DEF RRecv, PackInv
<1> SUFFICES ASSUME NEW k \in Ours, NEW b \in 0..MaskSize - 1
             PROVE  buf'[Block * RecvSize + MaskSize * k + b] = inst.theirs[k][b]
  BY <1>1, Rigid DEF TheirsIn
<1> DEFINE y == MaskSize * k + b
           x == Block * RecvSize + y
<1>2. Block \in Nat \ {0} /\ RecvSize \in Nat /\ MaskSize \in Nat \ {0} /\ SendSize \in Nat
  BY <1>1, Sizes
<1>3. y \in 0..MaskSize * SendSize - 1
  BY <1>2, CellAt DEF Ours
<1>4. Block * RecvSize \in Nat /\ MaskSize * SendSize \in Nat
  BY <1>2
<1>5. wire[y] = inst.theirs[k][b]
  BY <1>1 DEF PackInv, PackedWhole, Ours
<1>6. Block * RecvSize + MaskSize * k + b = x
  BY <1>2, <1>4 DEF Ours
<1> HIDE DEF y
<1>7. x \in 0..BufBytes - 1 /\ ~(x < Block * RecvSize) /\ x - Block * RecvSize = y
  BY <1>3, <1>4 DEF BufBytes
<1> HIDE DEF x
<1>8. buf'[x] = wire[y]
  BY <1>1, <1>7 DEF Arrive
<1> QED BY <1>5, <1>6, <1>8, Zenon

LEMMA RecvFinds == ASSUME LookupInv, PackInv, FindInv, RRecv PROVE FindInv'
<1>1. /\ rpc = "recv" /\ wire # NoMsg /\ buf' = Arrive /\ open' = TRUE
      /\ rpc' = (IF nt < 2 THEN "find" ELSE "join") /\ UNCHANGED <<inst, nt, mal, tpc, at, map, found, out>>
  BY DEF RRecv
<1>2. inst \in Instances /\ nt \in Nat /\ mal \in BOOLEAN /\ open = FALSE
  BY <1>1 DEF LookupInv, TypeInv, FindInv, FindTypes
<1>3. TheirsIn'
  BY TheirsArrive
<1>4. FindTypes'
  BY <1>1, Rigid DEF FindInv, FindTypes
<1>5. nt < 2 => Alone'
  <2> SUFFICES ASSUME nt < 2 PROVE Alone'
    OBVIOUS
  <2>1. PICK a : a = at[0] /\ a = at'[0]
    BY <1>1
  <2>2. Got(a)' = Got(a)
    BY <1>1, Rigid
  <2>3. Got(at[0])' = Got(a) /\ Got(at[0]) = Got(a)
    BY <2>1, <2>2, Zenon
  <2>4. All' = All
    BY <1>1, Rigid
  <2> QED BY <1>1, <1>2, <2>1, <2>3, <2>4 DEF Alone, Collected, FindInv
<1>6. nt >= 2 => Together'
  <2> SUFFICES ASSUME nt >= 2 PROVE Together'
    OBVIOUS
  <2>1. ASSUME NEW t \in Threads PROVE Sharing(t)'
    <3>1. Sharing(t) /\ tpc[t] \notin {"find", "done"}
      BY <1>2 DEF FindInv, Together, Sharing
    <3> QED BY <1>1, <3>1 DEF Sharing
  <2>2. Collected(Merged)'
    BY <1>1, MergedKept DEF FindInv, Together
  <2>3. rpc' = "join" /\ Threads' = Threads
    BY <1>1, <1>2, Rigid
  <2> QED BY <2>1, <2>2, <2>3 DEF FindInv, Together
<1> QED BY <1>1, <1>3, <1>4, <1>5, <1>6 DEF FindInv

LEMMA FindFinds == ASSUME KeysApart, TheirsApart, LookupInv, FindInv, RFind PROVE FindInv'
<1> DEFINE a == at[0]
           hit == Find(map[0], TheirHash(a))
<1>1. /\ rpc = "find" /\ nt < 2 /\ a < SendSize /\ UNCHANGED <<inst, nt, mal, rpc, buf, tpc, map, found, open>>
      /\ out' = (IF hit = {} THEN out ELSE Append(out, CHOOSE i \in hit : TRUE))
      /\ at' = [at EXCEPT ![0] = a + 1]
  BY DEF RFind
<1>2. /\ inst \in Instances /\ nt \in Nat /\ mal \in BOOLEAN /\ Alone /\ TheirsIn /\ out \in Seq(Rows)
      /\ at \in [Threads -> Nat] /\ 0 \in Threads
  <2>1. inst \in Instances /\ nt \in Nat /\ mal \in BOOLEAN /\ at \in [Threads -> Nat]
    BY DEF LookupInv, TypeInv
  <2>2. 0 \in Threads
    BY <2>1 DEF Threads
  <2>3. Alone /\ open /\ out \in Seq(Rows)
    BY <1>1 DEF FindInv, FindTypes
  <2>4. TheirsIn
    BY <2>3, Zenon DEF FindInv
  <2> QED BY <2>1, <2>2, <2>3, <2>4
<1>3. a \in Ours /\ a \in Nat /\ at'[0] = a + 1 /\ a + 1 \in 0..SendSize /\ SendSize \in Nat
  BY <1>1, <1>2, RsPsiAssumption DEF Alone, Ours
<1> HIDE DEF a
<1>4. hit = {i \in Rows : MyKey(i) = TheirKey(a)}
  BY <1>1, <1>2, <1>3, FoundAt, TheirsRead DEF Alone, All
<1>5. Got(a + 1) = Got(a) \cup hit /\ Got(a) \cap hit = {} /\ \A i, j \in hit : i = j
  BY <1>2, <1>3, <1>4, OneMore
<1>6. ToSet(out) = Got(a) /\ Len(out) = Cardinality(Got(a))
  BY <1>1, <1>2 DEF Alone, Collected, a
<1>7. out' \in Seq(Rows) /\ ToSet(out') = Got(a + 1) /\ Len(out') = Cardinality(Got(a + 1))
  <2>1. CASE hit = {}
    BY <1>1, <1>2, <1>5, <1>6, <2>1
  <2>2. CASE hit # {}
    <3>1. PICK i : i = CHOOSE j \in hit : TRUE
      OBVIOUS
    <3>2. i \in hit /\ hit = {i} /\ i \in Rows /\ i \notin Got(a)
      BY <1>4, <1>5, <2>2, <3>1
    <3>3. out' = Append(out, i)
      BY <1>1, <2>2, <3>1
    <3>4. out' \in Seq(Rows) /\ Len(out') = Len(out) + 1 /\ ToSet(out') = ToSet(out) \cup {i}
      BY <1>2, <3>2, <3>3, AppendSet
    <3>5. IsFiniteSet(Got(a))
      BY RowsFinite DEF Got
    <3>6. Cardinality(Got(a) \cup {i}) = Cardinality(Got(a)) + 1
      BY <3>2, <3>5, FS_AddElement
    <3> QED BY <1>5, <1>6, <3>2, <3>4, <3>6
  <2> QED BY <2>1, <2>2
<1> HIDE DEF hit
<1>8. Alone'
  <2>1. PICK n : n = a + 1
    OBVIOUS
  <2>2. Got(n)' = Got(n) /\ All' = All
    BY <1>1, Rigid
  <2>3. Got(at[0])' = Got(n) /\ Got(a + 1) = Got(n)
    BY <1>3, <2>1, <2>2, Zenon
  <2> QED BY <1>1, <1>2, <1>3, <1>7, <2>2, <2>3 DEF Alone, Collected
<1>9. FindTypes' /\ TheirsIn'
  BY <1>1, <1>2, <1>7, Rigid DEF FindInv, FindTypes, TheirsIn
<1> QED BY <1>1, <1>2, <1>8, <1>9 DEF FindInv

LEMMA CommonGot == Got(SendSize) = Common
  BY DEF Got, Hit, Common, Rows

LEMMA FoundFinds == ASSUME LookupInv, FindInv, RFound PROVE FindInv'
<1>1. rpc = "find" /\ nt < 2 /\ at[0] = SendSize /\ rpc' = "done"
      /\ UNCHANGED <<inst, nt, mal, buf, tpc, at, map, found, open, out>>
  BY DEF RFound
<1>2. Alone /\ nt \in Nat
  BY <1>1 DEF FindInv, LookupInv, TypeInv
<1>3. Collected(Common)
  BY <1>1, <1>2, CommonGot DEF Alone
<1>4. Alone'
  BY <1>1, <1>2, <1>3, Rigid DEF Alone, Collected
<1>5. FindTypes' /\ (open' => TheirsIn')
  BY <1>1, Rigid DEF FindInv, FindTypes, TheirsIn
<1> QED BY <1>1, <1>2, <1>4, <1>5 DEF FindInv

\* Starting the threads and joining them.
LEMMA SpawnJoinFinds == ASSUME LookupInv, FindInv, RSpawn \/ RJoin PROVE FindInv'
<1>1. /\ UNCHANGED <<inst, nt, mal, buf, tpc, at, map, found, open, out>> /\ nt \in Nat
      /\ \/ rpc = "start" /\ nt >= 2 /\ rpc' = "recv"
         \/ rpc = "join" /\ rpc' = "done" /\ \A t \in Threads : tpc[t] = "done"
  BY DEF RSpawn, RJoin, LookupInv, TypeInv
<1>2. nt >= 2 /\ Together
  BY <1>1 DEF FindInv, Alone
<1>3. \A t : Words(t)' = Words(t)
  BY <1>1, Rigid DEF Words, IndexAt
<1>4. \A t \in Threads : Sharing(t)'
  BY <1>1, <1>2, <1>3, SharingKept DEF Together
<1>5. Collected(Merged)'
  BY <1>1, <1>2, MergedKept DEF Together
<1>6. Together'
  <2>1. Threads' = Threads
    BY <1>1, Rigid
  <2> QED BY <1>1, <1>4, <1>5, <2>1 DEF Together
<1>7. FindTypes' /\ (open' => TheirsIn')
  BY <1>1, Rigid DEF FindInv, FindTypes, TheirsIn
<1> QED BY <1>1, <1>2, <1>6, <1>7 DEF FindInv

(***************************************************************************)
(* The threads' steps.                                                     *)
(***************************************************************************)
LEMMA OthersShare ==
  ASSUME FindInv, nt \in Nat, nt >= 2, rpc # "done", NEW t \in Threads,
         UNCHANGED <<inst, nt, mal, rpc, open>>,
         \A u \in Threads : u # t => /\ tpc'[u] = tpc[u] /\ at'[u] = at[u] /\ found'[u] = found[u]
                                     /\ tpc[u] = "find" => Words(u)' = Words(u),
         Sharing(t)', Collected(Merged)', found' \in [Threads -> Nat], out' \in Seq(Rows),
         open => TheirsIn'
  PROVE  FindInv'
<1>1. Together
  BY DEF FindInv
<1>2. ASSUME NEW u \in Threads, u # t PROVE Sharing(u)'
  BY <1>1, <1>2, SharingKept DEF Together
<1>3. Together'
  <2>1. Threads' = Threads
    BY Rigid
  <2> QED BY <1>1, <1>2, <2>1 DEF Together
<1>4. FindTypes'
  BY Rigid DEF FindInv, FindTypes
<1>5. open' => TheirsIn'
  OBVIOUS
<1> QED BY <1>3, <1>4, <1>5 DEF FindInv

\* The steps of a thread that neither find nor merge.
LEMMA PlainFinds ==
  ASSUME LookupInv, FindInv, NEW t \in Threads,
         TBuild(t) \/ TBuilt(t) \/ TPass(t) \/ TStart(t)
  PROVE  FindInv'
<1>1. /\ nt >= 2 /\ nt \in Nat /\ UNCHANGED <<inst, nt, mal, rpc, buf, found, open, out>> /\ mal \in BOOLEAN
      /\ tpc \in [Threads -> {"build", "barrier", "wait", "find", "done"}] /\ at \in [Threads -> Nat]
      /\ tpc[t] \in {"build", "barrier", "wait"}
  BY DEF TBuild, TBuilt, TPass, TStart, Running, LookupInv, TypeInv
<1>2. Together /\ FindTypes /\ Sharing(t) /\ rpc # "done"
  BY <1>1 DEF FindInv, Together
<1>3. \A u \in Threads : u # t => tpc'[u] = tpc[u] /\ at'[u] = at[u]
  BY <1>1 DEF TBuild, TBuilt, TPass, TStart
<1>4. \A u : Words(u)' = Words(u)
  BY <1>1, Rigid DEF Words, IndexAt
<1>5. Sharing(t)'
  <2>1. CASE TBuild(t) \/ TBuilt(t) \/ TPass(t)
    <3>1. tpc'[t] \in {"build", "barrier", "wait"}
      BY <1>1, <2>1 DEF TBuild, TBuilt, TPass
    <3> QED BY <1>1, <1>2, <3>1 DEF Sharing
  <2>2. CASE TStart(t)
    <3>1. tpc'[t] = "find" /\ at'[t] = 0 /\ open /\ found[t] = 0
      BY <1>1, <1>2, <2>2 DEF TStart, Sharing
    <3>2. \A n : Hits(t, n)' = Hits(t, n)
      BY <1>1, Rigid
    <3>3. PICK z : z = 0
      OBVIOUS
    <3>4. Hits(t, z) = {}
      BY <3>3 DEF Hits, Got, Hit
    <3>5. Hits(t, at[t])' = {}
      BY <3>1, <3>2, <3>3, <3>4, Zenon
    <3>6. Words(t)' = {} /\ found'[t] = 0
      BY <1>1, <1>4, <3>1 DEF Words
    <3>7. Cardinality(Hits(t, at[t]))' = 0
      BY <3>5, FS_EmptySet, Zenon
    <3> QED BY <1>1, <3>1, <3>5, <3>6, <3>7, RsPsiAssumption DEF Sharing
  <2> QED BY <2>1, <2>2
<1>6. Collected(Merged)'
  <2>1. ASSUME NEW i \in Common PROVE (tpc'[Owner(inst.mine[i])] = "done") <=> (tpc[Owner(inst.mine[i])] = "done")
    <3>1. Owner(inst.mine[i]) \in Threads
      BY <1>1, OwnerThread DEF Common, Rows, LookupInv, TypeInv
    <3>2. tpc'[t] # "done"
      BY <1>1 DEF TBuild, TBuilt, TPass, TStart
    <3> QED BY <1>1, <1>3, <3>1, <3>2
  <2>2. Merged' = Merged
    BY <1>1, <2>1, Rigid DEF Merged
  <2> QED BY <1>1, <1>2, <2>2 DEF Together, Collected
<1>7. open => TheirsIn'
  BY <1>1, Rigid DEF FindInv, TheirsIn
<1> QED BY <1>1, <1>2, <1>3, <1>4, <1>5, <1>6, <1>7, OthersShare DEF FindTypes

LEMMA HitsBound ==
  ASSUME NEW t, NEW n \in 0..SendSize
  PROVE  /\ IsFiniteSet(Hits(t, n)) /\ Cardinality(Hits(t, n)) \in Nat
         /\ Cardinality(Hits(t, n)) <= Matches(t) /\ Matches(t) \in Nat
         /\ Hits(t, n) \subseteq Rows
<1>1. Hits(t, n) \subseteq Hits(t, SendSize) /\ Hits(t, SendSize) \subseteq Rows
  <2>1. 0..n - 1 \subseteq 0..SendSize - 1
    BY RsPsiAssumption
  <2> QED BY <2>1 DEF Hits, Got, Hit
<1>2. IsFiniteSet(Hits(t, SendSize))
  BY <1>1, RowsFinite
<1>3. Matches(t) = Cardinality(Hits(t, SendSize)) /\ Matches(t) \in Nat
  BY MatchesNat
<1> QED BY <1>1, <1>2, <1>3, FS_Subset, FS_CardinalityType

LEMMA TheirCells ==
  ASSUME mal \in BOOLEAN, NEW k \in Ours, NEW b \in 0..MaskSize - 1
  PROVE  /\ Block * RecvSize + MaskSize * k + b \in 0..BufBytes - 1
         /\ Block * RecvSize + MaskSize * k + b >= Block * RecvSize
<1>1. Block \in Nat \ {0} /\ RecvSize \in Nat /\ MaskSize \in Nat \ {0} /\ SendSize \in Nat
  BY Sizes
<1>2. MaskSize * k + b \in 0..MaskSize * SendSize - 1
  BY <1>1, CellAt DEF Ours
<1>3. Block * RecvSize \in Nat /\ MaskSize * SendSize \in Nat /\ MaskSize * k \in Nat
  BY <1>1 DEF Ours
<1> QED BY <1>2, <1>3 DEF BufBytes

\* What one lookup of a thread adds.
LEMMA HitsMore ==
  ASSUME KeysApart, TheirsApart, inst \in Instances, mal \in BOOLEAN, NEW t, NEW k \in Ours, NEW m,
         m = Entries(t, RecvSize)
  PROVE  LET hit == IF Owner(TheirKey(k)) = t THEN Find(m, TheirKey(k)) ELSE {}
         IN  /\ hit \subseteq Rows
             /\ Hits(t, k + 1) = Hits(t, k) \cup hit /\ Hits(t, k) \cap hit = {}
             /\ \A i, j \in hit : i = j
<1> DEFINE hit == IF Owner(TheirKey(k)) = t THEN Find(m, TheirKey(k)) ELSE {}
           any == {i \in Rows : MyKey(i) = TheirKey(k)}
           S == {j \in 0..RecvSize - 1 : Owner(inst.mine[j]) = t}
<1>1. Find(m, TheirKey(k)) = {i \in S : MyKey(i) = TheirKey(k)}
  BY FoundAt DEF Entries
<1>2. \A i \in any : Owner(inst.mine[i]) = Owner(TheirKey(k))
  BY SameOwner
<1>3. hit = {i \in any : Owner(inst.mine[i]) = t}
  BY <1>1, <1>2 DEF Rows
<1>4. Got(k + 1) = Got(k) \cup any /\ Got(k) \cap any = {} /\ \A i, j \in any : i = j
  BY OneMore
<1> HIDE DEF hit, any
<1>5. hit \subseteq Rows
  BY <1>3 DEF any
<1> QED BY <1>3, <1>4, <1>5 DEF Hits, hit

LEMMA LookFinds ==
  ASSUME KeysApart, TheirsApart, Fits, LookupInv, FindInv, NEW t \in Threads, TFind(t)
  PROVE  FindInv'
<1> DEFINE k == at[t]
           f == found[t]
           hit == IF Owner(TheirKey(k)) = t THEN Find(map[t], TheirKey(k)) ELSE {}
           here == Slot(t, f) .. Slot(t, f + 1) - 1
<1>1. /\ nt >= 2 /\ nt \in Nat /\ mal \in BOOLEAN /\ inst \in Instances
      /\ UNCHANGED <<inst, nt, mal, rpc, tpc, map, open, out>> /\ tpc[t] = "find" /\ k < SendSize
      /\ tpc \in [Threads -> {"build", "barrier", "wait", "find", "done"}] /\ at \in [Threads -> Nat]
      /\ map[t] = Entries(t, RecvSize)
  BY DEF TFind, Running, LookupInv, TypeInv, MapInv
<1>2. Together /\ FindTypes /\ Sharing(t) /\ rpc # "done"
  BY <1>1 DEF FindInv, Together
<1>3. TheirsIn /\ open
  BY <1>1, <1>2, Zenon DEF FindInv, Sharing
<1>4. k \in Ours /\ k \in Nat /\ k + 1 \in 0..SendSize /\ k \in 0..SendSize /\ SendSize \in Nat
  BY <1>1, <1>2, RsPsiAssumption DEF Ours
<1>5. TheirHash(k) = TheirKey(k)
  BY <1>3, <1>4, TheirsRead
<1>6. /\ buf' = [b \in 0..BufBytes - 1 |->
                   IF hit # {} /\ b \in here THEN IndexByte(CHOOSE i \in hit : TRUE) ELSE buf[b]]
      /\ found' = [found EXCEPT ![t] = f + Cardinality(hit)]
      /\ at' = [at EXCEPT ![t] = k + 1]
  BY <1>5 DEF TFind
<1>7. /\ hit \subseteq Rows /\ Hits(t, k + 1) = Hits(t, k) \cup hit /\ Hits(t, k) \cap hit = {}
      /\ \A i, j \in hit : i = j
  BY <1>1, <1>4, HitsMore
<1>8. f = Cardinality(Hits(t, k)) /\ Words(t) = Hits(t, k) /\ f \in Nat /\ IsFiniteSet(Hits(t, k))
      /\ f <= Matches(t) /\ Matches(t) \in Nat
  BY <1>1, <1>2, <1>4, HitsBound DEF Sharing
<1> HIDE DEF k, f, hit, here
<1>9. ASSUME hit # {}
      PROVE  /\ Cardinality(hit) = 1 /\ Cardinality(Hits(t, k + 1)) = f + 1 /\ f < Matches(t)
             /\ \E i \in Rows : hit = {i} /\ i \notin Hits(t, k) /\ i = (CHOOSE j \in hit : TRUE)
  <2>1. PICK i : i = CHOOSE j \in hit : TRUE
    OBVIOUS
  <2>2. i \in Rows /\ hit = {i} /\ i \notin Hits(t, k)
    BY <1>7, <1>9, <2>1
  <2>3. Cardinality(hit) = 1
    BY <2>2, FS_Singleton
  <2>4. Cardinality(Hits(t, k) \cup {i}) = f + 1
    BY <1>8, <2>2, FS_AddElement
  <2>5. Cardinality(Hits(t, k + 1)) = f + 1
    BY <1>7, <2>2, <2>4
  <2>6. Cardinality(Hits(t, k + 1)) <= Matches(t)
    BY <1>4, HitsBound
  <2>7. f < Matches(t)
    BY <1>8, <2>5, <2>6
  <2> QED BY <2>1, <2>2, <2>3, <2>5, <2>7, Zenon
\* What the step writes, and what it leaves.
<1>10. ASSUME NEW x \in 0..BufBytes - 1, hit = {} \/ x \notin here PROVE buf'[x] = buf[x]
  BY <1>6, <1>10
<1>11. ASSUME NEW u \in Threads, NEW j \in Nat, j < Matches(u), u # t \/ j # f
       PROVE  buf'[Slot(u, j)] = buf[Slot(u, j)]
  <2>1. Slot(u, j) \in 0..BufBytes - 1
    <3>1. Slot(u, j) \in Nat /\ Slot(u, j) < Block * RecvSize
      BY <1>1, <1>11, SlotsInside, RsPsiAssumption
    <3>2. Block * RecvSize \in Nat /\ MaskSize * SendSize \in Nat
      BY <1>1, Sizes
    <3> QED BY <3>1, <3>2 DEF BufBytes
  <2>2. hit = {} \/ Slot(u, j) \notin here
    <3> SUFFICES ASSUME hit # {}, NEW x \in here PROVE x # Slot(u, j)
      OBVIOUS
    <3>1. f < Matches(t)
      BY <1>9
    <3> QED BY <1>1, <1>8, <1>11, <3>1, SlotsApart DEF here
  <2> QED BY <1>10, <2>1, <2>2
<1>12. TheirsIn'
  <2> SUFFICES ASSUME NEW c \in Ours, NEW b \in 0..MaskSize - 1
               PROVE  buf'[Block * RecvSize + MaskSize * c + b] = inst.theirs[c][b]
    BY <1>1, Rigid DEF TheirsIn
  <2> DEFINE x == Block * RecvSize + MaskSize * c + b
  <2>1. x \in 0..BufBytes - 1 /\ x >= Block * RecvSize
    BY <1>1, TheirCells
  <2>2. buf[x] = inst.theirs[c][b]
    BY <1>3 DEF TheirsIn
  <2> HIDE DEF x
  <2>3. hit = {} \/ x \notin here
    <3> SUFFICES ASSUME hit # {}, x \in here PROVE FALSE
      OBVIOUS
    <3>1. Slot(t, f + 1) <= Block * RecvSize /\ Slot(t, f + 1) \in Nat /\ Slot(t, f) \in Nat
      BY <1>1, <1>8, <1>9, SlotsInside
    <3>2. Block * RecvSize \in Nat
      BY RsPsiAssumption
    <3> QED BY <2>1, <3>1, <3>2 DEF here
  <2>4. buf'[x] = buf[x]
    BY <1>10, <2>1, <2>3
  <2> QED BY <2>2, <2>4 DEF x
<1>13. ASSUME NEW u \in Threads, u # t, tpc[u] = "find" PROVE Words(u)' = Words(u)
  <2>1. found[u] <= Matches(u) /\ found[u] \in Nat /\ Matches(u) \in Nat
    BY <1>2, <1>13, HitsBound DEF Together, Sharing
  <2>2. ASSUME NEW j \in 1..found[u] PROVE buf'[Slot(u, j - 1)] = buf[Slot(u, j - 1)]
    <3>1. j - 1 \in Nat /\ j - 1 < Matches(u)
      BY <2>1
    <3> QED BY <1>11, <1>13, <3>1
  <2>3. found'[u] = found[u]
    BY <1>2, <1>6, <1>13 DEF FindTypes
  <2>4. \A y : Slot(u, y)' = Slot(u, y)
    BY <1>1, Rigid
  <2> QED BY <2>2, <2>3, <2>4 DEF Words, IndexAt
<1>14. /\ found'[t] = Cardinality(Hits(t, k + 1)) /\ found' \in [Threads -> Nat]
       /\ at'[t] = k + 1 /\ \A u \in Threads : u # t => at'[u] = at[u] /\ found'[u] = found[u]
  <2>1. Cardinality(hit) \in Nat /\ Cardinality(Hits(t, k + 1)) = f + Cardinality(hit)
    <3>1. CASE hit = {}
      <4>1. Hits(t, k + 1) = Hits(t, k) /\ Cardinality(hit) = 0
        BY <1>7, <3>1, FS_EmptySet
      <4> QED BY <1>8, <4>1
    <3>2. CASE hit # {}
      BY <1>8, <1>9, <3>2
    <3> QED BY <3>1, <3>2
  <2> QED BY <1>1, <1>2, <1>6, <1>8, <2>1 DEF FindTypes
<1>15. Words(t)' = Hits(t, k + 1)
  <2>1. \A y : Slot(t, y)' = Slot(t, y)
    BY <1>1, Rigid
  <2>2. \A j \in 1..f : buf'[Slot(t, j - 1)] = buf[Slot(t, j - 1)]
    <3> SUFFICES ASSUME NEW j \in 1..f PROVE buf'[Slot(t, j - 1)] = buf[Slot(t, j - 1)]
      OBVIOUS
    <3>1. j - 1 \in Nat /\ j - 1 < Matches(t) /\ j - 1 # f
      BY <1>8
    <3> QED BY <1>11, <3>1
  <2>3. Words(t) = {buf[Slot(t, j - 1)] - 100 : j \in 1..f}
    BY DEF Words, IndexAt, f
  <2>4. Words(t)' = {buf'[Slot(t, j - 1)] - 100 : j \in 1..found'[t]}
    BY <2>1 DEF Words, IndexAt
  <2>5. CASE hit = {}
    <3>1. found'[t] = f /\ Hits(t, k + 1) = Hits(t, k)
      BY <1>7, <1>8, <1>14, <2>5
    <3> QED BY <1>8, <2>2, <2>3, <2>4, <3>1
  <2>6. CASE hit # {}
    <3>1. PICK i \in Rows : hit = {i} /\ i = (CHOOSE j \in hit : TRUE)
      BY <1>9, <2>6
    <3>2. found'[t] = f + 1 /\ 1..f + 1 = 1..f \cup {f + 1} /\ (f + 1) - 1 = f
      BY <1>8, <1>9, <1>14, <2>6
    <3>3. buf'[Slot(t, f)] = IndexByte(i)
      <4>1. /\ Slot(t, f) \in Nat /\ Slot(t, f + 1) \in Nat /\ Slot(t, f) < Slot(t, f + 1)
            /\ Slot(t, f + 1) <= Block * RecvSize
        BY <1>1, <1>8, <1>9, <2>6, SlotsInside
      <4>2. Block * RecvSize \in Nat /\ MaskSize * SendSize \in Nat
        BY <1>1, Sizes
      <4>3. Slot(t, f) \in 0..BufBytes - 1 /\ Slot(t, f) \in here
        BY <4>1, <4>2 DEF BufBytes, here
      <4> QED BY <1>6, <2>6, <3>1, <4>3
    <3>4. buf'[Slot(t, (f + 1) - 1)] - 100 = i
      BY <3>2, <3>3 DEF IndexByte, Rows
    <3>5. Words(t)' = {buf'[Slot(t, j - 1)] - 100 : j \in 1..f} \cup {i}
      BY <2>4, <3>2, <3>4
    <3>6. Words(t)' = Words(t) \cup {i}
      BY <2>2, <2>3, <3>5
    <3> QED BY <1>7, <1>8, <3>1, <3>6
  <2> QED BY <2>5, <2>6
<1>16. Sharing(t)'
  <2>1. PICK n : n = k + 1
    OBVIOUS
  <2>2. Hits(t, n)' = Hits(t, n)
    BY <1>1, Rigid
  <2>3. Hits(t, at[t])' = Hits(t, n) /\ Hits(t, k + 1) = Hits(t, n)
    BY <1>14, <2>1, <2>2, Zenon
  <2> QED BY <1>1, <1>3, <1>4, <1>14, <1>15, <2>3 DEF Sharing
<1>17. Collected(Merged)'
  BY <1>1, <1>2, MergedKept DEF Together
<1> QED BY <1>1, <1>2, <1>12, <1>13, <1>14, <1>16, <1>17, OthersShare DEF FindTypes

LEMMA MergeFinds == ASSUME LookupInv, FindInv, NEW t \in Threads, TMerge(t) PROVE FindInv'
<1> DEFINE n == found[t]
           w == [k \in 1..n |-> IndexAt(Slot(t, k - 1))]
           H == Hits(t, SendSize)
<1>1. /\ nt >= 2 /\ nt \in Nat /\ mal \in BOOLEAN /\ inst \in Instances
      /\ UNCHANGED <<inst, nt, mal, rpc, buf, at, map, found, open>> /\ tpc[t] = "find" /\ at[t] = SendSize
      /\ tpc \in [Threads -> {"build", "barrier", "wait", "find", "done"}]
      /\ tpc' = [tpc EXCEPT ![t] = "done"] /\ out' = out \o w
  BY DEF TMerge, Running, LookupInv, TypeInv
<1>2. Together /\ FindTypes /\ Sharing(t) /\ rpc # "done" /\ open
  BY <1>1 DEF FindInv, Together, Sharing
<1>3. n = Cardinality(H) /\ Words(t) = H /\ n \in Nat /\ H \subseteq Rows /\ IsFiniteSet(H)
  BY <1>1, <1>2, HitsBound DEF Sharing
<1>4. w \in Seq(Rows) /\ Len(w) = n /\ ToSet(w) = H
  <2>1. \A k \in 1..n : IndexAt(Slot(t, k - 1)) \in H
    BY <1>3 DEF Words
  <2>2. w \in [1..n -> Rows] /\ {w[k] : k \in 1..n} = Words(t)
    BY <1>3, <2>1 DEF Words
  <2> HIDE DEF w, n
  <2> QED BY <1>3, <2>2, FunSeq
<1> HIDE DEF w, n
<1>5. out' \in Seq(Rows) /\ Len(out') = Len(out) + n /\ ToSet(out') = ToSet(out) \cup H
  <2>1. out \in Seq(Rows)
    BY <1>2 DEF FindTypes
  <2>2. out \o w \in Seq(Rows) /\ Len(out \o w) = Len(out) + Len(w) /\ ToSet(out \o w) = ToSet(out) \cup ToSet(w)
    BY <1>4, <2>1, ConcatSet
  <2> QED BY <1>1, <1>4, <2>2
<1>6. H = {i \in Common : Owner(inst.mine[i]) = t}
  BY MatchesNat DEF MatchSet
<1>7. Merged' = Merged \cup H /\ Merged \cap H = {}
  <2>1. \A i \in Common : Owner(inst.mine[i]) \in Threads
    BY <1>1, OwnerThread DEF Common, Rows
  <2>2. Merged' = {i \in Common : tpc'[Owner(inst.mine[i])] = "done"}
    BY <1>1, Rigid DEF Merged
  <2>3. \A u \in Threads : tpc'[u] = "done" <=> (tpc[u] = "done" \/ u = t)
    BY <1>1
  <2>4. Merged' = Merged \cup H
    BY <1>6, <2>1, <2>2, <2>3 DEF Merged
  <2>5. Merged \cap H = {}
    BY <1>1, <1>6 DEF Merged
  <2> QED BY <2>4, <2>5
<1>8. Collected(Merged)'
  <2>1. IsFiniteSet(Merged)
    BY RowsFinite DEF Merged, Common, Rows
  <2>2. Cardinality(Merged \cup H) = Cardinality(Merged) + Cardinality(H) - Cardinality(Merged \cap H)
    BY <1>3, <2>1, FS_Union
  <2>3. Cardinality(Merged \cap H) = 0 /\ Cardinality(Merged) \in Nat
    BY <1>7, <2>1, FS_EmptySet, FS_CardinalityType
  <2>4. Cardinality(Merged \cup H) = Cardinality(Merged) + n
    BY <1>3, <2>2, <2>3
  <2>5. PICK M : M = Merged'
    OBVIOUS
  <2>6. ToSet(out') = M /\ Len(out') = Cardinality(M)
    BY <1>2, <1>5, <1>7, <2>4, <2>5 DEF Together, Collected
  <2> QED BY <2>5, <2>6 DEF Collected
<1>9. Sharing(t)'
  BY <1>1, <1>2 DEF Sharing
<1>10. \A u \in Threads : Words(u)' = Words(u) /\ (u # t => tpc'[u] = tpc[u])
  BY <1>1, Rigid DEF Words, IndexAt
<1>11. open => TheirsIn'
  BY <1>1, Rigid DEF FindInv, TheirsIn
<1> QED BY <1>1, <1>2, <1>5, <1>8, <1>9, <1>10, <1>11, OthersShare DEF FindTypes

(***************************************************************************)
(* Two threads always have room: thread 0 cannot reach the second half of  *)
(* the buffer unless it has every match.                                   *)
(***************************************************************************)
LEMMA TwoFit == ASSUME inst \in Instances, nt = 2 PROVE Fits
<1>1. Threads = {0, 1} /\ nt \in Nat \ {0} /\ 0 \in 0..nt - 1 /\ 1 \in 0..nt - 1 /\ nt - 1 = 1
  BY DEF Threads
<1>2. Word \in Nat \ {0} /\ RecvSize \in Nat /\ Block = 2 * Word
  BY RsPsiAssumption
<1> DEFINE h == RecvSize \div 2
           a == Matches(0)
           b == Matches(1)
<1>3. h \in Nat /\ (RecvSize = 2 * h \/ RecvSize = 2 * h + 1)
  BY <1>2
<1>4. Begin(0) = 0 /\ Begin(1) = h
  BY <1>2 DEF Begin
<1> HIDE DEF h
<1>5. a \in Nat /\ b \in Nat /\ a + b <= RecvSize
  <2>1. MatchSet(0) \subseteq Rows /\ MatchSet(1) \subseteq Rows /\ MatchSet(0) \cap MatchSet(1) = {}
    BY DEF MatchSet, Common, Rows
  <2>2. /\ IsFiniteSet(MatchSet(0)) /\ IsFiniteSet(MatchSet(1))
        /\ Cardinality(MatchSet(0) \cup MatchSet(1)) <= RecvSize
    BY <2>1, RowsFinite
  <2>3. Cardinality(MatchSet(0) \cup MatchSet(1)) =
          Cardinality(MatchSet(0)) + Cardinality(MatchSet(1)) - Cardinality(MatchSet(0) \cap MatchSet(1))
    BY <2>2, FS_Union
  <2>4. Cardinality(MatchSet(0) \cap MatchSet(1)) = 0
    BY <2>1, FS_EmptySet
  <2> QED BY <2>2, <2>3, <2>4, MatchesNat
<1> HIDE DEF a, b
<1>6. ASSUME NEW x \in Nat, NEW y \in Nat, x <= y PROVE Word * x <= Word * y /\ Word * x \in Nat /\ Word * y \in Nat
  <2>1. PICK d \in Nat : y = x + d
    <3>1. y - x \in Nat /\ y = x + (y - x)
      BY <1>6
    <3> QED BY <3>1
  <2>2. Word * y = Word * x + Word * d /\ Word * d \in Nat /\ Word * x \in Nat /\ Word * y \in Nat
    BY <1>2, <2>1
  <2> QED BY <2>2
<1>7. Block * RecvSize = Word * (2 * RecvSize) /\ Block * h = Word * (2 * h)
  BY <1>2, <1>3
<1>8. /\ Slot(0, a) = Word * a /\ Slot(1, 0) = Word * (2 * h) /\ Slot(1, b) = Word * (2 * h + b)
  BY <1>2, <1>3, <1>4, <1>5, <1>7 DEF Slot
<1>9. Slot(0, a) <= Block * RecvSize /\ Slot(1, b) <= Block * RecvSize
  <2>1. a \in Nat /\ a <= 2 * RecvSize /\ 2 * RecvSize \in Nat /\ 2 * h + b \in Nat /\ 2 * h + b <= 2 * RecvSize
    BY <1>2, <1>3, <1>5
  <2> QED BY <1>6, <1>7, <1>8, <2>1
<1>10. b > 0 => Slot(0, a) <= Slot(1, 0)
  <2> SUFFICES ASSUME b > 0 PROVE Slot(0, a) <= Slot(1, 0)
    OBVIOUS
  <2>1. a <= 2 * h /\ 2 * h \in Nat
    BY <1>3, <1>5
  <2> QED BY <1>5, <1>6, <1>8, <2>1
<1> QED BY <1>1, <1>9, <1>10 DEF Fits, a, b

LEMMA FindStep ==
  ASSUME KeysApart, TheirsApart, LookupInv, PackInv, FindInv, Fits \/ nt < 2, [Next]_vars
  PROVE  FindInv'
<1>1. CASE Sender \/ Terminated \/ UNCHANGED vars
  <2>1. UNCHANGED <<inst, nt, mal, receiver>>
    BY <1>1 DEF Sender, SEval, SPack, SSend, Terminated, vars, receiver
  <2> QED BY <2>1, FindKept
<1>2. CASE Receiver
  BY <1>2, InsertFinds, RecvFinds, FindFinds, FoundFinds, SpawnJoinFinds DEF Receiver
<1>3. ASSUME NEW t \in Threads, Thread(t) PROVE FindInv'
  <2>1. Running(t) /\ nt \in Nat
    BY <1>3 DEF Thread, TBuild, TBuilt, TPass, TStart, TFind, TMerge, LookupInv, TypeInv
  <2>2. Fits
    BY <2>1 DEF Running
  <2> QED BY <1>3, <2>2, PlainFinds, LookFinds, MergeFinds DEF Thread
<1> QED BY <1>1, <1>2, <1>3 DEF Next

LookupExact == (Fits \/ nt < 2) => FindInv
LEMMA ExactStep ==
  ASSUME KeysApart, TheirsApart, LookupInv, PackInv, LookupExact, [Next]_vars
  PROVE  LookupExact'
<1>1. inst' = inst /\ nt' = nt /\ mal' = mal
  BY DEF Next, Sender, SEval, SPack, SSend, Receiver, RInsert, RFind, RFound, RSpawn, RRecv, RJoin,
         Thread, TBuild, TBuilt, TPass, TStart, TFind, TMerge, Terminated, vars
<1>2. (Fits \/ nt < 2)' <=> (Fits \/ nt < 2)
  BY <1>1, Rigid
<1> QED BY <1>2, FindStep DEF LookupExact

\* For every size of the sets, number of threads and interleaving: when no two hashes of a
\* set agree in what travels, mIntersection is the common items, each once, with fewer than
\* two threads, with two, and with more when the matches of each thread fit its share of the
\* buffer (RsPsiReceiver::run: the words of a thread stay clear of the sender's hashes and
\* of the words of the others until it merges them).
THEOREM ExactIfRoomHolds ==
  ASSUME PackRoom, KeysApart, TheirsApart
  PROVE  Spec => []ExactIfRoom
<1> DEFINE I == LookupInv /\ PackInv /\ LookupExact
<1>1. Init => I
  BY InitInv, InitFind, RsPsiAssumption DEF Init, Start, PackInv, PackedWhole, LookupExact
<1>2. I /\ [Next]_vars => I'
  BY LookupStep, PackStep, ExactStep
<1>3. I => ExactIfRoom
  <2> SUFFICES ASSUME I, nt <= 2 \/ Fits, rpc = "done" PROVE Collected(Common)
    BY DEF ExactIfRoom, Exact, Collected
  <2>1. inst \in Instances /\ nt \in Nat
    BY DEF LookupInv, TypeInv
  <2>2. Fits \/ nt < 2
    BY <2>1, TwoFit
  <2>3. FindInv
    BY <2>2 DEF LookupExact
  <2>4. CASE nt < 2
    BY <2>3, <2>4 DEF FindInv, Alone
  <2>5. CASE nt >= 2
    <3>1. Collected(Merged) /\ \A t \in Threads : tpc[t] = "done"
      BY <2>3, <2>5 DEF FindInv, Together
    <3>2. \A i \in Common : Owner(inst.mine[i]) \in Threads
      BY <2>1, <2>5, OwnerThread DEF Common, Rows
    <3>3. Merged = Common
      BY <3>1, <3>2 DEF Merged
    <3> QED BY <3>1, <3>3
  <2> QED BY <2>1, <2>4, <2>5
<1> QED BY <1>1, <1>2, <1>3, PTL DEF Spec

(***************************************************************************)
(* Recursion over numbers, for the functions of FilePsi.                   *)
(***************************************************************************)
\* A set of numbers has a least one.
LEMMA LeastOf == ASSUME NEW T \in SUBSET Nat, T # {} PROVE \E x \in T : \A y \in T : x <= y
<1>1. IsWellFoundedOn(OpToRel(<, Nat), Nat)
  BY NatLessThanWellFounded
<1>2. PICK x \in T : \A y \in T : ~(<<y, x>> \in OpToRel(<, Nat))
  BY <1>1, WFMin
<1>3. \A y \in T : ~(y < x)
  BY <1>2 DEF OpToRel
<1> QED BY <1>3

LEMMA Induction ==
  ASSUME NEW S, 0 \in S, \A n \in Nat : n \in S => n + 1 \in S
  PROVE  Nat \subseteq S
<1> SUFFICES ASSUME Nat \ S # {} PROVE FALSE
  OBVIOUS
<1>1. PICK x \in Nat \ S : \A y \in Nat \ S : x <= y
  BY LeastOf
<1>2. x # 0 /\ x - 1 \in Nat
  BY <1>1
<1>3. x - 1 \in S
  BY <1>1, <1>2
<1> QED BY <1>1, <1>2, <1>3

\* A function defined by recursion along 0..n.
Follows(f, n, V, base, step) ==
  f \in [0..n -> V] /\ f[0] = base /\ \A k \in 1..n : f[k] = step[k][f[k - 1]]
LEMMA Recursion ==
  ASSUME NEW n \in Nat, NEW V, NEW base \in V, NEW step \in [1..n -> [V -> V]]
  PROVE  \E f : Follows(f, n, V, base, step)
<1> DEFINE Good(m) == \E f \in [0..m -> V] : f[0] = base /\ \A k \in 1..m : f[k] = step[k][f[k - 1]]
           S == {m \in Nat : m <= n => Good(m)}
<1>1. 0 \in S
  <2> DEFINE f == [k \in 0..0 |-> base]
  <2>1. f \in [0..0 -> V] /\ f[0] = base /\ \A k \in 1..0 : f[k] = step[k][f[k - 1]]
    OBVIOUS
  <2> HIDE DEF f
  <2>2. Good(0)
    BY <2>1
  <2> QED BY <2>2
<1>2. ASSUME NEW m \in Nat, m \in S PROVE m + 1 \in S
  <2> SUFFICES ASSUME m + 1 <= n PROVE Good(m + 1)
    OBVIOUS
  <2>1. PICK f \in [0..m -> V] : f[0] = base /\ \A k \in 1..m : f[k] = step[k][f[k - 1]]
    BY <1>2
  <2> DEFINE g == [k \in 0..m + 1 |-> IF k = m + 1 THEN step[m + 1][f[m]] ELSE f[k]]
  <2>2. f[m] \in V /\ m + 1 \in 1..n
    BY <2>1
  <2>3. step[m + 1][f[m]] \in V
    BY <2>2
  <2>4. g \in [0..m + 1 -> V] /\ g[0] = base
    BY <2>1, <2>3
  <2>5. \A k \in 1..m + 1 : g[k] = step[k][g[k - 1]]
    <3> TAKE k \in 1..m + 1
    <3>1. CASE k = m + 1
      <4>1. k - 1 = m /\ m \in 0..m + 1 /\ m # m + 1 /\ m + 1 \in 0..m + 1
        BY <3>1
      <4>2. g[m] = f[m] /\ g[m + 1] = step[m + 1][f[m]]
        BY <4>1
      <4> HIDE DEF g
      <4> QED BY <3>1, <4>1, <4>2
    <3>2. CASE k # m + 1
      <4>1. k \in 1..m /\ k - 1 \in 0..m /\ g[k] = f[k] /\ g[k - 1] = f[k - 1]
        BY <3>2
      <4> HIDE DEF g
      <4> QED BY <2>1, <4>1
    <3> QED BY <3>1, <3>2
  <2> HIDE DEF g
  <2> QED BY <2>4, <2>5
<1> HIDE DEF S
<1>3. Nat \subseteq S
  BY <1>1, <1>2, Induction
<1>4. n \in S
  BY <1>3
<1> QED BY <1>4 DEF S, Follows

LEMMA FollowsIs ==
  ASSUME NEW n \in Nat, NEW V, NEW base, NEW step, NEW f, Follows(f, n, V, base, step)
  PROVE  f \in [0..n -> V] /\ \A k \in 0..n : f[k] = IF k = 0 THEN base ELSE step[k][f[k - 1]]
<1>1. f \in [0..n -> V] /\ f[0] = base /\ \A k \in 1..n : f[k] = step[k][f[k - 1]]
  BY DEF Follows
<1>2. \A k \in 0..n : k # 0 => k \in 1..n
  OBVIOUS
<1> QED BY <1>1, <1>2

(***************************************************************************)
(* Rows of a text.                                                         *)
(***************************************************************************)
\* Append and SubSeq as functions.
LEMMA AppendIn ==
  ASSUME NEW S, NEW q \in Seq(S), NEW e \in S
  PROVE  Append(q, e) \in Seq(S)
OBVIOUS

IsAppend(r, q, e, n) == n = Len(q) /\ r = [i \in 1..n + 1 |-> IF i = n + 1 THEN e ELSE q[i]]
LEMMA AppendIs ==
  ASSUME NEW S, NEW q \in Seq(S), NEW e \in S
  PROVE  IsAppend(Append(q, e), q, e, Len(q))
<1> DEFINE t == Append(q, e)
<1>1. Len(q) \in Nat /\ q = [i \in 1..Len(q) |-> q[i]]
  OBVIOUS
<1>2. t \in Seq(S) /\ Len(t) = Len(q) + 1 /\ \A i \in 1..Len(q) + 1 : t[i] = IF i = Len(q) + 1 THEN e ELSE q[i]
  OBVIOUS
<1>3. t = [i \in 1..Len(t) |-> t[i]]
  <2> HIDE DEF t
  <2> QED BY <1>2
<1> HIDE DEF t
<1>4. t = [i \in 1..Len(q) + 1 |-> IF i = Len(q) + 1 THEN e ELSE q[i]]
  BY <1>2, <1>3, Zenon
<1> QED BY <1>4 DEF t, IsAppend

LEMMA SubSeqIs ==
  ASSUME NEW S, NEW q \in Seq(S), NEW n \in 0..Len(q), NEW b \in 1..n + 1
  PROVE  /\ SubSeq(q, b, n) \in Seq(S) /\ Len(SubSeq(q, b, n)) = n + 1 - b
         /\ SubSeq(q, b, n) = [i \in 1..n + 1 - b |-> q[i + b - 1]]
<1> DEFINE t == SubSeq(q, b, n)
<1>1. Len(q) \in Nat
  OBVIOUS
<1>2. t \in Seq(S) /\ Len(t) = n + 1 - b /\ \A i \in 1..n + 1 - b : t[i] = q[i + b - 1]
  <2>1. n \in Nat /\ b \in Nat /\ n <= Len(q) /\ b >= 1 /\ b <= n + 1
    BY <1>1
  <2>2. \A i \in b..n : i \in 1..Len(q)
    BY <2>1
  <2>3. t \in Seq(S)
    BY <2>1, <2>2, SubSeqProperties
  <2>4. Len(t) = n + 1 - b
    BY <2>1, <2>2, SubSeqProperties
  <2>5. \A i \in 1..n + 1 - b : t[i] = q[b + i - 1]
    BY <2>1, <2>2, SubSeqProperties
  <2>6. \A i \in 1..n + 1 - b : b + i - 1 = i + b - 1
    BY <2>1
  <2> HIDE DEF t
  <2> QED BY <2>3, <2>4, <2>5, <2>6
<1>3. t = [i \in 1..Len(t) |-> t[i]]
  <2> HIDE DEF t
  <2> QED BY <1>2
<1> HIDE DEF t
<1>4. t = [i \in 1..n + 1 - b |-> q[i + b - 1]]
  BY <1>2, <1>3, Zenon
<1> QED BY <1>2, <1>4 DEF t

\* One element more.
LEMMA SubSeqGrows ==
  ASSUME NEW S, NEW q \in Seq(S), NEW n \in 0..Len(q) - 1, NEW b \in 1..n + 1
  PROVE  SubSeq(q, b, n + 1) = Append(SubSeq(q, b, n), q[n + 1])
<1> DEFINE t == SubSeq(q, b, n)
           u == SubSeq(q, b, n + 1)
           k == n + 1 - b
<1>1. /\ Len(q) \in Nat /\ n \in Nat /\ b \in Nat /\ n \in 0..Len(q) /\ n + 1 \in 0..Len(q) /\ b \in 1..(n + 1) + 1
      /\ q[n + 1] \in S /\ k \in Nat /\ (n + 1) + 1 - b = k + 1 /\ (k + 1) + b - 1 = n + 1
  OBVIOUS
<1>2. t \in Seq(S) /\ Len(t) = k /\ t = [i \in 1..k |-> q[i + b - 1]]
  BY <1>1, SubSeqIs
<1>3. u = [i \in 1..k + 1 |-> q[i + b - 1]]
  <2>1. u = [i \in 1..(n + 1) + 1 - b |-> q[i + b - 1]]
    BY <1>1, SubSeqIs
  <2> QED BY <1>1, <2>1
<1> HIDE DEF t, u, k
<1>4. PICK v : v = Append(t, q[n + 1]) /\ v = [i \in 1..k + 1 |-> IF i = k + 1 THEN q[n + 1] ELSE t[i]]
  <2>1. IsAppend(Append(t, q[n + 1]), t, q[n + 1], k)
    BY <1>1, <1>2, AppendIs
  <2> QED BY <2>1 DEF IsAppend
<1>5. \A i \in 1..k + 1 : q[i + b - 1] = IF i = k + 1 THEN q[n + 1] ELSE t[i]
  <2> TAKE i \in 1..k + 1
  <2>1. i = k + 1 \/ i \in 1..k
    BY <1>1
  <2> QED BY <1>1, <1>2, <2>1
<1>6. u = v
  BY <1>3, <1>4, <1>5
<1> QED BY <1>4, <1>6, Zenon DEF t, u

\* The recursions of Rest, Stops and Lines unrolled.
RestOf(text, f) ==
  f = [n \in 0..Len(text) |-> IF n = 0 \/ text[n] = Newline THEN <<>> ELSE Append(f[n - 1], text[n])]
StopsOf(text, f) ==
  f = [n \in 0..Len(text) |->
         IF n = 0 THEN <<>> ELSE IF text[n] = Newline THEN Append(f[n - 1], n) ELSE f[n - 1]]
LinesOf(text, rest, f) ==
  f = [n \in 0..Len(text) |->
         IF n = 0 THEN <<>> ELSE IF text[n] = Newline THEN Append(f[n - 1], rest[n - 1]) ELSE f[n - 1]]

LEMMA EmptyIn == ASSUME NEW S PROVE <<>> \in Seq(S) /\ Len(<<>>) = 0
OBVIOUS

LEMMA RestUnrolls ==
  ASSUME NEW text \in Seq(Char)
  PROVE  RestOf(text, Rest(text)) /\ Rest(text) \in [0..Len(text) -> Seq(Char)]
<1> DEFINE N == Len(text)
           V == Seq(Char)
           Step(k, v) == IF text[k] = Newline THEN <<>> ELSE Append(v, text[k])
           step == [k \in 1..N |-> [v \in V |-> Step(k, v)]]
<1>1. N \in Nat /\ <<>> \in V /\ \A k \in 1..N : text[k] \in Char
  BY EmptyIn
<1>2. step \in [1..N -> [V -> V]]
  <2>1. ASSUME NEW k \in 1..N, NEW v \in V PROVE Step(k, v) \in V
    BY <1>1, AppendIn
  <2> HIDE DEF Step
  <2> QED BY <2>1
<1>3. PICK f : Follows(f, N, V, <<>>, step)
  <2> HIDE DEF step, V, N
  <2> QED BY <1>1, <1>2, Recursion
<1>4. RestOf(text, f)
  <2>1. f \in [0..N -> V] /\ \A k \in 0..N : f[k] = IF k = 0 THEN <<>> ELSE step[k][f[k - 1]]
    <3> HIDE DEF step, V, N
    <3> QED BY <1>1, <1>3, FollowsIs
  <2>2. ASSUME NEW k \in 0..N, k # 0 PROVE step[k][f[k - 1]] = Step(k, f[k - 1])
    <3>1. k \in 1..N /\ k - 1 \in 0..N /\ f[k - 1] \in V
      BY <1>1, <2>1, <2>2
    <3> HIDE DEF Step, V
    <3> QED BY <3>1
  <2>3. \A k \in 0..N : f[k] = IF k = 0 \/ text[k] = Newline THEN <<>> ELSE Append(f[k - 1], text[k])
    <3> HIDE DEF step
    <3> QED BY <2>1, <2>2
  <2> QED BY <2>1, <2>3 DEF RestOf
<1>5. Rest(text) = CHOOSE g : RestOf(text, g)
  BY DEF Rest, RestOf
<1>6. RestOf(text, Rest(text))
  BY <1>4, <1>5, Zenon
<1> DEFINE g == Rest(text)
<1>7. g = [n \in 0..N |-> IF n = 0 \/ text[n] = Newline THEN <<>> ELSE Append(g[n - 1], text[n])]
  BY <1>6 DEF RestOf
<1> HIDE DEF g, N, V
<1>8. \A k \in Nat : k \in 0..N => g[k] \in V
  <2> DEFINE T == {k \in Nat : k \in 0..N => g[k] \in V}
  <2>1. 0 \in T
    BY <1>1, <1>7
  <2>2. ASSUME NEW k \in Nat, k \in T PROVE k + 1 \in T
    <3> SUFFICES ASSUME k + 1 \in 0..N PROVE g[k + 1] \in V
      OBVIOUS
    <3>1. k \in 0..N /\ k + 1 # 0 /\ (k + 1) - 1 = k /\ g[k] \in V /\ text[k + 1] \in Char
      BY <1>1, <2>2
    <3>2. g[k + 1] = IF text[k + 1] = Newline THEN <<>> ELSE Append(g[k], text[k + 1])
      BY <1>7, <3>1
    <3> QED BY <1>1, <3>1, <3>2, AppendIn DEF V
  <2> HIDE DEF T
  <2>3. Nat \subseteq T
    BY <2>1, <2>2, Induction
  <2> QED BY <2>3 DEF T
<1>9. g \in [0..N -> V]
  BY <1>1, <1>7, <1>8
<1> QED BY <1>6, <1>9 DEF g, N, V

LEMMA StopsUnrolls ==
  ASSUME NEW text \in Seq(Char)
  PROVE  StopsOf(text, Stops(text)) /\ Stops(text) \in [0..Len(text) -> Seq(1..Len(text))]
<1> DEFINE N == Len(text)
           V == Seq(1..N)
           Step(k, v) == IF text[k] = Newline THEN Append(v, k) ELSE v
           step == [k \in 1..N |-> [v \in V |-> Step(k, v)]]
<1>1. N \in Nat /\ <<>> \in V
  BY EmptyIn
<1>2. step \in [1..N -> [V -> V]]
  <2>1. ASSUME NEW k \in 1..N, NEW v \in V PROVE Step(k, v) \in V
    BY <1>1, AppendIn
  <2> HIDE DEF Step
  <2> QED BY <2>1
<1>3. PICK f : Follows(f, N, V, <<>>, step)
  <2> HIDE DEF step, V, N
  <2> QED BY <1>1, <1>2, Recursion
<1>4. StopsOf(text, f)
  <2>1. f \in [0..N -> V] /\ \A k \in 0..N : f[k] = IF k = 0 THEN <<>> ELSE step[k][f[k - 1]]
    <3> HIDE DEF step, V, N
    <3> QED BY <1>1, <1>3, FollowsIs
  <2>2. ASSUME NEW k \in 0..N, k # 0 PROVE step[k][f[k - 1]] = Step(k, f[k - 1])
    <3>1. k \in 1..N /\ k - 1 \in 0..N /\ f[k - 1] \in V
      BY <1>1, <2>1, <2>2
    <3> HIDE DEF Step, V
    <3> QED BY <3>1
  <2>3. \A k \in 0..N : f[k] = IF k = 0 THEN <<>> ELSE IF text[k] = Newline THEN Append(f[k - 1], k) ELSE f[k - 1]
    <3> HIDE DEF step
    <3> QED BY <2>1, <2>2
  <2> QED BY <2>1, <2>3 DEF StopsOf
<1>5. Stops(text) = CHOOSE g : StopsOf(text, g)
  BY DEF Stops, StopsOf
<1>6. StopsOf(text, Stops(text))
  BY <1>4, <1>5, Zenon
<1> DEFINE g == Stops(text)
<1>7. g = [n \in 0..N |-> IF n = 0 THEN <<>> ELSE IF text[n] = Newline THEN Append(g[n - 1], n) ELSE g[n - 1]]
  BY <1>6 DEF StopsOf
<1> HIDE DEF g, N, V
<1>8. \A k \in Nat : k \in 0..N => g[k] \in V
  <2> DEFINE T == {k \in Nat : k \in 0..N => g[k] \in V}
  <2>1. 0 \in T
    BY <1>1, <1>7
  <2>2. ASSUME NEW k \in Nat, k \in T PROVE k + 1 \in T
    <3> SUFFICES ASSUME k + 1 \in 0..N PROVE g[k + 1] \in V
      OBVIOUS
    <3>1. k \in 0..N /\ k + 1 # 0 /\ (k + 1) - 1 = k /\ g[k] \in V /\ k + 1 \in 1..N
      BY <1>1, <2>2
    <3>2. g[k + 1] = IF text[k + 1] = Newline THEN Append(g[k], k + 1) ELSE g[k]
      BY <1>7, <3>1
    <3> QED BY <3>1, <3>2, AppendIn DEF V
  <2> HIDE DEF T
  <2>3. Nat \subseteq T
    BY <2>1, <2>2, Induction
  <2> QED BY <2>3 DEF T
<1>9. g \in [0..N -> V]
  BY <1>1, <1>7, <1>8
<1> QED BY <1>6, <1>9 DEF g, N, V

LEMMA LinesUnrolls ==
  ASSUME NEW text \in Seq(Char)
  PROVE  LinesOf(text, Rest(text), Lines(text)) /\ Lines(text) \in [0..Len(text) -> Seq(Seq(Char))]
<1> DEFINE N == Len(text)
           V == Seq(Seq(Char))
           rest == Rest(text)
           Step(k, v) == IF text[k] = Newline THEN Append(v, rest[k - 1]) ELSE v
           step == [k \in 1..N |-> [v \in V |-> Step(k, v)]]
<1>1. N \in Nat /\ <<>> \in V
  BY EmptyIn
<1>r. rest \in [0..N -> Seq(Char)]
  BY RestUnrolls
<1> HIDE DEF rest
<1>2. step \in [1..N -> [V -> V]]
  <2>1. ASSUME NEW k \in 1..N, NEW v \in V PROVE Step(k, v) \in V
    <3>1. rest[k - 1] \in Seq(Char)
      <4>1. k - 1 \in 0..N
        BY <1>1
      <4> HIDE DEF N
      <4> QED BY <1>r, <4>1
    <3> QED BY <3>1, AppendIn
  <2> HIDE DEF Step
  <2> QED BY <2>1
<1>3. PICK f : Follows(f, N, V, <<>>, step)
  <2> HIDE DEF step, V, N
  <2> QED BY <1>1, <1>2, Recursion
<1>4. LinesOf(text, rest, f)
  <2>1. f \in [0..N -> V] /\ \A k \in 0..N : f[k] = IF k = 0 THEN <<>> ELSE step[k][f[k - 1]]
    <3> HIDE DEF step, V, N
    <3> QED BY <1>1, <1>3, FollowsIs
  <2>2. ASSUME NEW k \in 0..N, k # 0 PROVE step[k][f[k - 1]] = Step(k, f[k - 1])
    <3>1. k \in 1..N /\ k - 1 \in 0..N /\ f[k - 1] \in V
      BY <1>1, <2>1, <2>2
    <3> HIDE DEF Step, V
    <3> QED BY <3>1
  <2>3. \A k \in 0..N : f[k] = IF k = 0 THEN <<>>
                               ELSE IF text[k] = Newline THEN Append(f[k - 1], rest[k - 1]) ELSE f[k - 1]
    <3> HIDE DEF step
    <3> QED BY <2>1, <2>2
  <2> QED BY <2>1, <2>3 DEF LinesOf
<1>5. Lines(text) = CHOOSE g : LinesOf(text, rest, g)
  BY DEF Lines, LinesOf, rest
<1>6. LinesOf(text, rest, Lines(text))
  BY <1>4, <1>5, Zenon
<1> DEFINE g == Lines(text)
<1>7. g = [n \in 0..N |-> IF n = 0 THEN <<>>
                          ELSE IF text[n] = Newline THEN Append(g[n - 1], rest[n - 1]) ELSE g[n - 1]]
  BY <1>6 DEF LinesOf
<1> HIDE DEF g, N, V
<1>8. \A k \in Nat : k \in 0..N => g[k] \in V
  <2> DEFINE T == {k \in Nat : k \in 0..N => g[k] \in V}
  <2>1. 0 \in T
    BY <1>1, <1>7
  <2>2. ASSUME NEW k \in Nat, k \in T PROVE k + 1 \in T
    <3> SUFFICES ASSUME k + 1 \in 0..N PROVE g[k + 1] \in V
      OBVIOUS
    <3>1. k \in 0..N /\ k + 1 # 0 /\ (k + 1) - 1 = k /\ g[k] \in V /\ rest[k] \in Seq(Char)
      BY <1>1, <1>r, <2>2
    <3>2. g[k + 1] = IF text[k + 1] = Newline THEN Append(g[k], rest[k]) ELSE g[k]
      BY <1>7, <3>1
    <3> QED BY <3>1, <3>2, AppendIn DEF V
  <2> HIDE DEF T
  <2>3. Nat \subseteq T
    BY <2>1, <2>2, Induction
  <2> QED BY <2>3 DEF T
<1>9. g \in [0..N -> V]
  BY <1>1, <1>7, <1>8
<1> QED BY <1>6, <1>9 DEF g, N, V, rest

\* The line a text of n characters ends in, as a span.
LastAt(stops) == Begins(stops, Len(stops) + 1)

\* What Cut makes of one more span.
LEMMA CutGrows ==
  ASSUME NEW text \in Seq(Char), NEW ends \in Seq(1..Len(text) + 1), NEW e \in 1..Len(text) + 1,
         NEW row \in Seq(Char), row = SubSeq(text, LastAt(ends), e - 1), Cut(text, ends) \in Seq(Seq(Char))
  PROVE  /\ Cut(text, Append(ends, e)) = Append(Cut(text, ends), row)
         /\ LastAt(Append(ends, e)) = e + 1
<1> DEFINE n == Len(ends)
           c == Cut(text, ends)
           Part(i) == SubSeq(text, Begins(ends, i), ends[i] - 1)
<1>1. PICK d : d = Append(ends, e) /\ d = [i \in 1..n + 1 |-> IF i = n + 1 THEN e ELSE ends[i]]
  <2>1. IsAppend(Append(ends, e), ends, e, n)
    BY AppendIs
  <2> QED BY <2>1 DEF IsAppend
<1>2. n \in Nat /\ Len(d) = n + 1
  BY <1>1
<1>3. Len(c) = n /\ c = [i \in 1..n |-> Part(i)]
  <2>1. c = [i \in 1..n |-> Part(i)]
    BY DEF Cut
  <2>2. DOMAIN c = 1..n /\ DOMAIN c = 1..Len(c) /\ Len(c) \in Nat
    <3> HIDE DEF Part
    <3>1. DOMAIN c = 1..n
      BY <2>1
    <3> HIDE DEF c
    <3> QED BY <3>1, LenProperties DEF c
  <2> HIDE DEF c, Part
  <2> QED BY <1>2, <2>1, <2>2
<1>4. PICK v : v = Append(c, row) /\ v = [i \in 1..n + 1 |-> IF i = n + 1 THEN row ELSE c[i]]
  <2> HIDE DEF c, n, Part
  <2>1. IsAppend(Append(c, row), c, row, Len(c))
    BY AppendIs DEF c
  <2> QED BY <1>3, <2>1 DEF IsAppend
<1>5. Cut(text, d) = [i \in 1..n + 1 |-> SubSeq(text, Begins(d, i), d[i] - 1)]
  BY <1>2 DEF Cut
<1>6. \A i \in 1..n + 1 : Begins(d, i) = Begins(ends, i)
  <2> TAKE i \in 1..n + 1
  <2>1. CASE i = 1
    BY <2>1 DEF Begins
  <2>2. CASE i # 1
    <3>1. i - 1 \in 1..n + 1 /\ i - 1 # n + 1
      BY <1>2, <2>2
    <3>2. d[i - 1] = ends[i - 1]
      BY <1>1, <3>1
    <3> QED BY <2>2, <3>2 DEF Begins
  <2> QED BY <2>1, <2>2
<1>7. \A i \in 1..n + 1 : SubSeq(text, Begins(d, i), d[i] - 1) = IF i = n + 1 THEN row ELSE c[i]
  <2> TAKE i \in 1..n + 1
  <2>1. CASE i = n + 1
    <3>1. d[i] = e /\ Begins(d, i) = LastAt(ends)
      BY <1>1, <1>6, <2>1 DEF LastAt
    <3> QED BY <2>1, <3>1
  <2>2. CASE i # n + 1
    <3>1. i \in 1..n
      <4> HIDE DEF n
      <4> QED BY <1>2, <2>2
    <3>3. d[i] = ends[i]
      BY <1>1, <2>2
    <3>2. c[i] = Part(i)
      <4> HIDE DEF Part, c
      <4> QED BY <1>3, <3>1
    <3> QED BY <1>6, <2>2, <3>2, <3>3, Zenon
  <2> QED BY <2>1, <2>2
<1>8. Cut(text, d) = v
  BY <1>4, <1>5, <1>7
<1>9. LastAt(d) = e + 1
  <2>1. Len(d) + 1 = n + 2 /\ n + 2 # 1 /\ (n + 2) - 1 = n + 1 /\ n + 1 \in 1..n + 1
    BY <1>2
  <2>2. d[n + 1] = e
    BY <1>1, <2>1
  <2> QED BY <2>1, <2>2 DEF LastAt, Begins
<1> QED BY <1>1, <1>4, <1>8, <1>9, Zenon

\* Both scans agree up to the first n characters.
Agree(text, stops, rest, lines, n) ==
  /\ LastAt(stops[n]) \in 1..n + 1
  /\ stops[n] = <<>> => LastAt(stops[n]) = 1
  /\ rest[n] = SubSeq(text, LastAt(stops[n]), n)
  /\ lines[n] = Cut(text, stops[n])

LEMMA ScansAgree ==
  ASSUME NEW text \in Seq(Char), NEW n \in 0..Len(text)
  PROVE  Agree(text, Stops(text), Rest(text), Lines(text), n)
<1> DEFINE N == Len(text)
<1>1. PICK s : s = Stops(text) /\ s \in [0..N -> Seq(1..N)] /\ StopsOf(text, s)
  BY StopsUnrolls
<1>2. PICK r : r = Rest(text) /\ r \in [0..N -> Seq(Char)] /\ RestOf(text, r)
  BY RestUnrolls
<1>3. PICK l : l = Lines(text) /\ l \in [0..N -> Seq(Seq(Char))] /\ LinesOf(text, r, l)
  BY <1>2, LinesUnrolls
<1> DEFINE T == {k \in Nat : k <= N => Agree(text, s, r, l, k)}
<1>4. N \in Nat /\ \A k \in 1..N : text[k] \in Char
  OBVIOUS
<1>5. 0 \in T
  <2>1. s[0] = <<>> /\ r[0] = <<>> /\ l[0] = <<>>
    BY <1>1, <1>2, <1>3, <1>4 DEF StopsOf, RestOf, LinesOf
  <2>2. LastAt(<<>>) = 1
    BY DEF LastAt, Begins
  <2>3. SubSeq(text, 1, 0) = <<>>
    <3>1. 0 \in 0..Len(text) /\ 1 \in 1..0 + 1 /\ 0 + 1 - 1 = 0
      BY <1>4
    <3>2. SubSeq(text, 1, 0) = [i \in 1..0 + 1 - 1 |-> text[i + 1 - 1]]
      BY <3>1, SubSeqIs
    <3>3. [i \in 1..0 |-> text[i + 1 - 1]] = <<>>
      OBVIOUS
    <3> QED BY <3>1, <3>2, <3>3
  <2>4. Cut(text, <<>>) = <<>>
    <3>1. Len(<<>>) = 0
      BY EmptyIn
    <3>2. Cut(text, <<>>) = [k \in 1..0 |-> SubSeq(text, Begins(<<>>, k), <<>>[k] - 1)]
      BY <3>1, Zenon DEF Cut
    <3>3. [k \in 1..0 |-> SubSeq(text, Begins(<<>>, k), <<>>[k] - 1)] = <<>>
      OBVIOUS
    <3> QED BY <3>2, <3>3
  <2>5. Agree(text, s, r, l, 0)
    BY <2>1, <2>2, <2>3, <2>4 DEF Agree
  <2> QED BY <2>5
<1>6. ASSUME NEW k \in Nat, k \in T PROVE k + 1 \in T
  <2> SUFFICES ASSUME k + 1 <= N PROVE Agree(text, s, r, l, k + 1)
    OBVIOUS
  <2>1. /\ k \in 0..N /\ k + 1 \in 0..N /\ k + 1 # 0 /\ (k + 1) - 1 = k /\ k + 1 \in 1..N /\ k \in 0..Len(text) - 1
        /\ k + 1 \in 1..Len(text) + 1
    BY <1>4
  <2>2. Agree(text, s, r, l, k)
    BY <1>4, <1>6
  <2>3. PICK q : q = s[k] /\ q \in Seq(1..N) /\ q \in Seq(1..Len(text) + 1)
    <3>1. s[k] \in Seq(1..N)
      <4> HIDE DEF N
      <4> QED BY <1>1, <2>1
    <3>2. 1..N \subseteq 1..Len(text) + 1
      BY <1>4
    <3> QED BY <3>1, <3>2
  <2>4. /\ s[k + 1] = IF text[k + 1] = Newline THEN Append(q, k + 1) ELSE q
        /\ r[k + 1] = IF text[k + 1] = Newline THEN <<>> ELSE Append(r[k], text[k + 1])
        /\ l[k + 1] = IF text[k + 1] = Newline THEN Append(l[k], r[k]) ELSE l[k]
    <3> HIDE DEF N
    <3>1. s[k + 1] = IF text[k + 1] = Newline THEN Append(s[k], k + 1) ELSE s[k]
      BY <1>1, <2>1 DEF StopsOf, N
    <3>2. r[k + 1] = IF text[k + 1] = Newline THEN <<>> ELSE Append(r[k], text[k + 1])
      BY <1>2, <2>1 DEF RestOf, N
    <3>3. l[k + 1] = IF text[k + 1] = Newline THEN Append(l[k], r[k]) ELSE l[k]
      BY <1>3, <2>1 DEF LinesOf, N
    <3> QED BY <2>3, <3>1, <3>2, <3>3
  <2> DEFINE b == LastAt(q)
  <2>5. b \in 1..k + 1 /\ (q = <<>> => b = 1) /\ r[k] = SubSeq(text, b, k) /\ l[k] = Cut(text, q)
    BY <2>2, <2>3 DEF Agree
  <2> HIDE DEF b
  <2>6. CASE text[k + 1] = Newline
    <3>1. r[k] \in Seq(Char) /\ l[k] \in Seq(Seq(Char))
      BY <1>2, <1>3, <2>1
    <3>2. /\ Cut(text, Append(q, k + 1)) = Append(l[k], r[k])
          /\ LastAt(Append(q, k + 1)) = (k + 1) + 1
      <4>1. r[k] = SubSeq(text, LastAt(q), (k + 1) - 1)
        BY <2>1, <2>5 DEF b
      <4>2. Cut(text, q) \in Seq(Seq(Char))
        BY <2>5, <3>1
      <4> DEFINE e == k + 1
                 row == r[k]
      <4>3. e \in 1..Len(text) + 1 /\ row \in Seq(Char) /\ row = SubSeq(text, LastAt(q), e - 1)
        BY <2>1, <3>1, <4>1
      <4> HIDE DEF e, row
      <4>4. Cut(text, Append(q, e)) = Append(Cut(text, q), row) /\ LastAt(Append(q, e)) = e + 1
        BY <2>3, <4>2, <4>3, CutGrows
      <4> QED BY <2>5, <4>4 DEF e, row
    <3>3. SubSeq(text, (k + 1) + 1, k + 1) = <<>>
      <4>1. (k + 1) + 1 \in 1..(k + 1) + 1 /\ k + 1 \in 0..Len(text) /\ (k + 1) + 1 - ((k + 1) + 1) = 0
        BY <2>1
      <4>2. SubSeq(text, (k + 1) + 1, k + 1) \in Seq(Char) /\ Len(SubSeq(text, (k + 1) + 1, k + 1)) = 0
        BY <4>1, SubSeqIs
      <4> QED BY <4>2
    <3>4. Append(q, k + 1) # <<>>
      <4>1. Len(Append(q, k + 1)) = Len(q) + 1 /\ Len(q) \in Nat
        BY <2>1, <2>3
      <4>2. Len(<<>>) = 0
        BY EmptyIn
      <4> QED BY <4>1, <4>2
    <3>5. (k + 1) + 1 \in 1..(k + 1) + 1
      OBVIOUS
    <3> QED BY <2>4, <2>6, <3>2, <3>3, <3>4, <3>5 DEF Agree
  <2>7. CASE text[k + 1] # Newline
    <3>1. SubSeq(text, b, k + 1) = Append(SubSeq(text, b, k), text[k + 1])
      BY <2>1, <2>5, SubSeqGrows
    <3>2. b \in 1..(k + 1) + 1
      BY <2>5
    <3> QED BY <2>4, <2>5, <2>7, <3>1, <3>2 DEF Agree, b
  <2> QED BY <2>6, <2>7
<1> HIDE DEF T
<1>7. Nat \subseteq T
  BY <1>5, <1>6, Induction
<1>8. n \in T /\ n <= N
  BY <1>4, <1>7
<1> QED BY <1>1, <1>2, <1>3, <1>8 DEF T

\* The lines that getline reads are the spans that writeOutput cuts.
THEOREM SpansAreLines ==
  ASSUME NEW text \in Seq(Char)
  PROVE  Spans(text) = GetLines(text) /\ GetLines(text) \in Seq(Seq(Char))
<1> DEFINE N == Len(text)
           q == Stops(text)[N]
           r == Rest(text)[N]
           l == Lines(text)[N]
           b == LastAt(q)
<1>1. N \in Nat /\ N \in 0..N
  OBVIOUS
<1>2. q \in Seq(1..N) /\ r \in Seq(Char) /\ l \in Seq(Seq(Char))
  <2> HIDE DEF N
  <2>1. Stops(text) \in [0..N -> Seq(1..N)] /\ Rest(text) \in [0..N -> Seq(Char)]
        /\ Lines(text) \in [0..N -> Seq(Seq(Char))]
    BY StopsUnrolls, RestUnrolls, LinesUnrolls DEF N
  <2> QED BY <1>1, <2>1
<1>3. /\ b \in 1..N + 1 /\ (q = <<>> => b = 1)
      /\ r = SubSeq(text, b, N) /\ l = Cut(text, q)
  BY <1>1, ScansAgree DEF Agree
<1>4. Spans(text) = Cut(text, IF q # <<>> /\ q[Len(q)] = N THEN q
                              ELSE IF text = <<>> THEN <<>> ELSE Append(q, N + 1))
  BY DEF Spans
<1>5. GetLines(text) = IF r = <<>> THEN l ELSE Append(l, r)
  BY DEF GetLines
<1> HIDE DEF q, r, l
<1>6. r = <<>> <=> b = N + 1
  <2>1. r \in Seq(Char) /\ Len(r) = N + 1 - b
    BY <1>1, <1>2, <1>3, SubSeqIs
  <2>2. b \in Int
    BY <1>1, <1>3
  <2> QED BY <1>1, <2>1, <2>2
<1>7. q # <<>> => b = q[Len(q)] + 1
  <2> SUFFICES ASSUME q # <<>> PROVE b = q[Len(q)] + 1
    OBVIOUS
  <2>1. Len(q) \in Nat \ {0} /\ (Len(q) + 1) - 1 = Len(q) /\ Len(q) + 1 # 1
    BY <1>2
  <2> QED BY <2>1 DEF LastAt, Begins
<1>8. CASE r = <<>>
  <2>1. CASE q # <<>>
    <3>1. q[Len(q)] = N
      <4>1. q[Len(q)] \in 1..N
        BY <1>2, <2>1
      <4> QED BY <1>1, <1>6, <1>7, <1>8, <2>1, <4>1
    <3> QED BY <1>2, <1>3, <1>4, <1>5, <1>8, <2>1, <3>1
  <2>2. CASE q = <<>>
    <3>1. N = 0
      BY <1>1, <1>3, <1>6, <1>8, <2>2
    <3>2. text = <<>>
      BY <3>1
    <3> QED BY <1>2, <1>3, <1>4, <1>5, <1>8, <2>2, <3>2
  <2> QED BY <2>1, <2>2
<1>9. CASE r # <<>>
  <2>1. ~(q # <<>> /\ q[Len(q)] = N)
    BY <1>6, <1>7, <1>9
  <2>2. text # <<>>
    <3> SUFFICES ASSUME text = <<>> PROVE FALSE
      OBVIOUS
    <3>1. N = 0
      OBVIOUS
    <3>2. b = N + 1
      BY <1>3, <3>1
    <3> QED BY <1>6, <1>9, <3>2
  <2>3. Cut(text, Append(q, N + 1)) = Append(Cut(text, q), r)
    <3>1. q \in Seq(1..Len(text) + 1) /\ N + 1 \in 1..Len(text) + 1 /\ (N + 1) - 1 = N
      <4>1. 1..N \subseteq 1..Len(text) + 1
        BY <1>1
      <4> QED BY <1>1, <1>2, <4>1
    <3>2. r = SubSeq(text, LastAt(q), (N + 1) - 1)
      BY <1>3, <3>1
    <3> QED BY <1>2, <1>3, <3>1, <3>2, CutGrows
  <2>4. Append(l, r) \in Seq(Seq(Char))
    BY <1>2, AppendIn
  <2> QED BY <1>3, <1>4, <1>5, <1>9, <2>1, <2>2, <2>3, <2>4
<1> QED BY <1>8, <1>9

(***************************************************************************)
(* Counting sort.                                                          *)
(***************************************************************************)
LEMMA CountNat == ASSUME NEW S, NEW s \in Seq(S), NEW v PROVE Count(s, v) \in Nat
<1>1. Len(s) \in Nat /\ DOMAIN s = 1..Len(s)
  BY LenProperties
<1>2. IsFiniteSet(1..Len(s))
  BY <1>1, FS_Interval
<1>3. IsFiniteSet({k \in DOMAIN s : s[k] = v})
  BY <1>1, <1>2, FS_Subset
<1> QED BY <1>3, FS_CardinalityType DEF Count

Sorted(q) == \A k \in 1..Len(q) - 1 : q[k] <= q[k + 1]
\* What is below i has been placed, in order and as often as s has it.
PlacedBelow(q, s, i) ==
  /\ q \in Seq(0..i - 1) /\ Sorted(q)
  /\ \A v \in 0..i - 1 : Count(q, v) = Count(s, v)

LEMMA PlacesNext ==
  ASSUME NEW S, NEW s \in Seq(S), NEW i \in Nat, NEW q, PlacedBelow(q, s, i)
  PROVE  PlacedBelow(q \o [k \in 1..Count(s, i) |-> i], s, i + 1)
<1> DEFINE c == Count(s, i)
           b == [k \in 1..c |-> i]
           n == Len(q)
<1>1. c \in Nat
  BY CountNat
<1>2. q \in Seq(0..i - 1) /\ n \in Nat /\ (i + 1) - 1 = i /\ DOMAIN q = 1..n
  BY LenProperties DEF PlacedBelow
<1>3. b \in Seq(0..i) /\ Len(b) = c
  <2>1. b \in [1..c -> 0..i]
    BY <1>1
  <2> HIDE DEF b, c
  <2> QED BY <1>1, <2>1, FunSeq
<1>4. q \in Seq(0..i)
  <2>1. 0..i - 1 \subseteq 0..i
    OBVIOUS
  <2> QED BY <1>2, <2>1
<1>5. PICK d : d = q \o b
  OBVIOUS
<1>6. /\ d \in Seq(0..i) /\ Len(d) = n + c
      /\ \A k \in 1..n + c : d[k] = IF k <= n THEN q[k] ELSE b[k - n]
  <2> HIDE DEF b, c
  <2> QED BY <1>3, <1>4, <1>5, ConcatProperties
<1>7. DOMAIN d = 1..n + c
  <2> HIDE DEF c, n
  <2> QED BY <1>6, LenProperties
<1>8. \A k \in 1..n + c : d[k] = IF k <= n THEN q[k] ELSE i
  <2> TAKE k \in 1..n + c
  <2>1. CASE k <= n
    BY <1>6, <2>1
  <2>2. CASE ~(k <= n)
    <3>1. k - n \in 1..c
      <4> HIDE DEF c, n
      <4> QED BY <1>1, <1>2, <2>2
    <3>2. b[k - n] = i
      BY <3>1
    <3> HIDE DEF b
    <3> QED BY <1>6, <2>2, <3>2
  <2> QED BY <2>1, <2>2
<1>9. \A k \in 1..n : q[k] \in 0..i - 1
  <2> HIDE DEF n
  <2> QED BY <1>2
<1> HIDE DEF b, c, n
<1>10. Sorted(d)
  <2> SUFFICES ASSUME NEW k \in 1..(n + c) - 1 PROVE d[k] <= d[k + 1]
    BY <1>6 DEF Sorted
  <2>1. k \in 1..n + c /\ k + 1 \in 1..n + c
    BY <1>1, <1>2
  <2>2. CASE k + 1 <= n
    <3>1. k \in 1..n - 1 /\ k <= n
      BY <1>2, <2>2
    <3>2. q[k] <= q[k + 1]
      BY <3>1 DEF PlacedBelow, Sorted, n
    <3> QED BY <1>8, <2>1, <2>2, <3>1, <3>2
  <2>3. CASE ~(k + 1 <= n)
    <3>1. d[k + 1] = i
      BY <1>8, <2>1, <2>3
    <3>2. d[k] \in 0..i
      <4>1. k <= n => k \in 1..n
        BY <1>2
      <4>2. k <= n => d[k] \in 0..i - 1
        BY <1>8, <1>9, <2>1, <4>1
      <4>3. ~(k <= n) => d[k] = i
        BY <1>8, <2>1
      <4> QED BY <4>2, <4>3
    <3> QED BY <3>1, <3>2
  <2> QED BY <2>2, <2>3
<1>11. ASSUME NEW v \in 0..i - 1 PROVE Count(d, v) = Count(s, v)
  <2>1. {k \in DOMAIN d : d[k] = v} = {k \in DOMAIN q : q[k] = v}
    <3>1. ASSUME NEW k \in 1..n + c, d[k] = v PROVE k \in 1..n /\ q[k] = v
      <4>1. k <= n
        BY <1>8, <3>1
      <4> QED BY <1>2, <1>8, <3>1, <4>1
    <3>2. ASSUME NEW k \in 1..n, q[k] = v PROVE k \in 1..n + c /\ d[k] = v
      <4>1. k \in 1..n + c /\ k <= n
        BY <1>1, <1>2
      <4> QED BY <1>8, <3>2, <4>1
    <3> QED BY <1>2, <1>7, <3>1, <3>2
  <2>2. Count(q, v) = Count(s, v)
    BY DEF PlacedBelow
  <2> QED BY <2>1, <2>2 DEF Count
<1>12. Count(d, i) = c
  <2>1. {k \in DOMAIN d : d[k] = i} = n + 1..n + c
    <3>1. ASSUME NEW k \in 1..n + c, d[k] = i PROVE k \in n + 1..n + c
      <4>1. ~(k <= n)
        <5> SUFFICES ASSUME k <= n PROVE FALSE
          OBVIOUS
        <5>1. k \in 1..n /\ d[k] = q[k]
          BY <1>2, <1>8
        <5>2. q[k] \in 0..i - 1
          BY <1>9, <5>1
        <5> QED BY <3>1, <5>1, <5>2
      <4> QED BY <1>1, <1>2, <4>1
    <3>2. ASSUME NEW k \in n + 1..n + c PROVE k \in 1..n + c /\ d[k] = i
      <4>1. k \in 1..n + c /\ ~(k <= n)
        BY <1>1, <1>2
      <4> QED BY <1>8, <4>1
    <3> QED BY <1>7, <3>1, <3>2
  <2>2. Cardinality(n + 1..n + c) = c
    <3>1. n + 1 \in Int /\ n + c \in Int
      BY <1>1, <1>2
    <3>2. Cardinality(n + 1..n + c) = IF n + 1 > n + c THEN 0 ELSE (n + c) - (n + 1) + 1
      BY <3>1, FS_Interval
    <3> QED BY <1>1, <1>2, <3>2
  <2> QED BY <2>1, <2>2 DEF Count
<1>13. \A v \in 0..(i + 1) - 1 : Count(d, v) = Count(s, v)
  <2> TAKE v \in 0..(i + 1) - 1
  <2>1. v \in 0..i - 1 \/ v = i
    OBVIOUS
  <2> QED BY <1>11, <1>12, <2>1 DEF c
<1>14. PlacedBelow(d, s, i + 1)
  BY <1>2, <1>6, <1>10, <1>13 DEF PlacedBelow
<1> QED BY <1>5, <1>14, Zenon DEF b, c

SortOf(s, end, f) ==
  f = [i \in 0..end |-> IF i = 0 THEN <<>> ELSE f[i - 1] \o [k \in 1..Count(s, i - 1) |-> i - 1]]

\* counting_sort puts the numbers below end in order and keeps how often each is there.
THEOREM CountingSortIs ==
  ASSUME NEW end \in Nat, NEW s \in Seq(0..end - 1)
  PROVE  PlacedBelow(CountingSort(s, end), s, end)
<1> DEFINE V == Seq(0..end - 1)
           Step(k, v) == v \o [j \in 1..Count(s, k - 1) |-> k - 1]
           step == [k \in 1..end |-> [v \in V |-> Step(k, v)]]
<1>1. <<>> \in V /\ Len(<<>>) = 0
  BY EmptyIn
<1>2. step \in [1..end -> [V -> V]]
  <2>1. ASSUME NEW k \in 1..end, NEW v \in V PROVE Step(k, v) \in V
    <3> DEFINE b == [j \in 1..Count(s, k - 1) |-> k - 1]
    <3>1. Count(s, k - 1) \in Nat
      BY CountNat
    <3>2. b \in [1..Count(s, k - 1) -> 0..end - 1]
      OBVIOUS
    <3> HIDE DEF b
    <3>3. b \in V
      BY <3>1, <3>2, FunSeq
    <3> QED BY <3>3, ConcatProperties DEF b
  <2> HIDE DEF Step, V
  <2> QED BY <2>1
<1>3. PICK f : Follows(f, end, V, <<>>, step)
  <2> HIDE DEF step, V
  <2> QED BY <1>1, <1>2, Recursion
<1>4. SortOf(s, end, f)
  <2>1. f \in [0..end -> V] /\ \A k \in 0..end : f[k] = IF k = 0 THEN <<>> ELSE step[k][f[k - 1]]
    <3> HIDE DEF step, V
    <3> QED BY <1>1, <1>3, FollowsIs
  <2>2. ASSUME NEW k \in 0..end, k # 0 PROVE step[k][f[k - 1]] = Step(k, f[k - 1])
    <3>1. k \in 1..end /\ k - 1 \in 0..end
      BY <2>2
    <3> HIDE DEF Step, V
    <3>2. f[k - 1] \in V
      BY <2>1, <3>1
    <3> QED BY <3>1, <3>2
  <2>3. \A k \in 0..end : f[k] = IF k = 0 THEN <<>> ELSE Step(k, f[k - 1])
    <3> HIDE DEF step, Step
    <3> QED BY <2>1, <2>2
  <2>4. f = [k \in 0..end |-> IF k = 0 THEN <<>> ELSE Step(k, f[k - 1])]
    <3> HIDE DEF Step, V
    <3> QED BY <2>1, <2>3
  <2> QED BY <2>4 DEF SortOf
<1>5. PICK g : SortOf(s, end, g) /\ CountingSort(s, end) = g[end]
  <2>1. CountingSort(s, end) = (CHOOSE g : SortOf(s, end, g))[end]
    BY DEF CountingSort, SortOf
  <2>2. SortOf(s, end, CHOOSE g : SortOf(s, end, g))
    BY <1>4, Zenon
  <2> QED BY <2>1, <2>2
<1> DEFINE T == {k \in Nat : k <= end => PlacedBelow(g[k], s, k)}
<1>6. 0 \in T
  <2>1. g[0] = <<>>
    BY <1>5 DEF SortOf
  <2>2. <<>> \in Seq(0..0 - 1) /\ Len(<<>>) = 0
    BY EmptyIn
  <2>3. PlacedBelow(<<>>, s, 0)
    BY <2>2 DEF PlacedBelow, Sorted
  <2> QED BY <2>1, <2>3
<1>7. ASSUME NEW k \in Nat, k \in T PROVE k + 1 \in T
  <2> SUFFICES ASSUME k + 1 <= end PROVE PlacedBelow(g[k + 1], s, k + 1)
    OBVIOUS
  <2>1. PlacedBelow(g[k], s, k) /\ k + 1 \in 0..end /\ k + 1 # 0 /\ (k + 1) - 1 = k
    BY <1>7
  <2>2. g[k + 1] = g[k] \o [j \in 1..Count(s, k) |-> k]
    <3>1. g[k + 1] = g[(k + 1) - 1] \o [j \in 1..Count(s, (k + 1) - 1) |-> (k + 1) - 1]
      BY <1>5, <2>1 DEF SortOf
    <3> QED BY <2>1, <3>1
  <2>3. PlacedBelow(g[k] \o [j \in 1..Count(s, k) |-> k], s, k + 1)
    BY <2>1, PlacesNext
  <2> QED BY <2>2, <2>3, Zenon
<1> HIDE DEF T
<1>8. Nat \subseteq T
  BY <1>6, <1>7, Induction
<1> QED BY <1>5, <1>8 DEF T

(***************************************************************************)
(* Elements of a file, and the keys the OPRF makes of them.                *)
(***************************************************************************)
SizeOf(r) == IF r = "sender" THEN SendSize ELSE RecvSize
Elem(j, r) == Elements(j.ft, j.file[r])
RowsOf(j, r) == IF j.ft = "bin" THEN Pieces(j.file[r]) ELSE GetLines(j.file[r])
Parsed(j, row) == IF j.ft = "bin" THEN [kind |-> "block", is |-> row] ELSE Element(row)

LEMMA LenOf ==
  ASSUME NEW n \in Nat, NEW f, f = [k \in 1..n |-> f[k]]
  PROVE  Len(f) = n
<1> DEFINE S == {f[k] : k \in 1..n}
<1>1. f \in [1..n -> S]
  OBVIOUS
<1> HIDE DEF S
<1> QED BY <1>1, FunSeq

LEMMA ElementsIs ==
  ASSUME NEW j \in Jobs, NEW r \in Roles
  PROVE  /\ DOMAIN RowsOf(j, r) = 1..SizeOf(r)
         /\ Elem(j, r) = [k \in 1..SizeOf(r) |-> Parsed(j, RowsOf(j, r)[k])]
<1> DEFINE text == j.file[r]
           rows == RowsOf(j, r)
           e == Elem(j, r)
           Row(k) == IF j.ft = "bin" THEN [kind |-> "block", is |-> rows[k]] ELSE Element(rows[k])
<1>1. text \in Seq(Char) /\ ElemBytes \in Nat \ {0} /\ Len(e) = SizeOf(r) /\ j.ft \in {"bin", "csv"}
  BY FilePsiAssumption DEF Roles, SizeOf, Elem
<1>2. PICK n \in Nat : DOMAIN rows = 1..n
  <2>1. CASE j.ft = "bin"
    <3>1. Len(text) \div ElemBytes \in Nat
      <4>1. Len(text) \in Nat
        BY <1>1
      <4> QED BY <1>1, <4>1, DivNat
    <3>2. DOMAIN Pieces(text) = 1..(Len(text) \div ElemBytes)
      BY DEF Pieces
    <3> QED BY <2>1, <3>1, <3>2 DEF RowsOf
  <2>2. CASE j.ft # "bin"
    <3>1. GetLines(text) \in Seq(Seq(Char))
      BY <1>1, SpansAreLines
    <3>2. DOMAIN GetLines(text) = 1..Len(GetLines(text)) /\ Len(GetLines(text)) \in Nat
      BY <3>1, LenProperties
    <3> QED BY <2>2, <3>2 DEF RowsOf
  <2> QED BY <2>1, <2>2
<1>3. e = [k \in DOMAIN rows |-> Row(k)]
  BY DEF Elem, Elements, RowsOf
<1> HIDE DEF rows, e
<1>4. e = [k \in 1..n |-> Row(k)]
  BY <1>2, <1>3
<1>5. Len(e) = n
  BY <1>4, LenOf
<1> QED BY <1>1, <1>2, <1>4, <1>5 DEF Parsed, rows, e

\* What writeOutput takes from the file is the row of the element.
LEMMA RowIs ==
  ASSUME NEW j \in Jobs, NEW r \in Roles, NEW i \in 0..SizeOf(r) - 1
  PROVE  /\ i + 1 \in 1..SizeOf(r)
         /\ RowAt(j.ft, j.file[r], i) = RowsOf(j, r)[i + 1]
         /\ Parsed(j, RowAt(j.ft, j.file[r], i)) = Elem(j, r)[i + 1]
         /\ RowAt(j.ft, j.file[r], i) =
              IF j.ft = "bin" THEN Elem(j, r)[i + 1].is ELSE GetLines(j.file[r])[i + 1]
<1> DEFINE rows == RowsOf(j, r)
           row == RowAt(j.ft, j.file[r], i)
<1>1. SizeOf(r) \in Nat /\ i + 1 \in 1..SizeOf(r)
  BY RsPsiAssumption DEF SizeOf
<1>2. DOMAIN rows = 1..SizeOf(r) /\ Elem(j, r) = [k \in 1..SizeOf(r) |-> Parsed(j, rows[k])]
  BY ElementsIs
<1>3. j.file[r] \in Seq(Char)
  BY FilePsiAssumption
<1>4. row = rows[i + 1]
  <2>1. rows = IF j.ft = "bin" THEN Pieces(j.file[r]) ELSE Spans(j.file[r])
    BY <1>3, SpansAreLines DEF RowsOf
  <2> QED BY <1>1, <1>2, <2>1 DEF RowAt
<1>5. Elem(j, r)[i + 1] = Parsed(j, row)
  BY <1>1, <1>2, <1>4
<1>6. row = IF j.ft = "bin" THEN Elem(j, r)[i + 1].is ELSE GetLines(j.file[r])[i + 1]
  <2>1. CASE j.ft = "bin"
    <3>1. Elem(j, r)[i + 1] = [kind |-> "block", is |-> row]
      BY <1>5, <2>1 DEF Parsed
    <3> HIDE DEF row
    <3>2. [kind |-> "block", is |-> row].is = row
      OBVIOUS
    <3> QED BY <2>1, <3>1, <3>2
  <2>2. CASE j.ft # "bin"
    BY <1>4, <2>2 DEF RowsOf
  <2> QED BY <2>1, <2>2
<1> HIDE DEF row
<1> QED BY <1>1, <1>4, <1>5, <1>6 DEF row

\* The OPRF outputs of two elements of the files differ in what travels (for a mask of
\* the size init computes, but for a chance of 2^-ssp).
OprfApart ==
  \A j \in Jobs, r, s \in Roles : \A a \in 1..SizeOf(r), b \in 1..SizeOf(s) :
     Elem(j, r)[a] # Elem(j, s)[b] => \E c \in 0..Mask - 1 : OprfOf[Elem(j, r)[a]][c] # OprfOf[Elem(j, s)[b]][c]

LEMMA KeysAre ==
  ASSUME OprfApart, job \in Jobs, inst = InstanceOf(job), mal \in BOOLEAN
  PROVE  \A i \in Rows :
           /\ \A h \in Rows : (MyKey(h) = MyKey(i)) = (Elem(job, "receiver")[h + 1] = Elem(job, "receiver")[i + 1])
           /\ \A k \in Ours : (TheirKey(k) = MyKey(i)) = (Elem(job, "sender")[k + 1] = Elem(job, "receiver")[i + 1])
<1> DEFINE mine == Elem(job, "receiver")
           theirs == Elem(job, "sender")
<1>1. RecvSize \in Nat /\ SendSize \in Nat /\ Mask \in 1..MaskSize /\ MaskSize \in Nat
  BY Sizes
<1>2. /\ inst.mine = [i \in Rows |-> OprfOf[mine[i + 1]]]
      /\ inst.theirs = [k \in Ours |-> OprfOf[theirs[k + 1]]]
  BY DEF InstanceOf, Elem, Rows, Ours
<1>3. ASSUME NEW e, NEW f, e # f => \E c \in 0..Mask - 1 : OprfOf[e][c] # OprfOf[f][c]
      PROVE  (Masked(OprfOf[e]) = Masked(OprfOf[f])) = (e = f)
  <2>1. CASE e = f
    BY <2>1
  <2>2. CASE e # f
    <3>1. PICK c \in 0..Mask - 1 : OprfOf[e][c] # OprfOf[f][c]
      BY <1>3, <2>2
    <3>2. c \in 0..MaskSize - 1
      BY <1>1
    <3>3. Masked(OprfOf[e])[c] = OprfOf[e][c] /\ Masked(OprfOf[f])[c] = OprfOf[f][c]
      BY <3>2 DEF Masked
    <3>4. Masked(OprfOf[e]) # Masked(OprfOf[f])
      BY <3>1, <3>3, Zenon
    <3> QED BY <2>2, <3>4
  <2> QED BY <2>1, <2>2
<1>4. ASSUME NEW i \in Rows PROVE i + 1 \in 1..RecvSize /\ inst.mine[i] = OprfOf[mine[i + 1]]
  BY <1>1, <1>2 DEF Rows
<1>5. ASSUME NEW k \in Ours PROVE k + 1 \in 1..SendSize /\ inst.theirs[k] = OprfOf[theirs[k + 1]]
  BY <1>1, <1>2 DEF Ours
<1> TAKE i \in Rows
<1>6. ASSUME NEW h \in Rows PROVE (MyKey(h) = MyKey(i)) = (mine[h + 1] = mine[i + 1])
  <2>1. mine[h + 1] # mine[i + 1] => \E c \in 0..Mask - 1 : OprfOf[mine[h + 1]][c] # OprfOf[mine[i + 1]][c]
    <3>1. SizeOf("receiver") = RecvSize /\ "receiver" \in Roles
      BY DEF SizeOf, Roles
    <3> QED BY <1>4, <3>1 DEF OprfApart
  <2> HIDE DEF mine
  <2>2. (Masked(OprfOf[mine[h + 1]]) = Masked(OprfOf[mine[i + 1]])) = (mine[h + 1] = mine[i + 1])
    BY <2>1, <1>3
  <2> QED BY <1>4, <2>2 DEF MyKey
<1>7. ASSUME NEW k \in Ours PROVE (TheirKey(k) = MyKey(i)) = (theirs[k + 1] = mine[i + 1])
  <2>1. theirs[k + 1] # mine[i + 1] => \E c \in 0..Mask - 1 : OprfOf[theirs[k + 1]][c] # OprfOf[mine[i + 1]][c]
    <3>1. SizeOf("receiver") = RecvSize /\ SizeOf("sender") = SendSize /\ {"receiver", "sender"} \subseteq Roles
      BY DEF SizeOf, Roles
    <3> QED BY <1>4, <1>5, <3>1 DEF OprfApart
  <2> HIDE DEF mine, theirs
  <2>2. (Masked(OprfOf[theirs[k + 1]]) = Masked(OprfOf[mine[i + 1]])) = (theirs[k + 1] = mine[i + 1])
    BY <2>1, <1>3
  <2> QED BY <1>4, <1>5, <2>2 DEF MyKey, TheirKey
<1> QED BY <1>6, <1>7

(***************************************************************************)
(* One thread: what the receiver has counted after n of the sender's       *)
(* hashes.                                                                 *)
(***************************************************************************)
Firsts == {i \in Rows : \A h \in 0..i - 1 : MyKey(h) # MyKey(i)}
Askers(i, n) == {k \in 0..n - 1 : TheirKey(k) = MyKey(i)}
Times(i, n) == IF i \in Firsts THEN Cardinality(Askers(i, n)) ELSE 0
Tally(n) == \A i \in Rows : Count(out, i) = Times(i, n)
SingleTypes ==
  /\ nt = 1 /\ mal \in BOOLEAN
  /\ rpc \in {"start", "recv", "find", "done"} /\ open = (rpc \notin {"start", "recv"})
  /\ at \in [Threads -> 0..SendSize] /\ out \in Seq(Rows)
SingleInv ==
  /\ SingleTypes
  /\ rpc = "start" => \A i \in Rows, b \in 0..Block - 1 : buf[Block * i + b] = inst.mine[i][b]
  /\ rpc \in {"recv", "find"} => map[0] = {[key |-> MyKey(i), idx |-> i] : i \in Firsts}
  /\ open => TheirsIn
  /\ Tally(IF rpc = "done" THEN SendSize ELSE at[0])

LEMMA ZeroThread == ASSUME nt = 1 PROVE Threads = {0}
  BY DEF Threads

LEMMA RigidRows ==
  ASSUME UNCHANGED <<inst, nt, mal>>
  PROVE  /\ Firsts' = Firsts /\ Threads' = Threads /\ MaskSize' = MaskSize
         /\ \A i, n : Times(i, n)' = Times(i, n)
         /\ \A i : MyKey(i)' = MyKey(i)
  BY DEF Firsts, Times, Askers, Threads, MyKey, TheirKey, Masked, MaskSize

\* Counts of one element more, and of none.
LEMMA CountAppend ==
  ASSUME NEW S, NEW s \in Seq(S), NEW e \in S, NEW v
  PROVE  Count(Append(s, e), v) = Count(s, v) + (IF v = e THEN 1 ELSE 0)
<1> DEFINE t == Append(s, e)
           n == Len(s)
           C == {k \in DOMAIN s : s[k] = v}
           D == {k \in DOMAIN t : t[k] = v}
<1>1. n \in Nat /\ DOMAIN s = 1..n /\ DOMAIN t = 1..n + 1 /\ t[n + 1] = e /\ \A k \in 1..n : t[k] = s[k]
  OBVIOUS
<1> HIDE DEF t, n
<1>2. IsFiniteSet(C) /\ n + 1 \notin C
  <2>1. IsFiniteSet(1..n)
    BY <1>1, FS_Interval
  <2> QED BY <1>1, <2>1, FS_Subset
<1>3. D = IF v = e THEN C \cup {n + 1} ELSE C
  <2>1. \A k : k \in 1..n + 1 <=> k \in 1..n \/ k = n + 1
    BY <1>1
  <2> QED BY <1>1, <2>1
<1>4. Cardinality(C) \in Nat
  BY <1>2, FS_CardinalityType
<1>5. Cardinality(C \cup {n + 1}) = Cardinality(C) + 1
  BY <1>2, FS_AddElement
<1> HIDE DEF C, D
<1>6. Cardinality(D) = Cardinality(C) + (IF v = e THEN 1 ELSE 0)
  BY <1>3, <1>4, <1>5
<1> QED BY <1>6 DEF Count, C, D, t

LEMMA AskersGrow ==
  ASSUME NEW i \in Rows, NEW k \in Nat
  PROVE  /\ Cardinality(Askers(i, k)) \in Nat
         /\ Cardinality(Askers(i, k + 1)) = Cardinality(Askers(i, k)) + (IF TheirKey(k) = MyKey(i) THEN 1 ELSE 0)
<1> DEFINE A == Askers(i, k)
<1>1. IsFiniteSet(A) /\ k \notin A
  <2>1. IsFiniteSet(0..k - 1) /\ k \notin 0..k - 1
    BY FS_Interval
  <2> QED BY <2>1, FS_Subset DEF Askers
<1>2. 0..(k + 1) - 1 = (0..k - 1) \cup {k}
  OBVIOUS
<1>3. Askers(i, k + 1) = IF TheirKey(k) = MyKey(i) THEN A \cup {k} ELSE A
  BY <1>2 DEF Askers
<1> HIDE DEF A
<1>4. Cardinality(A) \in Nat
  BY <1>1, FS_CardinalityType
<1>5. Cardinality(A \cup {k}) = Cardinality(A) + 1
  BY <1>1, FS_AddElement
<1>6. Cardinality(Askers(i, k + 1)) = Cardinality(A) + (IF TheirKey(k) = MyKey(i) THEN 1 ELSE 0)
  BY <1>3, <1>4, <1>5
<1> QED BY <1>4, <1>6 DEF A

LEMMA StartSingle == ASSUME Start, nt = 1 PROVE SingleInv
<1> USE DEF Start
<1>1. Threads = {0} /\ SendSize \in Nat /\ RecvSize \in Nat
  BY ZeroThread, RsPsiAssumption
<1>2. SingleTypes
  <2>1. at \in [Threads -> 0..SendSize]
    BY <1>1
  <2>2. out \in Seq(Rows)
    BY EmptyIn
  <2> QED BY <2>1, <2>2 DEF SingleTypes
<1>3. ASSUME NEW i \in Rows, NEW b \in 0..Block - 1 PROVE buf[Block * i + b] = inst.mine[i][b]
  <2>1. /\ Block * i + b \in 0..BufBytes - 1 /\ Block * i + b < Block * RecvSize
        /\ (Block * i + b) \div Block = i /\ (Block * i + b) % Block = b
    BY OwnCells
  <2> QED BY <2>1
<1>4. Tally(at[0])
  <2> SUFFICES ASSUME NEW i \in Rows PROVE Count(out, i) = Times(i, 0)
    BY <1>1 DEF Tally
  <2>1. {k \in DOMAIN out : out[k] = i} = {}
    BY <1>1
  <2>2. Askers(i, 0) = {}
    BY DEF Askers
  <2>3. Cardinality({}) = 0
    BY FS_EmptySet
  <2> QED BY <2>1, <2>2, <2>3, Zenon DEF Count, Times
<1> QED BY <1>2, <1>3, <1>4 DEF SingleInv

LEMMA SingleKept ==
  ASSUME SingleInv, UNCHANGED <<inst, nt, mal, receiver>>
  PROVE  SingleInv'
<1>1. UNCHANGED <<rpc, buf, at, map, open, out>>
  BY DEF receiver
<1>2. SingleTypes'
  BY <1>1, RigidRows DEF SingleInv, SingleTypes
<1>3. PICK n : n = (IF rpc = "done" THEN SendSize ELSE at[0])
  OBVIOUS
<1>4. Tally(n)'
  BY <1>1, <1>3, RigidRows DEF SingleInv, Tally
<1>5. TheirsIn' = TheirsIn
  BY <1>1, RigidRows DEF TheirsIn
<1>6. {[key |-> MyKey(i), idx |-> i] : i \in Firsts}' = {[key |-> MyKey(i), idx |-> i] : i \in Firsts}
  BY RigidRows
<1> QED BY <1>1, <1>2, <1>3, <1>4, <1>5, <1>6 DEF SingleInv

\* The map keeps the first index of a key.
LEMMA InsertSingle == ASSUME SingleInv, RInsert PROVE SingleInv'
<1>1. /\ UNCHANGED <<inst, nt, mal, buf, at, open, out>> /\ rpc = "start" /\ rpc' = "recv"
      /\ nt = 1 /\ mal \in BOOLEAN /\ Threads = {0}
      /\ map' = [t \in Threads |-> Insert({}, {[key |-> Masked(MyHash(i)), idx |-> i] : i \in Rows})]
  BY ZeroThread DEF SingleInv, SingleTypes, RInsert, Rows
<1>20. RecvSize \in Nat
  BY RsPsiAssumption
<1>2. \A i \in Rows : Masked(MyHash(i)) = MyKey(i)
  <2> TAKE i \in Rows
  <2>1. \A b \in 0..MaskSize - 1 : b \in 0..Block - 1
    BY <1>1, Sizes
  <2>2. \A b \in 0..MaskSize - 1 : MyHash(i)[b] = inst.mine[i][b]
    BY <1>1, <2>1 DEF MyHash, SingleInv
  <2> QED BY <2>2 DEF Masked, MyKey
<1> DEFINE P == {[key |-> MyKey(i), idx |-> i] : i \in Rows}
           F == {[key |-> MyKey(i), idx |-> i] : i \in Firsts}
<1>3. {[key |-> Masked(MyHash(i)), idx |-> i] : i \in Rows} = P
  BY <1>2
<1>4. Insert({}, P) = F
  <2>1. Insert({}, P) = {q \in P : ~\E r \in P : r.key = q.key /\ r.idx < q.idx}
    BY DEF Insert
  <2>2. ASSUME NEW i \in Rows
        PROVE  (~\E r \in P : r.key = MyKey(i) /\ r.idx < i) <=> i \in Firsts
    <3>1. (\E r \in P : r.key = MyKey(i) /\ r.idx < i) <=> \E h \in Rows : MyKey(h) = MyKey(i) /\ h < i
      <4>1. ASSUME NEW r \in P, r.key = MyKey(i), r.idx < i PROVE \E h \in Rows : MyKey(h) = MyKey(i) /\ h < i
        <5>1. PICK h \in Rows : r = [key |-> MyKey(h), idx |-> h]
          OBVIOUS
        <5>2. r.key = MyKey(h) /\ r.idx = h
          BY <5>1
        <5> QED BY <4>1, <5>2
      <4>2. ASSUME NEW h \in Rows, MyKey(h) = MyKey(i), h < i PROVE \E r \in P : r.key = MyKey(i) /\ r.idx < i
        <5>1. PICK r \in P : r = [key |-> MyKey(h), idx |-> h]
          OBVIOUS
        <5>2. r.key = MyKey(h) /\ r.idx = h
          BY <5>1
        <5> QED BY <4>2, <5>2
      <4> QED BY <4>1, <4>2
    <3>2. \A h : h \in 0..i - 1 <=> h \in Rows /\ h < i
      BY <1>20 DEF Rows
    <3> QED BY <3>1, <3>2 DEF Firsts
  <2>3. ASSUME NEW q \in P PROVE (~\E r \in P : r.key = q.key /\ r.idx < q.idx) <=> q \in F
    <3>1. PICK i \in Rows : q = [key |-> MyKey(i), idx |-> i]
      OBVIOUS
    <3>2. q.key = MyKey(i) /\ q.idx = i
      BY <3>1
    <3>3. q \in F <=> i \in Firsts
      BY <3>1, <3>2
    <3> QED BY <2>2, <3>2, <3>3
  <2>4. F \subseteq P
    BY DEF Firsts
  <2> HIDE DEF P, F
  <2> QED BY <2>1, <2>3, <2>4
<1>5. map'[0] = F
  BY <1>1, <1>3, <1>4
<1>6. F' = F
  BY <1>1, RigidRows
<1>7. SingleTypes' /\ Tally(at[0])'
  <2>1. PICK n : n = at[0] /\ n = at'[0]
    BY <1>1
  <2>2. Tally(n)'
    BY <1>1, <2>1, RigidRows DEF SingleInv, Tally
  <2>3. SingleTypes'
    BY <1>1, RigidRows DEF SingleInv, SingleTypes
  <2> QED BY <2>1, <2>2, <2>3
<1> HIDE DEF F
<1>8. map'[0] = F'
  BY <1>5, <1>6
<1>9. ~open'
  BY <1>1 DEF SingleInv, SingleTypes
<1> QED BY <1>1, <1>7, <1>8, <1>9 DEF SingleInv, F

LEMMA RecvSingle == ASSUME PackInv, SingleInv, RRecv PROVE SingleInv'
<1>1. /\ UNCHANGED <<inst, nt, mal, at, map, out>> /\ rpc = "recv" /\ rpc' = "find"
      /\ nt = 1 /\ mal \in BOOLEAN /\ open'
  BY DEF SingleInv, SingleTypes, RRecv
<1>2. TheirsIn'
  BY TheirsArrive
<1>3. PICK n : n = at[0] /\ n = at'[0]
  BY <1>1
<1>4. Tally(n)'
  BY <1>1, <1>3, RigidRows DEF SingleInv, Tally
<1>5. SingleTypes'
  BY <1>1, RigidRows DEF SingleInv, SingleTypes
<1>6. {[key |-> MyKey(i), idx |-> i] : i \in Firsts}' = {[key |-> MyKey(i), idx |-> i] : i \in Firsts}
  BY <1>1, RigidRows
<1> QED BY <1>1, <1>2, <1>3, <1>4, <1>5, <1>6 DEF SingleInv

\* A look-up counts for the first row with its key.
LEMMA FindSingle == ASSUME SingleInv, RFind PROVE SingleInv'
<1>0. PICK k : k = at[0]
  OBVIOUS
<1> DEFINE hit == Find(map[0], TheirHash(k))
<1>1. /\ UNCHANGED <<inst, nt, mal, rpc, buf, map, open>> /\ rpc = "find" /\ open /\ TheirsIn
      /\ nt = 1 /\ mal \in BOOLEAN /\ Threads = {0} /\ out \in Seq(Rows) /\ at \in [Threads -> 0..SendSize]
      /\ out' = IF hit = {} THEN out ELSE Append(out, CHOOSE i \in hit : TRUE)
      /\ at' = [at EXCEPT ![0] = @ + 1] /\ k < SendSize /\ k \in 0..SendSize
      /\ map[0] = {[key |-> MyKey(i), idx |-> i] : i \in Firsts} /\ Tally(k)
  BY <1>0, ZeroThread DEF SingleInv, SingleTypes, RFind
<1>2. SendSize \in Nat /\ RecvSize \in Nat /\ k \in Ours /\ k \in Nat /\ at'[0] = k + 1 /\ at' \in [Threads -> 0..SendSize]
  <2>1. SendSize \in Nat /\ RecvSize \in Nat
    BY RsPsiAssumption
  <2>2. k + 1 \in 0..SendSize
    BY <1>1, <2>1
  <2> QED BY <1>0, <1>1, <2>1, <2>2 DEF Ours
<1>3. hit = {i \in Firsts : MyKey(i) = TheirKey(k)}
  <2>1. TheirHash(k) = TheirKey(k)
    BY <1>1, <1>2, TheirsRead
  <2> QED BY <1>1, <2>1, FoundAt
<1>4. \A i, j \in Firsts : MyKey(i) = MyKey(j) => i = j
  <2> TAKE i, j \in Firsts
  <2>1. i \in Nat /\ j \in Nat
    BY <1>2 DEF Firsts, Rows
  <2>2. i < j => i \in 0..j - 1
    BY <2>1
  <2>3. j < i => j \in 0..i - 1
    BY <2>1
  <2> QED BY <2>1, <2>2, <2>3 DEF Firsts
<1> HIDE DEF hit
<1>5. out' \in Seq(Rows) /\ Tally(k + 1)'
  <2>1. ASSUME NEW i \in Rows PROVE Times(i, k + 1) = Times(i, k) + (IF i \in hit THEN 1 ELSE 0) /\ Times(i, k) \in Nat
    <3>1. /\ Cardinality(Askers(i, k)) \in Nat
          /\ Cardinality(Askers(i, k + 1)) = Cardinality(Askers(i, k)) + (IF TheirKey(k) = MyKey(i) THEN 1 ELSE 0)
      BY <1>2, AskersGrow
    <3>2. CASE i \in Firsts
      <4>1. i \in hit <=> TheirKey(k) = MyKey(i)
        BY <1>3, <3>2
      <4> QED BY <3>1, <3>2, <4>1 DEF Times
    <3>3. CASE i \notin Firsts
      <4>1. i \notin hit
        BY <1>3, <3>3
      <4> QED BY <3>3, <4>1 DEF Times
    <3> QED BY <3>2, <3>3
  <2>2. CASE hit = {}
    <3>1. out' = out
      BY <1>1, <2>2
    <3>2. ASSUME NEW i \in Rows PROVE Count(out, i) = Times(i, k + 1)
      <4>1. Count(out, i) = Times(i, k)
        BY <1>1 DEF Tally
      <4>2. Times(i, k + 1) = Times(i, k)
        BY <2>1, <2>2
      <4> QED BY <4>1, <4>2
    <3> QED BY <1>1, <3>1, <3>2, RigidRows DEF Tally
  <2>3. CASE hit # {}
    <3>1. PICK e : e = CHOOSE i \in hit : TRUE
      OBVIOUS
    <3>2. hit = {e} /\ e \in Rows
      <4>1. e \in hit
        BY <2>3, <3>1
      <4>2. \A i \in hit : i \in Firsts /\ MyKey(i) = TheirKey(k)
        BY <1>3
      <4>3. \A i \in hit : i = e
        BY <1>4, <4>1, <4>2
      <4>4. e \in Rows
        BY <4>1, <4>2 DEF Firsts
      <4> QED BY <4>1, <4>3, <4>4
    <3>3. PICK q : q = Append(out, e)
      OBVIOUS
    <3>4. out' = q
      BY <1>1, <2>3, <3>1, <3>3
    <3>5. q \in Seq(Rows)
      BY <1>1, <3>2, <3>3, AppendIn
    <3>6. ASSUME NEW i \in Rows PROVE Count(q, i) = Times(i, k + 1)
      <4>1. Count(out, i) = Times(i, k)
        BY <1>1 DEF Tally
      <4>2. Count(q, i) = Count(out, i) + (IF i = e THEN 1 ELSE 0)
        BY <1>1, <3>2, <3>3, CountAppend
      <4>3. Times(i, k + 1) = Times(i, k) + (IF i = e THEN 1 ELSE 0)
        BY <2>1, <3>2
      <4> QED BY <4>1, <4>2, <4>3
    <3> QED BY <1>1, <3>4, <3>5, <3>6, RigidRows DEF Tally
  <2> QED BY <2>2, <2>3
<1>6. PICK n : n = k + 1
  OBVIOUS
<1>7. Tally(n)' /\ at'[0] = n
  BY <1>2, <1>5, <1>6
<1>8. SingleTypes'
  BY <1>1, <1>2, <1>5, RigidRows DEF SingleInv, SingleTypes
<1>9. TheirsIn'
  BY <1>1, RigidRows DEF TheirsIn
<1>10. {[key |-> MyKey(i), idx |-> i] : i \in Firsts}' = {[key |-> MyKey(i), idx |-> i] : i \in Firsts}
  BY <1>1, RigidRows
<1>11. map'[0] = {[key |-> MyKey(i), idx |-> i] : i \in Firsts}'
  BY <1>1, <1>10
<1> QED BY <1>1, <1>7, <1>8, <1>9, <1>11 DEF SingleInv

LEMMA FoundSingle == ASSUME SingleInv, RFound PROVE SingleInv'
<1>1. /\ UNCHANGED <<inst, nt, mal, buf, at, map, open, out>> /\ rpc = "find" /\ rpc' = "done" /\ at[0] = SendSize
      /\ open /\ TheirsIn
  BY DEF SingleInv, SingleTypes, RFound
<1>2. Tally(SendSize)'
  BY <1>1, RigidRows DEF SingleInv, Tally
<1>3. SingleTypes'
  BY <1>1, RigidRows DEF SingleInv, SingleTypes
<1>4. TheirsIn'
  BY <1>1, RigidRows DEF TheirsIn
<1> QED BY <1>1, <1>2, <1>3, <1>4 DEF SingleInv

LEMMA SingleStep ==
  ASSUME PackInv, SingleInv, Sender \/ Receiver \/ (\E t \in Threads : Thread(t))
  PROVE  SingleInv'
<1>1. nt = 1 /\ rpc # "join"
  BY DEF SingleInv, SingleTypes
<1>2. CASE Sender
  BY <1>2, SingleKept DEF Sender, SEval, SPack, SSend
<1>3. CASE Receiver
  <2>1. ~RSpawn /\ ~RJoin
    BY <1>1 DEF RSpawn, RJoin
  <2> QED BY <1>3, <2>1, InsertSingle, RecvSingle, FindSingle, FoundSingle DEF Receiver
<1>4. CASE \E t \in Threads : Thread(t)
  <2>1. \A t : ~Running(t)
    BY <1>1 DEF Running
  <2> QED BY <1>4, <2>1 DEF Thread, TBuild, TBuilt, TPass, TStart, TFind, TMerge
<1> QED BY <1>2, <1>3, <1>4

(***************************************************************************)
(* The invariant of the parties around it.                                 *)
(***************************************************************************)
Phases == {"read", "connect", "check", "sizes", "init", "psi", "done", "failed"}
PartyInv(r) ==
  /\ set[r] \in {Absent, Elem(job, r)}
  /\ fpc[r] = "read" => set[r] = Absent
  /\ fpc[r] \notin {"read", "failed"} => set[r] # Absent
  /\ fpc[r] \in {"psi", "done"} => fpc[Peer(r)] \in {"psi", "done"}
Parties ==
  /\ fpc \in [Roles -> Phases] /\ set = [r \in Roles |-> set[r]]
  /\ \A r \in Roles : PartyInv(r)
Written ==
  fpc["receiver"] = "done" =>
    /\ rpc = "done"
    /\ ~job.noSort => Sorted(out)
    /\ output = IF job.indexOnly THEN out
                ELSE [k \in DOMAIN out |-> RowAt(job.ft, job.file["receiver"], out[k])]
FileInv ==
  /\ job \in Jobs \cup {Api} /\ PackInv
  /\ job # Api => job \in Jobs /\ inst = InstanceOf(job) /\ SingleInv /\ Parties /\ Written

LEMMA StartPack == Start => PackInv
  BY RsPsiAssumption DEF Start, PackInv, PackedWhole

LEMMA FileInitInv == FileInit => FileInv
<1> SUFFICES ASSUME FileInit PROVE FileInv
  OBVIOUS
<1>1. job \in Jobs \cup {Api} /\ PackInv /\ Start
  BY StartPack DEF FileInit
<1>2. CASE job = Api
  BY <1>1, <1>2 DEF FileInv
<1>3. CASE job # Api
  <2>1. job \in Jobs /\ inst = InstanceOf(job) /\ nt = 1
    BY <1>3 DEF FileInit
  <2>2. SingleInv
    BY <1>1, <2>1, StartSingle
  <2>3. fpc = [r \in Roles |-> "read"] /\ set = [r \in Roles |-> Absent]
    BY <1>3 DEF FileInit
  <2>4. Parties /\ Written
    BY <2>3 DEF Parties, PartyInv, Written, Phases, Roles
  <2> QED BY <1>1, <2>1, <2>2, <2>4 DEF FileInv
<1> QED BY <1>2, <1>3

LEMMA ElemThere == ASSUME NEW j \in Jobs, NEW r \in Roles PROVE Elem(j, r) # Absent
  BY FilePsiAssumption DEF Elem

LEMMA PeerIs ==
  /\ "sender" \in Roles /\ "receiver" \in Roles /\ "sender" # "receiver"
  /\ Peer("sender") = "receiver" /\ Peer("receiver") = "sender"
  /\ \A r \in Roles : r = "sender" \/ r = "receiver"
  BY DEF Roles, Peer

\* What a party does outside of run().
Outside(r) == ReadSet(r) \/ ReadThrows(r) \/ TellSize(r) \/ OwnSizeThrows(r) \/ HearSize(r) \/ PeerGone(r)
LEMMA OutsideMoves ==
  ASSUME NEW r \in Roles, Outside(r)
  PROVE  /\ job' = job /\ job # Api /\ UNCHANGED <<vars, output>>
         /\ \E to \in {"connect", "sizes", "init", "failed"} : fpc' = [fpc EXCEPT ![r] = to]
         /\ fpc[r] \in {"read", "check", "sizes", "init"}
         /\ set' = IF ReadSet(r) THEN [set EXCEPT ![r] = Elem(job, r)] ELSE set
         /\ ReadSet(r) => fpc' = [fpc EXCEPT ![r] = "connect"] /\ fpc[r] = "read"
         /\ ~ReadSet(r) => \E to \in {"sizes", "init", "failed"} :
                              fpc' = [fpc EXCEPT ![r] = to] /\ (to # "failed" => fpc[r] # "read")
<1>1. CASE ReadSet(r)
  BY <1>1 DEF ReadSet, At, Go, Elem
<1>2. CASE ~ReadSet(r)
  <2>1. CASE ReadThrows(r)
    BY <1>2, <2>1 DEF ReadThrows, At, Go
  <2>2. CASE TellSize(r)
    BY <1>2, <2>2 DEF TellSize, At, Go
  <2>3. CASE OwnSizeThrows(r)
    BY <1>2, <2>3 DEF OwnSizeThrows, At, Go
  <2>4. CASE HearSize(r)
    BY <1>2, <2>4 DEF HearSize, At, Go
  <2>5. CASE PeerGone(r)
    BY <1>2, <2>5 DEF PeerGone, Go
  <2> QED BY <1>2, <2>1, <2>2, <2>3, <2>4, <2>5 DEF Outside
<1> QED BY <1>1, <1>2

LEMMA OutsideInv ==
  ASSUME job \in Jobs, Parties, Written, NEW r \in Roles, Outside(r)
  PROVE  Parties' /\ Written'
<1>1. /\ job' = job /\ UNCHANGED <<rpc, out, output>> /\ fpc[r] \in {"read", "check", "sizes", "init"}
      /\ set' = IF ReadSet(r) THEN [set EXCEPT ![r] = Elem(job, r)] ELSE set
      /\ ReadSet(r) => fpc[r] = "read"
  BY OutsideMoves DEF vars
<1>2. PICK to \in {"connect", "sizes", "init", "failed"} :
        /\ fpc' = [fpc EXCEPT ![r] = to]
        /\ ~ReadSet(r) /\ to # "failed" => fpc[r] # "read"
  BY OutsideMoves
<1>3. fpc \in [Roles -> Phases] /\ set = [q \in Roles |-> set[q]] /\ \A q \in Roles : PartyInv(q)
  BY DEF Parties
<1>4. to \in Phases /\ to \notin {"read", "psi", "done"}
  BY DEF Phases
<1>5. fpc' \in [Roles -> Phases] /\ fpc'[r] = to /\ \A q \in Roles : q # r => fpc'[q] = fpc[q]
  BY <1>2, <1>3, <1>4
<1>6. /\ set' = [q \in Roles |-> set'[q]]
      /\ set'[r] = IF ReadSet(r) THEN Elem(job, r) ELSE set[r]
      /\ \A q \in Roles : q # r => set'[q] = set[q]
  <2>1. CASE ReadSet(r)
    BY <1>1, <1>3, <2>1
  <2>2. CASE ~ReadSet(r)
    BY <1>1, <1>3, <2>2
  <2> QED BY <2>1, <2>2
<1>7. ASSUME NEW q \in Roles PROVE PartyInv(q)'
  <2>1. PartyInv(q) /\ PartyInv(Peer(q)) /\ Peer(q) \in Roles /\ Peer(Peer(q)) = q
    BY <1>3, PeerIs
  <2>2. Elem(job, q)' = Elem(job, q) /\ Elem(job, q) # Absent
    BY <1>1, ElemThere DEF Elem
  <2>3. CASE q = r
    <3>1. set'[q] \in {Absent, Elem(job, q)}
      BY <1>6, <2>1, <2>3 DEF PartyInv
    <3>2. fpc'[q] # "failed" => set'[q] # Absent
      BY <1>1, <1>2, <1>5, <1>6, <2>1, <2>2, <2>3 DEF PartyInv
    <3> QED BY <1>4, <1>5, <2>2, <2>3, <3>1, <3>2 DEF PartyInv
  <2>4. CASE q # r
    <3>1. Peer(q) = r
      BY <2>4, PeerIs
    <3>2. fpc[q] \notin {"psi", "done"}
      BY <1>1, <2>1, <3>1 DEF PartyInv
    <3> QED BY <1>5, <1>6, <2>1, <2>2, <2>4, <3>2 DEF PartyInv
  <2> QED BY <2>3, <2>4
<1>8. fpc'["receiver"] = "done" => fpc["receiver"] = "done"
  BY <1>4, <1>5, PeerIs
<1>9. Written'
  BY <1>1, <1>8 DEF Written
<1> QED BY <1>5, <1>6, <1>7, <1>9 DEF Parties

LEMMA JointInv ==
  ASSUME job \in Jobs, Parties, Written, Connect \/ Oprf
  PROVE  Parties' /\ Written'
<1>1. /\ job' = job /\ set' = set /\ UNCHANGED <<rpc, out, output>>
      /\ \A r \in Roles : fpc[r] \in {"connect", "init"}
      /\ fpc' = [r \in Roles |-> "check"] \/ fpc' = [r \in Roles |-> "psi"]
  BY DEF Connect, Oprf, At, vars
<1>2. fpc' \in [Roles -> Phases] /\ \A r \in Roles : fpc'[r] \in {"check", "psi"} /\ fpc'[r] = fpc'[Peer(r)]
  BY <1>1, PeerIs DEF Phases
<1>3. ASSUME NEW r \in Roles PROVE PartyInv(r)'
  BY <1>1, <1>2, <1>3 DEF Parties, PartyInv, Elem
<1>4. Written'
  BY <1>2, PeerIs DEF Written
<1> QED BY <1>1, <1>2, <1>3, <1>4 DEF Parties

LEMMA SenderDoneInv ==
  ASSUME job \in Jobs, Parties, Written, SenderDone
  PROVE  Parties' /\ Written'
<1>1. /\ job' = job /\ set' = set /\ UNCHANGED <<rpc, out, output>>
      /\ fpc["sender"] = "psi" /\ fpc' = [fpc EXCEPT !["sender"] = "done"]
  BY DEF SenderDone, At, Go, vars
<1>2. fpc' \in [Roles -> Phases] /\ fpc'["sender"] = "done" /\ fpc'["receiver"] = fpc["receiver"]
  BY <1>1, PeerIs DEF Parties, Phases
<1>3. ASSUME NEW r \in Roles PROVE PartyInv(r)'
  <2>1. fpc["receiver"] \in {"psi", "done"}
    BY <1>1, PeerIs DEF Parties, PartyInv
  <2> QED BY <1>1, <1>2, <1>3, <2>1, PeerIs DEF Parties, PartyInv, Elem
<1>4. Written'
  BY <1>1, <1>2 DEF Written
<1> QED BY <1>1, <1>2, <1>3, <1>4 DEF Parties

\* counting_sort changes the order of the indices, and nothing else.
LEMMA WriteInv ==
  ASSUME job \in Jobs, SingleInv, Parties, WriteOutput
  PROVE  SingleInv' /\ Parties' /\ Written'
<1>1. /\ UNCHANGED <<job, set, inst, nt, mal, rpc, buf, at, map, open>>
      /\ fpc["receiver"] = "psi" /\ rpc = "done" /\ fpc' = [fpc EXCEPT !["receiver"] = "done"]
      /\ out' = IF job.noSort THEN out ELSE CountingSort(out, Len(set["receiver"]))
      /\ output' = IF job.indexOnly THEN out'
                   ELSE [k \in DOMAIN out' |-> RowAt(job.ft, job.file["receiver"], out'[k])]
  BY DEF WriteOutput, At, Go
<1>2. fpc' \in [Roles -> Phases] /\ fpc'["receiver"] = "done" /\ fpc'["sender"] = fpc["sender"]
  BY <1>1, PeerIs DEF Parties, Phases
<1>3. ASSUME NEW r \in Roles PROVE PartyInv(r)'
  <2>1. fpc["sender"] \in {"psi", "done"}
    BY <1>1, PeerIs DEF Parties, PartyInv
  <2> QED BY <1>1, <1>2, <1>3, <2>1, PeerIs DEF Parties, PartyInv, Elem
<1>4. Parties'
  BY <1>1, <1>2, <1>3 DEF Parties
<1>5. Len(set["receiver"]) = RecvSize /\ RecvSize \in Nat
  <2>1. set["receiver"] = Elem(job, "receiver")
    BY <1>1, PeerIs DEF Parties, PartyInv
  <2> QED BY <2>1, FilePsiAssumption, RsPsiAssumption DEF Elem
<1>6. out \in Seq(Rows) /\ Tally(SendSize) /\ open /\ TheirsIn /\ SingleTypes
  BY <1>1 DEF SingleInv, SingleTypes
<1>7. out' \in Seq(Rows) /\ (~job.noSort => Sorted(out')) /\ \A i \in Rows : Count(out', i) = Count(out, i)
  <2>1. CASE job.noSort
    BY <1>1, <1>6, <2>1
  <2>2. CASE ~job.noSort
    <3>1. PlacedBelow(CountingSort(out, RecvSize), out, RecvSize)
      BY <1>5, <1>6, CountingSortIs DEF Rows
    <3> QED BY <1>1, <1>5, <2>2, <3>1 DEF PlacedBelow, Rows
  <2> QED BY <2>1, <2>2
<1>8. Tally(SendSize)'
  BY <1>1, <1>6, <1>7, RigidRows DEF Tally
<1>9. SingleTypes'
  BY <1>1, <1>6, <1>7, RigidRows DEF SingleTypes
<1>10. TheirsIn'
  BY <1>1, <1>6, RigidRows DEF TheirsIn
<1>11. SingleInv'
  BY <1>1, <1>8, <1>9, <1>10 DEF SingleInv
<1>12. Sorted(out)' <=> Sorted(out')
  BY DEF Sorted
<1>13. Written'
  BY <1>1, <1>7, <1>12 DEF Written
<1> QED BY <1>4, <1>11, <1>13

LEMMA RunInv ==
  ASSUME job \in Jobs, PackInv, SingleInv, Parties, Written, UNCHANGED fileVars,
         Sender \/ Receiver \/ (\E t \in Threads : Thread(t))
  PROVE  SingleInv' /\ Parties' /\ Written'
<1>1. SingleInv'
  BY SingleStep
<1>2. job' = job /\ fpc' = fpc /\ set' = set /\ output' = output
  BY DEF fileVars
<1>3. Parties'
  BY <1>2 DEF Parties, PartyInv, Elem
<1>4. rpc = "done" => rpc' = rpc /\ out' = out
  <2>1. CASE Sender
    BY <2>1 DEF Sender, SEval, SPack, SSend, receiver
  <2>2. CASE Receiver
    BY <2>2 DEF Receiver, RInsert, RFind, RFound, RSpawn, RRecv, RJoin
  <2>3. CASE \E t \in Threads : Thread(t)
    <3>1. nt = 1
      BY DEF SingleInv, SingleTypes
    <3>2. \A t : ~Running(t)
      BY <3>1 DEF Running
    <3> QED BY <2>3, <3>2 DEF Thread, TBuild, TBuilt, TPass, TStart, TFind, TMerge
  <2> QED BY <2>1, <2>2, <2>3
<1>5. Written'
  BY <1>2, <1>4 DEF Written
<1> QED BY <1>1, <1>3, <1>5

LEMMA FileKept == ASSUME FileInv, UNCHANGED allVars PROVE FileInv'
<1>1. /\ UNCHANGED <<inst, nt, mal, sender, receiver, job, fpc, set, output>>
      /\ UNCHANGED <<rpc, out>>
  BY DEF allVars, vars, fileVars, sender, receiver
<1>2. PackInv'
  BY <1>1, PackKept DEF FileInv
<1>3. SingleInv => SingleInv'
  BY <1>1, SingleKept
<1>4. InstanceOf(job)' = InstanceOf(job)
  BY <1>1 DEF InstanceOf
<1>5. Parties => Parties'
  BY <1>1 DEF Parties, PartyInv, Elem
<1>6. Written => Written'
  BY <1>1 DEF Written
<1> QED BY <1>1, <1>2, <1>3, <1>4, <1>5, <1>6 DEF FileInv

\* Every step of the program is one of these, and leaves the job alone.
LEMMA FileSteps ==
  ASSUME [FileNext]_allVars
  PROVE  /\ job' = job
         /\ \/ UNCHANGED allVars
            \/ job # Api /\ UNCHANGED vars /\ (Connect \/ Oprf \/ (\E r \in Roles : Outside(r)) \/ SenderDone)
            \/ job # Api /\ WriteOutput
            \/ UNCHANGED fileVars /\ (Sender \/ Receiver \/ (\E t \in Threads : Thread(t)))
<1>1. CASE Connect \/ Oprf
  BY <1>1, PeerIs DEF Connect, Oprf, At
<1>2. CASE \E r \in Roles : Party(r)
  <2>1. PICK r \in Roles : Party(r)
    BY <1>2
  <2>2. CASE Outside(r)
    BY <2>2, OutsideMoves
  <2>3. CASE SenderDone
    BY <2>3 DEF SenderDone, At
  <2>4. CASE WriteOutput
    BY <2>4 DEF WriteOutput, At
  <2> QED BY <2>1, <2>2, <2>3, <2>4 DEF Party, Outside
<1>3. CASE RunSender \/ RunReceiver \/ \E t \in Threads : RunThread(t)
  BY <1>3 DEF RunSender, RunReceiver, RunThread, fileVars
<1>4. CASE Stopped \/ UNCHANGED allVars
  BY <1>4 DEF Stopped, allVars, fileVars
<1> QED BY <1>1, <1>2, <1>3, <1>4 DEF FileNext

LEMMA FileStep == ASSUME PackRoom, FileInv, [FileNext]_allVars PROVE FileInv'
<1>1. job' = job /\ job \in Jobs \cup {Api} /\ PackInv
  BY FileSteps DEF FileInv
<1>2. CASE UNCHANGED allVars
  BY <1>2, FileKept
<1>3. CASE job # Api /\ UNCHANGED vars /\ (Connect \/ Oprf \/ (\E r \in Roles : Outside(r)) \/ SenderDone)
  <2>1. job \in Jobs /\ inst = InstanceOf(job) /\ SingleInv /\ Parties /\ Written
    BY <1>3 DEF FileInv
  <2>2. Parties' /\ Written'
    BY <1>3, <2>1, JointInv, OutsideInv, SenderDoneInv
  <2>3. UNCHANGED <<inst, nt, mal, sender, receiver>>
    BY <1>3 DEF vars, sender, receiver
  <2>4. SingleInv' /\ PackInv'
    BY <1>1, <2>1, <2>3, SingleKept, PackKept
  <2>5. inst' = InstanceOf(job)'
    BY <1>1, <2>1, <2>3 DEF InstanceOf
  <2> QED BY <1>1, <2>1, <2>2, <2>4, <2>5 DEF FileInv
<1>4. CASE job # Api /\ WriteOutput
  <2>1. job \in Jobs /\ inst = InstanceOf(job) /\ SingleInv /\ Parties /\ Written
    BY <1>4 DEF FileInv
  <2>2. SingleInv' /\ Parties' /\ Written'
    BY <1>4, <2>1, WriteInv
  <2>3. UNCHANGED <<inst, mal, sender>>
    BY <1>4 DEF WriteOutput
  <2>4. PackInv'
    BY <1>1, <2>3, PackKept
  <2>5. inst' = InstanceOf(job)'
    BY <1>1, <2>1, <2>3 DEF InstanceOf
  <2> QED BY <1>1, <2>1, <2>2, <2>4, <2>5 DEF FileInv
<1>5. CASE UNCHANGED fileVars /\ (Sender \/ Receiver \/ (\E t \in Threads : Thread(t)))
  <2>1. PackInv'
    BY <1>1, <1>5, PackStep DEF Next
  <2>2. CASE job = Api
    BY <1>1, <2>1, <2>2 DEF FileInv
  <2>3. CASE job # Api
    <3>1. job \in Jobs /\ inst = InstanceOf(job) /\ SingleInv /\ Parties /\ Written
      BY <2>3 DEF FileInv
    <3>2. SingleInv' /\ Parties' /\ Written'
      BY <1>1, <1>5, <3>1, RunInv
    <3>3. inst' = inst
      BY <1>5 DEF Sender, SEval, SPack, SSend, Receiver, RInsert, RFind, RFound, RSpawn, RRecv, RJoin,
                  Thread, TBuild, TBuilt, TPass, TStart, TFind, TMerge
    <3>4. inst' = InstanceOf(job)'
      BY <1>1, <3>1, <3>3 DEF InstanceOf
    <3> QED BY <1>1, <2>1, <3>1, <3>2, <3>4 DEF FileInv
  <2> QED BY <2>2, <2>3
<1> QED BY <1>2, <1>3, <1>4, <1>5, FileSteps

(***************************************************************************)
(* What the receiver has written.                                          *)
(***************************************************************************)
\* How often an element of the receiver is in the output.
LEMMA TimesAre ==
  ASSUME OprfApart, job \in Jobs, inst = InstanceOf(job), mal \in BOOLEAN, NEW i \in Rows
  PROVE  LET mine == Elem(job, "receiver")
             theirs == Elem(job, "sender")
         IN  /\ i \in Firsts <=> \A h \in 1..i : mine[h] # mine[i + 1]
             /\ Cardinality({k \in DOMAIN theirs : theirs[k] = mine[i + 1]}) = Cardinality(Askers(i, SendSize))
             /\ \A k \in Ours : k \in Askers(i, SendSize) <=> theirs[k + 1] = mine[i + 1]
             /\ IsFiniteSet(Askers(i, SendSize))
<1> DEFINE mine == Elem(job, "receiver")
           theirs == Elem(job, "sender")
           A == Askers(i, SendSize)
           B == {k \in DOMAIN theirs : theirs[k] = mine[i + 1]}
<1>1. RecvSize \in Nat /\ SendSize \in Nat /\ i \in Nat /\ DOMAIN theirs = 1..SendSize
  BY RsPsiAssumption, ElementsIs, PeerIs DEF Rows, SizeOf
<1>2. /\ \A h \in Rows : (MyKey(h) = MyKey(i)) = (mine[h + 1] = mine[i + 1])
      /\ \A k \in Ours : (TheirKey(k) = MyKey(i)) = (theirs[k + 1] = mine[i + 1])
  BY KeysAre
<1> HIDE DEF mine, theirs
<1>3. i \in Firsts <=> \A h \in 1..i : mine[h] # mine[i + 1]
  <2>1. \A h \in 0..i - 1 : h \in Rows /\ h + 1 \in 1..i
    BY <1>1 DEF Rows
  <2>2. \A h \in 1..i : h - 1 \in 0..i - 1 /\ (h - 1) + 1 = h
    BY <1>1
  <2>3. i \in Firsts <=> \A h \in 0..i - 1 : mine[h + 1] # mine[i + 1]
    BY <1>2, <2>1 DEF Firsts
  <2>4. (\A h \in 0..i - 1 : mine[h + 1] # mine[i + 1]) <=> (\A h \in 1..i : mine[h] # mine[i + 1])
    BY <2>1, <2>2
  <2> QED BY <2>3, <2>4
<1>4. \A k \in Ours : k \in A <=> theirs[k + 1] = mine[i + 1]
  BY <1>2 DEF Askers, Ours
<1>5. A \subseteq Ours
  BY DEF Askers, Ours
<1>6. IsFiniteSet(A)
  <2>1. IsFiniteSet(Ours)
    BY <1>1, FS_Interval DEF Ours
  <2> QED BY <1>5, <2>1, FS_Subset
<1>7. Cardinality(A) = Cardinality(B)
  <2> DEFINE f == [k \in A |-> k + 1]
  <2>1. \A k \in Ours : k \in Int /\ k + 1 \in 1..SendSize
    BY <1>1 DEF Ours
  <2>2. \A k \in 1..SendSize : k - 1 \in Ours /\ (k - 1) + 1 = k
    BY <1>1 DEF Ours
  <2>3. B = {k \in 1..SendSize : theirs[k] = mine[i + 1]}
    BY <1>1
  <2> HIDE DEF A, B
  <2>4. f \in [A -> B]
    BY <1>4, <1>5, <2>1, <2>3
  <2>5. \A a, b \in A : f[a] = f[b] => a = b
    BY <1>5, <2>1
  <2>6. \A b \in B : \E a \in A : f[a] = b
    <3> TAKE b \in B
    <3>1. b \in 1..SendSize /\ theirs[b] = mine[i + 1]
      BY <2>3
    <3>2. b - 1 \in A /\ (b - 1) + 1 = b
      BY <1>4, <2>2, <3>1
    <3> QED BY <3>2
  <2>7. f \in Bijection(A, B)
    <3> HIDE DEF f
    <3> QED BY <2>4, <2>5, <2>6 DEF Bijection, Injection, Surjection, IsInjective
  <2> QED BY <1>6, <2>7, FS_Bijection DEF ExistsBijection
<1> QED BY <1>3, <1>4, <1>6, <1>7 DEF mine, theirs, A, B

LEMMA DoneInOrder == ASSUME OprfApart, FileInv PROVE OutputInOrder
<1> SUFFICES ASSUME job # Api, fpc["receiver"] = "done" PROVE OutputInOrder
  BY DEF OutputInOrder
<1> DEFINE mine == Elem(job, "receiver")
           theirs == Elem(job, "sender")
           first == {i \in DOMAIN mine : \A h \in 1..i - 1 : mine[h] # mine[i]}
           T(i) == IF i \in first THEN Cardinality({k \in DOMAIN theirs : theirs[k] = mine[i]}) ELSE 0
<1>1. /\ job \in Jobs /\ inst = InstanceOf(job) /\ SingleInv /\ Written /\ mal \in BOOLEAN
      /\ out \in Seq(Rows) /\ rpc = "done" /\ Tally(SendSize) /\ (~job.noSort => Sorted(out))
      /\ output = IF job.indexOnly THEN out
                  ELSE [k \in DOMAIN out |-> RowAt(job.ft, job.file["receiver"], out[k])]
  BY DEF FileInv, SingleInv, SingleTypes, Written
<1>2. DOMAIN mine = 1..RecvSize /\ RecvSize \in Nat
  BY <1>1, ElementsIs, PeerIs, RsPsiAssumption DEF SizeOf
<1>3. ASSUME NEW i \in DOMAIN mine PROVE Count(out, i - 1) = T(i)
  <2>1. PICK h : h = i - 1 /\ h \in Rows /\ h + 1 = i
    BY <1>2, <1>3 DEF Rows
  <2>2. /\ h \in Firsts <=> \A g \in 1..h : mine[g] # mine[h + 1]
        /\ Cardinality({k \in DOMAIN theirs : theirs[k] = mine[h + 1]}) = Cardinality(Askers(h, SendSize))
    BY <1>1, <2>1, TimesAre
  <2>3. Count(out, h) = IF h \in Firsts THEN Cardinality(Askers(h, SendSize)) ELSE 0
    BY <1>1, <2>1 DEF Tally, Times
  <2> HIDE DEF mine, theirs
  <2>4. h \in Firsts <=> i \in first
    BY <1>3, <2>1, <2>2
  <2> QED BY <2>1, <2>2, <2>3, <2>4
<1>4. ASSUME NEW k \in DOMAIN out
      PROVE  output[k] = IF job.indexOnly THEN out[k]
                         ELSE IF job.ft = "bin" THEN mine[out[k] + 1].is
                         ELSE GetLines(job.file["receiver"])[out[k] + 1]
  <2>1. out[k] \in Rows
    <3>1. DOMAIN out = 1..Len(out)
      BY <1>1
    <3> QED BY <1>1, <1>4, <3>1
  <2>2. RowAt(job.ft, job.file["receiver"], out[k]) =
          IF job.ft = "bin" THEN mine[out[k] + 1].is ELSE GetLines(job.file["receiver"])[out[k] + 1]
    <3>1. out[k] \in 0..SizeOf("receiver") - 1
      BY <2>1, PeerIs DEF SizeOf, Rows
    <3> QED BY <1>1, <3>1, RowIs, PeerIs
  <2> HIDE DEF mine
  <2> QED BY <1>1, <1>4, <2>2
<1>5. ~job.noSort => \A k \in 1..Len(out) - 1 : out[k] <= out[k + 1]
  BY <1>1 DEF Sorted
<1> QED BY <1>3, <1>4, <1>5 DEF OutputInOrder, Elem

\* The output file is in the order of the input (indices, elements or rows of the
\* file), every row the sender has once, as often as the sender has it: for every
\* file, order of steps and option.
THEOREM OutputInOrderHolds ==
  ASSUME PackRoom, OprfApart
  PROVE  FileSpec => []OutputInOrder
<1>1. FileInit => FileInv
  BY FileInitInv
<1>2. FileInv /\ [FileNext]_allVars => FileInv'
  BY FileStep
<1>3. FileInv => OutputInOrder
  BY DoneInOrder
<1> QED BY <1>1, <1>2, <1>3, PTL DEF FileSpec

(***************************************************************************)
(* FilePsi implements IdealPsi.                                            *)
(***************************************************************************)
Shared(j) == ToSet(Elem(j, "sender")) \cap ToSet(Elem(j, "receiver"))
ReadBackOk == job # Api /\ fpc["receiver"] = "done" => ReadBack = Shared(job)

LEMMA ReadBackIs == ASSUME OprfApart, FileInv PROVE ReadBackOk
<1> SUFFICES ASSUME job # Api, fpc["receiver"] = "done" PROVE ReadBack = Shared(job)
  BY DEF ReadBackOk
<1> DEFINE mine == Elem(job, "receiver")
           theirs == Elem(job, "sender")
<1>1. /\ job \in Jobs /\ inst = InstanceOf(job) /\ mal \in BOOLEAN /\ PartyInv("receiver")
      /\ out \in Seq(Rows) /\ Tally(SendSize)
      /\ output = IF job.indexOnly THEN out
                  ELSE [k \in DOMAIN out |-> RowAt(job.ft, job.file["receiver"], out[k])]
  BY PeerIs DEF FileInv, SingleInv, SingleTypes, Parties, Written
<1>2. /\ DOMAIN mine = 1..RecvSize /\ DOMAIN theirs = 1..SendSize
      /\ RecvSize \in Nat /\ SendSize \in Nat /\ set["receiver"] = mine
  BY <1>1, ElementsIs, PeerIs, RsPsiAssumption DEF SizeOf, PartyInv
<1>3. \A k \in DOMAIN out : out[k] \in Rows
  <2>1. DOMAIN out = 1..Len(out)
    BY <1>1
  <2> QED BY <1>1, <2>1
<1>4. ReadBack = {mine[out[k] + 1] : k \in DOMAIN out}
  <2>1. DOMAIN output = DOMAIN out
    BY <1>1
  <2>2. ASSUME NEW k \in DOMAIN out
        PROVE  (IF job.indexOnly THEN set["receiver"][output[k] + 1]
                ELSE IF job.ft = "bin" THEN [kind |-> "block", is |-> output[k]] ELSE Element(output[k]))
               = mine[out[k] + 1]
    <3>1. CASE job.indexOnly
      BY <1>1, <1>2, <3>1
    <3>2. CASE ~job.indexOnly
      <4>1. out[k] \in 0..SizeOf("receiver") - 1
        BY <1>3, PeerIs DEF SizeOf, Rows
      <4>2. output[k] = RowAt(job.ft, job.file["receiver"], out[k])
        BY <1>1, <3>2
      <4>3. Parsed(job, output[k]) = mine[out[k] + 1]
        BY <1>1, <4>1, <4>2, RowIs, PeerIs
      <4> QED BY <3>2, <4>3 DEF Parsed
    <3> QED BY <3>1, <3>2
  <2> HIDE DEF mine
  <2> QED BY <2>1, <2>2 DEF ReadBack
\* A row is in the output if it is the first of its element and the sender has it.
<1>5. ASSUME NEW i \in Rows
      PROVE  (\E k \in DOMAIN out : out[k] = i) <=> i \in Firsts /\ \E k \in Ours : theirs[k + 1] = mine[i + 1]
  <2> DEFINE C == {k \in DOMAIN out : out[k] = i}
             A == Askers(i, SendSize)
  <2>1. /\ \A k \in Ours : k \in A <=> theirs[k + 1] = mine[i + 1]
        /\ IsFiniteSet(A)
    BY <1>1, TimesAre
  <2>2. A \subseteq Ours
    BY DEF Askers, Ours
  <2>3. Cardinality(C) = IF i \in Firsts THEN Cardinality(A) ELSE 0
    BY <1>1 DEF Tally, Times, Count
  <2>4. IsFiniteSet(C)
    <3>1. DOMAIN out = 1..Len(out) /\ Len(out) \in Nat
      BY <1>1
    <3>2. IsFiniteSet(DOMAIN out)
      BY <3>1, FS_Interval
    <3> QED BY <3>2, FS_Subset
  <2>5. (Cardinality(C) = 0 <=> C = {}) /\ (Cardinality(A) = 0 <=> A = {})
    BY <2>1, <2>4, FS_EmptySet
  <2>6. (\E k \in DOMAIN out : out[k] = i) <=> C # {}
    OBVIOUS
  <2>7. (\E k \in Ours : theirs[k + 1] = mine[i + 1]) <=> A # {}
    BY <2>1, <2>2
  <2> HIDE DEF C, A, mine, theirs
  <2>8. C # {} <=> i \in Firsts /\ A # {}
    BY <2>3, <2>5
  <2> QED BY <2>6, <2>7, <2>8
<1>6. ASSUME NEW e \in ReadBack PROVE e \in Shared(job)
  <2>1. PICK k \in DOMAIN out : e = mine[out[k] + 1]
    BY <1>4, <1>6
  <2>2. PICK i : i = out[k] /\ i \in Rows
    BY <1>3
  <2>3. PICK b \in Ours : theirs[b + 1] = mine[i + 1]
    BY <1>5, <2>2
  <2>4. i + 1 \in DOMAIN mine /\ b + 1 \in DOMAIN theirs
    <3> HIDE DEF mine, theirs
    <3> QED BY <1>2, <2>2 DEF Rows, Ours
  <2> HIDE DEF mine, theirs
  <2>5. e = mine[i + 1] /\ e = theirs[b + 1]
    BY <2>1, <2>2, <2>3
  <2>6. e \in ToSet(mine) /\ e \in ToSet(theirs)
    BY <2>4, <2>5 DEF ToSet
  <2> QED BY <2>6 DEF Shared, mine, theirs
<1>7. ASSUME NEW e \in Shared(job) PROVE e \in ReadBack
  <2>1. PICK a \in DOMAIN mine : mine[a] = e
    BY <1>7 DEF Shared, ToSet
  <2>2. PICK b \in DOMAIN theirs : theirs[b] = e
    BY <1>7 DEF Shared, ToSet
  <2> HIDE DEF mine, theirs
  <2>3. PICK c \in 1..RecvSize : mine[c] = e /\ \A h \in 1..RecvSize : mine[h] = e => c <= h
    <3> DEFINE T == {c \in 1..RecvSize : mine[c] = e}
    <3>1. a \in T /\ T \in SUBSET Nat
      BY <1>2, <2>1
    <3>2. PICK c \in T : \A h \in T : c <= h
      BY <3>1, LeastOf
    <3> QED BY <3>2
  <2>4. PICK i : i = c - 1 /\ i \in Rows /\ i + 1 = c /\ i \in Nat
    BY <1>2 DEF Rows
  <2>5. i \in Firsts
    <3>1. \A h \in 1..i : mine[h] # mine[i + 1]
      <4> TAKE h \in 1..i
      <4>1. h \in 1..RecvSize /\ ~(c <= h)
        BY <1>2, <2>4
      <4> QED BY <2>3, <2>4, <4>1
    <3> QED BY <1>1, <2>4, <3>1, TimesAre DEF mine
  <2>6. b - 1 \in Ours /\ (b - 1) + 1 = b
    BY <1>2 DEF Ours
  <2>7. theirs[(b - 1) + 1] = mine[i + 1]
    BY <2>2, <2>3, <2>4, <2>6
  <2>8. PICK k \in DOMAIN out : out[k] = i
    BY <1>5, <2>4, <2>5, <2>6, <2>7 DEF mine, theirs
  <2>9. e = mine[out[k] + 1]
    BY <2>3, <2>4, <2>8
  <2> QED BY <1>4, <2>9 DEF mine
<1> QED BY <1>6, <1>7

\* Sets of elements are neither open nor failed.
LEMMA SetsApart ==
  ASSUME NEW j \in Jobs
  PROVE  /\ Api # Absent /\ {} \notin {Api, Absent} /\ Shared(j) \notin {Api, Absent}
         /\ \A r \in Roles : ToSet(Elem(j, r)) \notin {Api, Absent} /\ Elem(j, r) # Absent
<1>1. \A r \in Roles : \A S \in SUBSET ToSet(Elem(j, r)) : S \notin {Api, Absent}
  BY FilePsiAssumption DEF Elem
<1>2. Shared(j) \subseteq ToSet(Elem(j, "sender"))
  BY DEF Shared
<1>3. {} \notin {Api, Absent} /\ Shared(j) \notin {Api, Absent}
  BY <1>1, <1>2, PeerIs
<1>4. \A r \in Roles : ToSet(Elem(j, r)) \notin {Api, Absent}
  BY <1>1
<1> QED BY <1>3, <1>4, ElemThere, FilePsiAssumption

\* A party that reads its set gives it; one that throws gives up, and its peer is not done.
LEMMA OutsideIdeal ==
  ASSUME job \in Jobs, Parties, NEW r \in Roles, Outside(r)
  PROVE  Ideal!Give \/ Ideal!GiveUp \/ UNCHANGED Ideal!ideal
<1> DEFINE p == Peer(r)
<1>1. /\ job' = job /\ job # Api /\ output' = output /\ fpc[r] \in {"read", "check", "sizes", "init"}
      /\ set' = IF ReadSet(r) THEN [set EXCEPT ![r] = Elem(job, r)] ELSE set
      /\ ReadSet(r) => fpc' = [fpc EXCEPT ![r] = "connect"] /\ fpc[r] = "read"
  BY OutsideMoves
<1>2. PICK to \in {"connect", "sizes", "init", "failed"} : fpc' = [fpc EXCEPT ![r] = to]
  BY OutsideMoves
<1>3. /\ fpc \in [Roles -> Phases] /\ set = [q \in Roles |-> set[q]] /\ PartyInv(r) /\ PartyInv(p)
      /\ p \in Roles /\ p # r /\ Peer(p) = r
  BY PeerIs DEF Parties
<1>4. fpc'[r] = to /\ fpc'[p] = fpc[p] /\ set'[p] = set[p] /\ fpc[p] \notin {"psi", "done"}
  <2>1. fpc'[r] = to /\ fpc'[p] = fpc[p]
    BY <1>2, <1>3
  <2>2. set'[p] = set[p]
    BY <1>1, <1>3
  <2>3. fpc[p] \notin {"psi", "done"}
    BY <1>1, <1>3 DEF PartyInv
  <2> QED BY <2>1, <2>2, <2>3
<1> HIDE DEF p
<1>5. /\ SetOf(p)' = SetOf(p) /\ Outcome(p)' = Outcome(p) /\ Outcome(p) \in {Api, Absent}
      /\ Outcome(r) = Api
  <2>1. SetOf(p)' = SetOf(p)
    BY <1>4 DEF SetOf
  <2>2. Outcome(p)' = Outcome(p) /\ Outcome(p) \in {Api, Absent}
    BY <1>1, <1>4 DEF Outcome
  <2>3. Outcome(r) = Api
    BY <1>1 DEF Outcome
  <2> QED BY <2>1, <2>2, <2>3
<1>6. CASE ReadSet(r)
  <2>1. SetOf(r) = Api
    BY <1>1, <1>3, <1>6 DEF PartyInv, SetOf
  <2>2. SetOf(r)' # Api
    <3>1. set'[r] = Elem(job, r)
      BY <1>1, <1>3, <1>6
    <3>2. Elem(job, r) # Absent /\ ToSet(Elem(job, r)) # Api
      BY SetsApart
    <3> QED BY <3>1, <3>2 DEF SetOf
  <2>3. Outcome(r)' = Api
    <3>1. fpc'[r] = "connect"
      BY <1>1, <1>3, <1>6
    <3> QED BY <1>1, <3>1 DEF Outcome
  <2> QED BY <1>3, <1>5, <2>1, <2>2, <2>3, PeerIs DEF Ideal!Give
<1>7. CASE ~ReadSet(r)
  <2>1. SetOf(r)' = SetOf(r)
    BY <1>1, <1>7 DEF SetOf
  <2>2. Outcome(r)' \in {Api, Absent}
    BY <1>1, <1>4 DEF Outcome
  <2>3. CASE Outcome(r)' = Api
    BY <1>3, <1>5, <2>1, <2>3, PeerIs DEF Ideal!ideal
  <2>4. CASE Outcome(r)' = Absent
    BY <1>3, <1>5, <2>1, <2>4, PeerIs DEF Ideal!GiveUp
  <2> QED BY <2>2, <2>3, <2>4
<1> QED BY <1>6, <1>7

\* Everything else around run(): SenderDone finishes, WriteOutput delivers.
LEMMA JointIdeal ==
  ASSUME Connect \/ Oprf
  PROVE  UNCHANGED Ideal!ideal
<1>1. /\ job' = job /\ job # Api /\ set' = set /\ output' = output
      /\ \A r \in Roles : fpc[r] \in {"connect", "init"} /\ fpc'[r] \in {"check", "psi"}
  BY PeerIs DEF Connect, Oprf, At
<1>2. \A r \in Roles : SetOf(r)' = SetOf(r) /\ Outcome(r) = Api /\ Outcome(r)' = Api
  BY <1>1 DEF SetOf, Outcome
<1> QED BY <1>2, PeerIs DEF Ideal!ideal

LEMMA SetThere ==
  ASSUME job \in Jobs, Parties, NEW r \in Roles, fpc[r] \in {"psi", "done"}
  PROVE  /\ SetOf(r) = ToSet(Elem(job, r)) /\ SetOf(r) # Api
         /\ fpc[Peer(r)] \in {"psi", "done"}
<1>1. PartyInv(r)
  BY DEF Parties
<1> QED BY <1>1, SetsApart DEF PartyInv, SetOf

LEMMA FinishIdeal ==
  ASSUME job \in Jobs, Parties, ReadBackOk, SenderDone
  PROVE  Ideal!Finish
<1>1. /\ job' = job /\ job # Api /\ set' = set /\ output' = output
      /\ fpc["sender"] = "psi" /\ fpc' = [fpc EXCEPT !["sender"] = "done"]
  BY DEF SenderDone, At, Go
<1>2. fpc'["sender"] = "done" /\ fpc'["receiver"] = fpc["receiver"]
  BY <1>1, PeerIs DEF Parties
<1>3. /\ SetOf("sender") # Api /\ fpc["receiver"] \in {"psi", "done"}
  BY <1>1, PeerIs, SetThere
<1>4. SetOf("receiver") # Api
  BY <1>3, PeerIs, SetThere
<1>5. ReadBack' = ReadBack
  BY <1>1 DEF ReadBack
<1>6. Outcome("sender") = Api /\ Outcome("sender")' = {}
  BY <1>1, <1>2 DEF Outcome
<1>7. Outcome("receiver")' = Outcome("receiver") /\ Outcome("receiver") # Absent
  <2>1. ReadBack = Shared(job) \/ fpc["receiver"] = "psi"
    BY <1>1, <1>3 DEF ReadBackOk
  <2>2. Shared(job) # Absent /\ Api # Absent
    BY SetsApart
  <2> QED BY <1>1, <1>2, <1>3, <1>5, <2>1, <2>2 DEF Outcome
<1>8. SetOf("sender")' = SetOf("sender") /\ SetOf("receiver")' = SetOf("receiver")
  BY <1>1 DEF SetOf
<1> QED BY <1>3, <1>4, <1>6, <1>7, <1>8 DEF Ideal!Finish, Ideal!Both

LEMMA DeliverIdeal ==
  ASSUME job \in Jobs, Parties, ReadBackOk', WriteOutput
  PROVE  Ideal!Deliver
<1>1. /\ job' = job /\ job # Api /\ set' = set
      /\ fpc["receiver"] = "psi" /\ fpc' = [fpc EXCEPT !["receiver"] = "done"]
  BY DEF WriteOutput, At, Go
<1>2. fpc'["receiver"] = "done" /\ fpc'["sender"] = fpc["sender"]
  BY <1>1, PeerIs DEF Parties
<1>3. /\ SetOf("receiver") # Api /\ SetOf("receiver") = ToSet(Elem(job, "receiver"))
      /\ fpc["sender"] \in {"psi", "done"}
  BY <1>1, PeerIs, SetThere
<1>4. SetOf("sender") # Api /\ SetOf("sender") = ToSet(Elem(job, "sender"))
  BY <1>3, PeerIs, SetThere
<1>5. ReadBack' = SetOf("sender") \cap SetOf("receiver")
  <2>1. Shared(job)' = Shared(job)
    BY <1>1 DEF Shared, Elem
  <2> QED BY <1>1, <1>2, <1>3, <1>4, <2>1 DEF ReadBackOk, Shared
<1>6. Outcome("receiver") = Api /\ Outcome("receiver")' = ReadBack'
  BY <1>1, <1>2, PeerIs DEF Outcome
<1>7. Outcome("sender")' = Outcome("sender") /\ Outcome("sender") # Absent
  <2>1. {} # Absent /\ Api # Absent
    BY SetsApart
  <2> QED BY <1>1, <1>2, <1>3, <2>1 DEF Outcome
<1>8. SetOf("sender")' = SetOf("sender") /\ SetOf("receiver")' = SetOf("receiver")
  BY <1>1 DEF SetOf
<1> QED BY <1>3, <1>4, <1>5, <1>6, <1>7, <1>8 DEF Ideal!Deliver, Ideal!Both

LEMMA IdealKept == ASSUME UNCHANGED fileVars PROVE UNCHANGED Ideal!ideal
<1>1. UNCHANGED <<job, fpc, set, output>>
  BY DEF fileVars
<1>2. \A r : SetOf(r)' = SetOf(r)
  BY <1>1 DEF SetOf
<1>3. \A r : Outcome(r)' = Outcome(r)
  BY <1>1 DEF Outcome, ReadBack
<1> QED BY <1>2, <1>3 DEF Ideal!ideal

LEMMA IdealInit == FileInit => Ideal!Init
<1> SUFFICES ASSUME FileInit PROVE Ideal!Init
  OBVIOUS
<1>1. \A r \in Roles : set[r] = Absent /\ fpc[r] \in {"read", "psi"}
  BY DEF FileInit
<1>2. \A r \in Roles : SetOf(r) = Api /\ Outcome(r) = Api
  BY <1>1 DEF SetOf, Outcome
<1> QED BY <1>2, PeerIs DEF Ideal!Init

LEMMA IdealStep ==
  ASSUME FileInv, ReadBackOk, ReadBackOk', [FileNext]_allVars
  PROVE  [Ideal!Next]_Ideal!ideal
<1>1. CASE UNCHANGED allVars \/ UNCHANGED fileVars
  BY <1>1, IdealKept DEF allVars
<1>2. CASE job # Api /\ (Connect \/ Oprf \/ (\E r \in Roles : Outside(r)) \/ SenderDone \/ WriteOutput)
  <2>1. job \in Jobs /\ Parties
    BY <1>2 DEF FileInv
  <2>2. CASE Connect \/ Oprf
    BY <2>2, JointIdeal
  <2>3. CASE \E r \in Roles : Outside(r)
    BY <2>1, <2>3, OutsideIdeal DEF Ideal!Next
  <2>4. CASE SenderDone
    BY <2>1, <2>4, FinishIdeal DEF Ideal!Next
  <2>5. CASE WriteOutput
    BY <2>1, <2>5, DeliverIdeal DEF Ideal!Next
  <2> QED BY <1>2, <2>2, <2>3, <2>4, <2>5
<1> QED BY <1>1, <1>2, FileSteps

\* Read back as a set, the output file is the intersection of the two files, the
\* sender ends with nothing, and neither is done if the other gives up: each step of
\* reading, connecting, checking sizes, run() and writing is one of IdealPsi's or none.
THEOREM ImplementsIdealHolds ==
  ASSUME PackRoom, OprfApart
  PROVE  FileSpec => ImplementsIdeal
<1>1. FileInit => FileInv
  BY FileInitInv
<1>2. FileInv /\ [FileNext]_allVars => FileInv'
  BY FileStep
<1>3. FileInv => ReadBackOk
  BY ReadBackIs
<1>4. FileInv /\ ReadBackOk /\ ReadBackOk' /\ [FileNext]_allVars => [Ideal!Next]_Ideal!ideal
  BY IdealStep
<1>5. FileInit => Ideal!Init
  BY IdealInit
<1> QED BY <1>1, <1>2, <1>3, <1>4, <1>5, PTL DEF FileSpec, ImplementsIdeal, Ideal!Spec
=============================================================================
