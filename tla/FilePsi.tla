------------------------------ MODULE FilePsi ------------------------------
(***************************************************************************)
(* File based PSI (doFilePSI, readSet, writeOutput) around one run of      *)
(* RsPsi: each party reads its set, connects, compares its size with the   *)
(* one on its command line, exchanges sizes, runs the protocol with one    *)
(* thread; the receiver sorts the indices it got and writes the rows they  *)
(* stand for, which it reads from the file once more.                      *)
(*                                                                         *)
(* Every throw ends the party and closes its socket.  A file is a sequence *)
(* of characters; ElemBytes of them are a binary element, and twice as     *)
(* many hexadecimal digits a row that is taken as it is.  What other       *)
(* callers do (tests, perf) is the job Api: run() and nothing around it.   *)
(***************************************************************************)
EXTENDS RsPsi

CONSTANTS ElemBytes,     \* sizeof(block) (16)
          Char,          \* the values of a character
          Newline,
          Digit,         \* the values of the characters isxdigit accepts
          OprfOf,        \* the OPRF output of an element
          Jobs,          \* command lines and files of both parties
          Api,
          Absent         \* an option that is not set

Roles == {"sender", "receiver"}
Peer(r) == IF r = "sender" THEN "receiver" ELSE "sender"

VARIABLES
  job,
  fpc,        \* a party: "read", "connect", "check", "sizes", "init", "psi", "done" or "failed"
  set,        \* its set
  sizeMsg,    \* the size it has sent
  theirSize,
  output      \* the lines, elements or indices in the receiver's output file

fileVars == <<job, fpc, set, sizeMsg, theirSize, output>>
allVars == <<vars, fileVars>>

----------------------------------------------------------------------------
\* readSet and writeOutput.

\* std::getline: what follows the last newline of the first n characters, and the
\* lines before it.
Rest(text) ==
  LET rest[n \in 0..Len(text)] ==
        IF n = 0 \/ text[n] = Newline THEN <<>> ELSE Append(rest[n - 1], text[n])
  IN rest
Lines(text) ==
  LET lines[n \in 0..Len(text)] ==
        IF n = 0 THEN <<>>
        ELSE IF text[n] = Newline THEN Append(lines[n - 1], Rest(text)[n - 1]) ELSE lines[n - 1]
  IN lines
\* Until the end of the file: a last line needs no newline, but some character.
GetLines(text) ==
  LET size == Len(text)
      rest == Rest(text)[size]
  IN IF rest = <<>> THEN Lines(text)[size] ELSE Append(Lines(text)[size], rest)

\* writeOutput's own scan of the file: the newlines of the first n characters,
\* and the spans that end before each of a sequence of places.
Stops(text) ==
  LET stops[n \in 0..Len(text)] ==
        IF n = 0 THEN <<>>
        ELSE IF text[n] = Newline THEN Append(stops[n - 1], n) ELSE stops[n - 1]
  IN stops
Begins(ends, k) == IF k = 1 THEN 1 ELSE ends[k - 1] + 1
Cut(text, ends) == [k \in 1..Len(ends) |-> SubSeq(text, Begins(ends, k), ends[k] - 1)]
\* Mutant: the last row needs a newline.
SpansTerminated(text) == Cut(text, Stops(text)[Len(text)])
Spans(text) ==
  LET stops == Stops(text)[Len(text)]
  IN Cut(text, IF stops # <<>> /\ stops[Len(stops)] = Len(text) THEN stops
               ELSE IF text = <<>> THEN <<>> ELSE Append(stops, Len(text) + 1))

IsHexBlock(line) == Len(line) = 2 * ElemBytes /\ ToSet(line) \subseteq DOMAIN Digit
HexToBlock(line) ==
  [i \in 1..ElemBytes |-> LET d == 2 * (ElemBytes - i) IN 16 * Digit[line[d + 1]] + Digit[line[d + 2]]]
\* A row of another form is hashed.
Element(line) ==
  IF IsHexBlock(line) THEN [kind |-> "block", is |-> HexToBlock(line)] ELSE [kind |-> "hash", is |-> line]

Pieces(text) ==
  [k \in 1..(Len(text) \div ElemBytes) |-> SubSeq(text, (k - 1) * ElemBytes + 1, k * ElemBytes)]
Elements(ft, text) ==
  LET rows == IF ft = "bin" THEN Pieces(text) ELSE GetLines(text)
  IN [k \in DOMAIN rows |-> IF ft = "bin" THEN [kind |-> "block", is |-> rows[k]] ELSE Element(rows[k])]

\* Only -debug looks for repeated elements.
Readable(ft, text, debug) ==
  /\ ft = "bin" => Len(text) % ElemBytes = 0
  /\ debug => IsInjective(Elements(ft, text))

\* beg[i] and fData[i] are not checked: past the last row is anything.
RowAt(ft, text, i) ==
  LET rows == IF ft = "bin" THEN Pieces(text) ELSE Spans(text)
  IN IF i + 1 \in DOMAIN rows THEN rows[i + 1] ELSE <<Spoilt>>

\* counting_sort of the indices below end.
\* Mutant: an index is written once, however often it was counted.
CountingSortOnce(s, end) ==
  LET upTo[i \in 0..end] ==
        IF i = 0 THEN <<>>
        ELSE IF i - 1 \in ToSet(s) THEN Append(upTo[i - 1], i - 1) ELSE upTo[i - 1]
  IN upTo[end]
Count(s, i) == Cardinality({k \in DOMAIN s : s[k] = i})
CountingSort(s, end) ==
  LET upTo[i \in 0..end] ==
        IF i = 0 THEN <<>> ELSE upTo[i - 1] \o [k \in 1..Count(s, i - 1) |-> i - 1]
  IN upTo[end]

----------------------------------------------------------------------------
\* What the OPRF makes of the elements of a job's files.
InstanceOf(j) ==
  LET mine == Elements(j.ft, j.file["receiver"])
      theirs == Elements(j.ft, j.file["sender"])
  IN [mine |-> [i \in 0..RecvSize - 1 |-> OprfOf[mine[i + 1]]],
      theirs |-> [k \in 0..SendSize - 1 |-> OprfOf[theirs[k + 1]]]]

Claim == {Absent} \cup 0..(RecvSize + SendSize)
ASSUME FilePsiAssumption ==
  /\ ElemBytes \in Nat \ {0}
  /\ Api # Absent /\ Api \notin Jobs
  /\ \A j \in Jobs :
       /\ j.ft \in {"bin", "csv"} /\ j.mal \in BOOLEAN
       /\ j.indexOnly \in BOOLEAN /\ j.noSort \in BOOLEAN
       /\ j.debug \in [Roles -> BOOLEAN] /\ j.claim \in [Roles -> [Roles -> Claim]]
       /\ \A r \in Roles :
            /\ j.file[r] \in Seq(Char)
            /\ \A S \in SUBSET ToSet(Elements(j.ft, j.file[r])) : S \notin {Api, Absent}
            /\ Elements(j.ft, j.file[r]) # Absent
       /\ Len(Elements(j.ft, j.file["receiver"])) = RecvSize
       /\ Len(Elements(j.ft, j.file["sender"])) = SendSize
       /\ IsInstance(InstanceOf(j))

----------------------------------------------------------------------------
FileInit ==
  /\ \/ job = Api /\ inst \in Instances
     \/ job \in Jobs /\ inst = InstanceOf(job) /\ nt = 1 /\ mal = job.mal
  /\ Start
  /\ fpc = [r \in Roles |-> IF job = Api THEN "psi" ELSE "read"]
  /\ set = [r \in Roles |-> Absent]
  /\ sizeMsg = [r \in Roles |-> Absent]
  /\ theirSize = [r \in Roles |-> Absent]
  /\ output = <<>>

At(r, from) == job # Api /\ fpc[r] = from
Go(r, to) == fpc' = [fpc EXCEPT ![r] = to]

ReadSet(r) ==
  /\ At(r, "read") /\ Readable(job.ft, job.file[r], job.debug[r])
  /\ set' = [set EXCEPT ![r] = Elements(job.ft, job.file[r])]
  /\ Go(r, "connect")
  /\ UNCHANGED <<vars, job, sizeMsg, theirSize, output>>
ReadThrows(r) ==
  /\ At(r, "read") /\ ~Readable(job.ft, job.file[r], job.debug[r])
  /\ Go(r, "failed")
  /\ UNCHANGED <<vars, job, set, sizeMsg, theirSize, output>>

\* asioConnect: one accepts, the other tries until it is there.
Connect ==
  /\ \A r \in Roles : At(r, "connect")
  /\ fpc' = [r \in Roles |-> "check"]
  /\ UNCHANGED <<vars, job, set, sizeMsg, theirSize, output>>

\* cmd.getOr(..., size): a size that is not on the command line is taken as it is.
Agrees(r, of, size) == job.claim[r][of] \in {Absent, size}

TellSize(r) ==
  /\ At(r, "check") /\ Agrees(r, r, Len(set[r]))
  /\ sizeMsg' = [sizeMsg EXCEPT ![r] = Len(set[r])]
  /\ Go(r, "sizes")
  /\ UNCHANGED <<vars, job, set, theirSize, output>>
OwnSizeThrows(r) ==
  /\ At(r, "check") /\ ~Agrees(r, r, Len(set[r]))
  /\ Go(r, "failed")
  /\ UNCHANGED <<vars, job, set, sizeMsg, theirSize, output>>

HearSize(r) ==
  /\ At(r, "sizes") /\ sizeMsg[Peer(r)] # Absent
  /\ theirSize' = [theirSize EXCEPT ![r] = sizeMsg[Peer(r)]]
  /\ Go(r, IF Agrees(r, Peer(r), sizeMsg[Peer(r)]) THEN "init" ELSE "failed")
  /\ UNCHANGED <<vars, job, set, sizeMsg, output>>

\* Mutant: a party that has both sizes waits on.
PeerGoneEarly(r) ==
  /\ job # Api /\ fpc[r] \in {"check", "sizes"} /\ fpc[Peer(r)] = "failed"
  /\ Go(r, "failed")
  /\ UNCHANGED <<vars, job, set, sizeMsg, theirSize, output>>

\* The other has thrown and closed its socket: sends and receives throw, and a
\* size that is still under way may be lost.
PeerGone(r) ==
  /\ job # Api /\ fpc[r] \in {"check", "sizes", "init"} /\ fpc[Peer(r)] = "failed"
  /\ Go(r, "failed")
  /\ UNCHANGED <<vars, job, set, sizeMsg, theirSize, output>>

\* init(senderSize, recverSize, ..., 1) of both, and run() up to the end of the
\* OPRF: encodings of different sizes do not fit each other.
InitSizes(r) == IF r = "sender" THEN <<Len(set[r]), theirSize[r]>> ELSE <<theirSize[r], Len(set[r])>>
Oprf ==
  /\ \A r \in Roles : At(r, "init")
  /\ InitSizes("sender") = InitSizes("receiver")
  /\ fpc' = [r \in Roles |-> "psi"]
  /\ UNCHANGED <<vars, job, set, sizeMsg, theirSize, output>>

\* The rest of run().
Both == \A r \in Roles : fpc[r] \in {"psi", "done"}
RunSender == Both /\ Sender /\ UNCHANGED fileVars
RunReceiver == Both /\ Receiver /\ UNCHANGED fileVars
RunThread(t) == Both /\ Thread(t) /\ UNCHANGED fileVars

SenderDone ==
  /\ At("sender", "psi") /\ spc = "done"
  /\ Go("sender", "done")
  /\ UNCHANGED <<vars, job, set, sizeMsg, theirSize, output>>

\* mIntersection is sorted in place.
WriteOutput ==
  /\ At("receiver", "psi") /\ rpc = "done"
  /\ out' = IF job.noSort THEN out ELSE CountingSort(out, Len(set["receiver"]))
  /\ output' = IF job.indexOnly THEN out'
               ELSE [k \in DOMAIN out' |-> RowAt(job.ft, job.file["receiver"], out'[k])]
  /\ Go("receiver", "done")
  /\ UNCHANGED <<inst, nt, mal, sender, rpc, buf, tpc, at, map, found, open,
                 job, set, sizeMsg, theirSize>>

Party(r) ==
  \/ ReadSet(r) \/ ReadThrows(r) \/ TellSize(r) \/ OwnSizeThrows(r) \/ HearSize(r) \/ PeerGone(r)
  \/ (r = "sender" /\ SenderDone) \/ (r = "receiver" /\ WriteOutput)

\* Nothing is left to do; a party whose peer never connects waits for it.
ApiEnded == job = Api /\ rpc = "done" /\ spc = "done"
Ended(r) == fpc[r] \in {"done", "failed"}
Waits(r) == fpc[r] = "connect" /\ fpc[Peer(r)] = "failed"
FileEnded == job # Api /\ \A r \in Roles : Ended(r) \/ Waits(r)
Stopped == (ApiEnded \/ FileEnded) /\ UNCHANGED allVars

FileNext ==
  \/ Connect \/ Oprf \/ (\E r \in Roles : Party(r))
  \/ RunSender \/ RunReceiver \/ (\E t \in Threads : RunThread(t))
  \/ Stopped
AllThreads == UNION {0..n - 1 : n \in ThreadCounts}
FileSpec == FileInit /\ [][FileNext]_allVars
FairFileSpec ==
  /\ FileSpec
  /\ WF_allVars(Connect) /\ WF_allVars(Oprf)
  /\ \A r \in Roles : WF_allVars(Party(r))
  /\ WF_allVars(RunSender) /\ WF_allVars(RunReceiver)
  /\ \A t \in AllThreads : WF_allVars(t \in Threads /\ RunThread(t))

----------------------------------------------------------------------------
(***************************************************************************)
(* Properties.                                                             *)
(***************************************************************************)
\* The help text of the program on -noSort: otherwise the output is in the
\* order of the input, with every row once (as often as the sender has it).
\* It takes the index of a row from getline's count and resolves it by the
\* scan for newlines, after the words of mIntersection have been sorted.
OutputInOrder ==
  job # Api /\ fpc["receiver"] = "done" =>
    LET mine == Elements(job.ft, job.file["receiver"])
        theirs == Elements(job.ft, job.file["sender"])
        first == {i \in DOMAIN mine : \A h \in 1..i - 1 : mine[h] # mine[i]}
        times(i) == IF i \in first THEN Cardinality({k \in DOMAIN theirs : theirs[k] = mine[i]}) ELSE 0
    IN /\ ~job.noSort => \A k \in 1..Len(out) - 1 : out[k] <= out[k + 1]
       /\ \A i \in DOMAIN mine : Count(out, i - 1) = times(i)
       /\ \A k \in DOMAIN out :
            output[k] = IF job.indexOnly THEN out[k]
                        ELSE IF job.ft = "bin" THEN mine[out[k] + 1].is
                        ELSE GetLines(job.file["receiver"])[out[k] + 1]

\* Read back as a set, the output file is the intersection of the two input
\* files; and no party is done while the other gave up (module IdealPsi).
SetOf(r) == IF set[r] = Absent THEN Api ELSE ToSet(set[r])
ReadBack ==
  {IF job.indexOnly THEN set["receiver"][output[k] + 1]
   ELSE IF job.ft = "bin" THEN [kind |-> "block", is |-> output[k]] ELSE Element(output[k]) :
     k \in DOMAIN output}
Outcome(r) ==
  CASE job = Api -> Api
    [] fpc[r] = "failed" -> Absent
    [] fpc[r] = "done" -> IF r = "sender" THEN {} ELSE ReadBack
    [] OTHER -> Api
Ideal == INSTANCE IdealPsi WITH
  Open <- Api, Failed <- Absent, x <- SetOf("sender"), y <- SetOf("receiver"),
  sender <- Outcome("sender"), receiver <- Outcome("receiver")
ImplementsIdeal == Ideal!Spec

\* run() returns on both sides.  Around it, every party ends, unless the other
\* gave up before they were connected, and neither is done without the other:
\* a wrong size found by one of them ends both.
BothEnd ==
  <>(ApiEnded \/ (FileEnded /\ (At("sender", "done") <=> At("receiver", "done"))))
=============================================================================
