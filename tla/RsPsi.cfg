SPECIFICATION FairFileSpec
CONSTANTS
  RecvSize = 4
  SendSize = 5
  ThreadCounts = {1, 2, 3}
  Block = 4
  Word = 2
  Mask = 3
  MoveUntil = 3
  Byte <- MCByte
  Instances <- MCInstances
  ElemBytes = 2
  Char <- MCChar
  Newline <- MCNewline
  Digit <- MCDigit
  OprfOf <- MCOprf
  Jobs <- MCJobs
  Api = Api
  Absent = Absent
INVARIANTS ExactIfRoom MapsWhole PackedWhole OutputInOrder
PROPERTIES ImplementsIdeal BothEnd
