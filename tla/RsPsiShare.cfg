SPECIFICATION Spec
CONSTANTS
  RecvSize = 4
  SendSize = 4
  ThreadCounts = {3}
  Block = 4
  Word = 2
  Mask = 3
  MoveUntil = 3
  Byte <- MCByte
  Instances <- MCInstances
INVARIANTS MultiThreadExact
