SPECIFICATION FairSpec
CONSTANTS
  Inputs <- MCInputs
  Queries <- MCQueries
  ThreadCounts = {1, 2, 3}
  BinCounts = {1, 2}
  ThrdMaxes = {1, 2, 3}
  ItemsPerBin = 3
  BatchCap = 2
  Old = Old
  Noise = Noise
  Nothing = Nothing
INVARIANTS BinComplete DecodeExact
PROPERTY AllJoined
