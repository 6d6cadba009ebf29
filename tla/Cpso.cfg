SPECIFICATION FairSpec
CONSTANTS
  Nothing = Nothing
  RowBits = 2
  Ssp = 3
  NumBins = 5
  Caps = {16, 128}
  WordBits = 4
  ByteBits = 4
  IntBits = 8
  IntGteq <- MCIntGteq
  Ops = {"union", "cardinality", "sumBlock", "sum32", "threshold", "innerProd"}
  Thresholds = {0, 2, 6, 9}
  SendSets <- MCSendSets
  RecvSets <- MCRecvSets
  DataOf <- MCDataOf
  Randoms <- MCRandoms
  Transcripts <- MCTranscripts
  RotPairs <- MCRotPairs
  FlagShares <- MCFlagShares
  Perms <- MCPerms
INVARIANTS SuppliesSuffice TriplesMultiply UnionExact ResultExact
PROPERTIES BothReturn
