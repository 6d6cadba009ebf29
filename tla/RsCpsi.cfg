SPECIFICATION FairCpsi
CONSTANTS
  Unset = Unset
  NumBins = 5
  HashSeeds = {1, 2}
  Word = 4
  KeyBits = 3
  ValueBytes = 4
  BinOf <- MCBinOf
  RecvSets <- MCRecvSets
  SendSets <- MCSendSets
  ValuesOf <- MCValuesOf
  XorWords <- MCXor
  Masks <- MCMasks
  FlagShares <- MCFlagShares
  Noise <- MCNoise
PROPERTIES ImplementsJoin CpsiReturns
