SPECIFICATION Spec
CONSTANTS
  x1 = x1
  x2 = x2
  s1 = s1
  s2 = s2
  Nothing = Nothing
  Bits = 1
  F <- MCF
  Add <- MCAdd
  Mul <- MCMul
  Zero = 0
  Items <- MCItems
  NumSlots = 5
  Seeds <- MCSeeds
  Decode <- MCDecode
  HashItem <- MCHash
  Chunk = 2
  Unroll = 2
  Coins <- MCCoins
  Voles <- MCVoles
INVARIANTS EvalAgreesAnySize
