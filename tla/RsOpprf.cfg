SPECIFICATION FairSpec
CONSTANTS
  k1 = k1
  k2 = k2
  k3 = k3
  s1 = s1
  s2 = s2
  Nothing = Nothing
  Widths = {1, 2, 3, 4}
  BlockBytes = 2
  Keys <- MCKeys
  Prfs <- MCPrfs
  Ctr <- MCCtr
  Seeds <- MCSeeds
  Decode <- MCDecode
  Tables <- MCTables
  Programs <- MCPrograms
  Queries <- MCQueries
INVARIANTS EvalProgrammed EvalAgrees
PROPERTIES BothReturn
