SPECIFICATION Spec
CONSTANTS
  Nothing = Nothing
  NumItems = 4
  SparseSize = 6
  DenseSize = 3
  MaxGap = 1
  Weights = {2, 3}
  MaxWeight = 3
  Batch = 3
  RandomElems = {3, 5}
  HashChoices <- MCHashes
  Keys <- MCKeys
  Values <- MCValues
  Elem <- MCElem
  Add <- MCAdd
  Mul <- MCMul
  BitOf <- MCBitOf
INVARIANTS RowsAgree RowsApart WeightsExact GapOnlyOnCore EncodeSolves
