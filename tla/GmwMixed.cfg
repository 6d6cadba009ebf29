SPECIFICATION FairSpec
CONSTANTS
  Wires <- MixedWires
  InputWires <- MixedInputs
  Gates <- MixedGates
  LevelEnd <- MixedLevels
  NumTriples = 2
  Deals <- RotatedDeals
  Preset = TRUE
INVARIANTS TypeOK OutputCorrect LockStep NeverAhead InputsPinned
PROPERTIES ImplementsPlain BothFinish
