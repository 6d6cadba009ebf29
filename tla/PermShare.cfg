SPECIFICATION FairSpec
CONSTANTS
  AllPermsOf = {2, 3, 4, 5}
  SomePermsOf = {6, 7, 9, 11}
  Instances <- MCInstances
  Atoms <- MCAtoms
  Input <- MCInput
  Mask <- MCMask
  OtMsg <- MCOtMsg
  ChoicesOf <- MCChoicesOf
  Surplus = {0, 1}
INVARIANTS TypeOK SwitchesApart HeldMatches SharedAlong Shared
PROPERTIES BothReturn
