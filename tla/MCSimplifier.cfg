SPECIFICATION Spec
CONSTANTS
  MaxRewrites = 1
  Programs <- MCPrograms
  OptionSets <- MCOptionSets
INVARIANTS
  CountsHold
  NothingDangles
  FoldedReadsAreFixed
  NothingLeft
PROPERTIES
  EffectsStay
  Terminates
CHECK_DEADLOCK FALSE
