SPECIFICATION LsoSpec
CONSTANTS
  LindenJumps = {TRUE, FALSE}
  Bodies <- MCEmitted
  Names <- MCEmittedNames
INVARIANTS
  JumpKindsHold
  StructuredIsClassified
  StraightReadsSeeInitializer
  ReturnsEverywhere
  SameNext
  StackClean
  JumpsLand
CHECK_DEADLOCK FALSE
