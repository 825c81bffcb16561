SPECIFICATION Spec
CONSTANTS
  Width = 4
  Operands <- MCOperands
  CreateHeap = {TRUE, FALSE}
  MaxFolds = 2
INVARIANTS
  FoldKeepsType
  NoNewStrings
  OperatorLaws
  MixedNumberLaws
CHECK_DEADLOCK FALSE
