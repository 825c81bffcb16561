SPECIFICATION Spec
CONSTANTS
  Width = 4
  Operands <- MCOperands
  CreateHeap = {TRUE}
  MaxFolds = 1
INVARIANTS
  VectorProductIsDot
CHECK_DEADLOCK FALSE
