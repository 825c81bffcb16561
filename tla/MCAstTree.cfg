\* Five nodes: a list of three below a node that is itself below another, or
\* a list of four.
SPECIFICATION Spec
CONSTANTS
  Node = {n1, n2, n3, n4, n5}
  Null = Null
  ClientPushes = FALSE
SYMMETRY Symmetry
INVARIANTS
  TypeOK
  NeighboursAgree
  Acyclic
  ListComplete
  TailIsLast
PROPERTIES
  PushAddsToEnd
  ImplementsForest
CHECK_DEADLOCK FALSE
