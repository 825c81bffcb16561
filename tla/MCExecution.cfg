SPECIFICATION ExecSpec
CONSTANTS
  LindenJumps = {TRUE, FALSE}
  Bodies <- MCBackEdges
  Names <- MCNames
INVARIANT FoldedReadsSeeInitializer
CHECK_DEADLOCK FALSE
