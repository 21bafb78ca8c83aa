SPECIFICATION Spec
CONSTANTS
  Tasks = {p1, p2, p3, p4}
  NULL = NULL
  MAX_PROCESSES = 3
  HeapBlocks = 12
  StrayBlocks = {11}
SYMMETRY Symmetry
INVARIANTS
  TypeOK
  ListWellFormed
  CurrentAgrees
  TableMatchesPids
PROPERTY
  FailedExecveReturns
