SPECIFICATION Spec
CONSTANTS
  Tasks = {p1, p2, p3, p4}
  NULL = NULL
  MAX_PROCESSES = 3
  HeapBlocks = 12
  StrayBlocks = {}
SYMMETRY Symmetry
INVARIANT
  LoadedKeepsMemory
