SPECIFICATION Spec
CONSTANTS
  TotalEntries = 4
  BlockSize = 4
  WordSize = 64
  Gap = 3
  Procs = {p1, p2}
  PROCESS_MAX_ALLOCATIONS = 2
  UserSizes = {0, 5}
  KernelSizes = {3}
SYMMETRY Symmetry
CONSTRAINT Explored
INVARIANTS
  TypeOK
  
  
  
