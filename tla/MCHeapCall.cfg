SPECIFICATION Spec
CONSTANTS
  TotalEntries = 5
  BlockSize = 4
  WordSize = 32
  Gap = 4
  Sizes = {0, 3, 8, 12, 17, 30}
INVARIANTS MallocMeetsSpec FreeMeetsSpec
