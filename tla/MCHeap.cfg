SPECIFICATION Spec
CONSTANTS
  TotalEntries = 7
  BlockSize = 4
  WordSize = 32
  Gap = 4
  Sizes = {0, 3, 8, 9, 30}
INVARIANTS TypeOK TableEncodesLive LiveDisjoint
PROPERTY TableChangesWithLive
