SPECIFICATION Spec
CONSTANTS
  RegionNumber = 3
  Bases = {0, 1}
  Lengths = {1, 2}
  Permissions <- AllPairs
  NULL = NULL
ACTION_CONSTRAINT PairsAtZero
INVARIANTS TypeOK ValidFirst OverlapOnlyWithLast 
