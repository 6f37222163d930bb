SPECIFICATION Spec
CONSTANTS
  RegionNumber = 3
  Bases = {0, 1, 2}
  Lengths = {1, 2}
  Permissions <- AllPairs
  NULL = NULL
INVARIANT AddChecksAddressAndSize
