SPECIFICATION Spec
CONSTANTS
  KmemRamSize = 16384
  KmemMaxInfo = 8
  KmemListLength = 1
  Requests = {2000, 4048, 5000}
  KmemMaxLive = 5
  ScanRequests = {3000, 4048}
  BuddyRamSize = 20480
  BuddyMaxInfo = 6
  BuddyListLength = 3
  BuddySizes = {6144, 16384}
  AreaSizes = {20, 40, 64, 120}
  AreaMaxLive = 4
  AreasSizes = {40, 64}
  AreasMaxLive = 3
INVARIANTS TypesOK  NothingLost
PROPERTIES SortGivesAllBack ScanIsLeft
CHECK_DEADLOCK FALSE
