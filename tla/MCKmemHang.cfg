SPECIFICATION Spec
CONSTANTS
  RamSize = 16384
  MaxInfo = 8
  ListLength = 1
  Requests = {3000, 4048}
  MaxLive = 4
PROPERTY GoesToBuddy
CHECK_DEADLOCK FALSE
