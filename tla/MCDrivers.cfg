SPECIFICATION Spec
CONSTANTS
  I2cChannels = {0, 1, 2}
  Rx = 2
  Tx = 1
  I2cRequests <- Transfers
  I2cMaxRequests = 3
  Devices = {d1, d2}
  Printer = printer
  NONE = NONE
  DeviceMaxRequests = 2
  Pages = 3
  PageSize = 4
  FlashRequests <- Writes
  FlashMaxRequests = 2
ACTION_CONSTRAINT FewRequests
INVARIANTS TypesOK   LosesOnePage
PROPERTIES EveryTransferAnswered
CHECK_DEADLOCK FALSE
