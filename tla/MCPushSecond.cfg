SPECIFICATION PushSpec
CONSTANTS
  Streams = {1, 2}
  Connect = "CNXN"
  Control <- MCControl
  Data <- MCData
  ControlWaits <- MCControlWaits
  DataWaits <- MCDataWaits
  DeviceMaxData = 1
  MaxMessages = 8
  DeviceIds <- MCDeviceIds
  MaxBlocks = 1
INVARIANTS
  RemoteIdBound
CHECK_DEADLOCK FALSE
