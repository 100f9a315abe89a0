SPECIFICATION AuthSpec
CONSTANTS
  Streams = {1}
  Connect = "CNXN"
  Auth = "AUTH"
  Control <- MCControl
  Data <- MCData
  ControlWaits <- MCControlWaits
  DataWaits <- MCDataWaits
  DeviceMaxData = 1
  MaxMessages = 5
INVARIANTS
  ExecutesAuthenticated
CHECK_DEADLOCK FALSE
