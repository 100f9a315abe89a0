SPECIFICATION AuthSpec
CONSTANTS
  Streams = {1}
  Connect = "CNXN"
  Auth = "AUTH"
  Control <- MCControl
  Data <- MCData
  ControlWaits <- MCControlWaits
  DataWaits <- MCDataWaits
  DeviceMaxData = 1
  MaxMessages = 5
INVARIANTS
  VerdictUnderstood
  NothingStale
PROPERTIES
  HandshakeCompletes
CHECK_DEADLOCK FALSE
