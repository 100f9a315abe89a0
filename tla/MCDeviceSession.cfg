SPECIFICATION Spec
CONSTANTS
  Streams = {1, 2}
  Connect = "CNXN"
  Control <- MCControl
  Data <- MCData
  ControlWaits <- MCControlWaits
  DataWaits <- MCDataWaits
  DeviceMaxData = 1
  MaxMessages = 3
INVARIANTS
  NoMissedMatch
  ReadLoopSurvives
  ExactlyOnce
  OrderKept
PROPERTIES
  ResumedOnce
  WakeUp
CHECK_DEADLOCK FALSE
