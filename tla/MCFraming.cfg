SPECIFICATION ProtocolSpec
CONSTANTS
  Header = 2
  LenAt = 2
  MaxLen = 2
  Wrap = 8
  TempBuf = 5
  MaxMessages = 3
  Byte = 4
  BlockSize = 2
  Files <- MCFiles
  Paths <- MCPaths
  Ids <- MCIds
INVARIANTS
  MessagesIntact
  FileIntact
  PacketIntact
PROPERTY
  EventuallyDispatched
CHECK_DEADLOCK FALSE
