SPECIFICATION PartSpec
CONSTANTS
  d1 = d1
  d2 = d2
  c1 = c1
  c2 = c2
  c3 = c3
  c4 = c4
  a = a
  b = b
  Devices <- MCDevices
  Contexts <- MCContexts
  Clients <- MCClients
  Workers = 2
  MaxJobs = 2
  MaxChunks = 2
  MaxCommands = 2
INVARIANTS
  RegistrySound
  OwnOutput
  WritesAcked
PROPERTIES
  ContextKept
  ConnectStarts
  CommandEnds
