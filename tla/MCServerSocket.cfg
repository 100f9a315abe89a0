SPECIFICATION SocketSpec
CONSTANTS
  c1 = c1
  c2 = c2
  c3 = c3
  Clients <- MCClients
PROPERTY
  ClientsAccepted
CHECK_DEADLOCK FALSE
