--------------------------- MODULE MCServerSocket ---------------------------
\* ServerSocket for TLC: three clients.
EXTENDS ServerSocket

CONSTANTS c1, c2, c3

MCClients == {c1, c2, c3}
=============================================================================
