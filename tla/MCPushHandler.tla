--------------------------- MODULE MCPushHandler ---------------------------
\* PushHandler for TLC: two pushes of files of up to one block.
EXTENDS PushHandler

MCControl == {"CNXN", "AUTH"}
MCData == {"OKAY"}
MCControlWaits == {{"AUTH"}}
MCDataWaits == {{"OKAY"}}
\* The device counts its streams on its own.
MCDeviceIds == [s \in Streams |-> s + 4]
=============================================================================
