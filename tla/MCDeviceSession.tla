-------------------------- MODULE MCDeviceSession --------------------------
\* DeviceSession for TLC: the handshake and two handlers.
EXTENDS DeviceSession

MCControl == {"CNXN", "AUTH"}
MCData == {"OKAY", "WRTE"}
\* Those of startConnect, handleAuthToken and handleAuthRejected.
MCControlWaits == {{"AUTH"}, {"AUTH", "CNXN"}, {"CNXN"}}
\* pushHandler's.
MCDataWaits == {{"OKAY"}}
=============================================================================
