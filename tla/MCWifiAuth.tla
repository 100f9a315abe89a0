----------------------------- MODULE MCWifiAuth -----------------------------
\* WifiAuth for TLC: the handshake and one command handler.
EXTENDS WifiAuth

MCControl == {"CNXN", "AUTH"}
MCData == {"OKAY"}
MCControlWaits == {{"AUTH"}, {"AUTH", "CNXN"}, {"CNXN"}}
MCDataWaits == {{"OKAY"}}
=============================================================================
