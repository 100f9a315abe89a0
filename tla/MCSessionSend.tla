--------------------------- MODULE MCSessionSend ---------------------------
\* SessionSend for TLC: packets of one and of two bytes.
EXTENDS SessionSend

MCSizes == {1, 2}
=============================================================================
