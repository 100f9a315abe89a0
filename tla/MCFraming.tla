----------------------------- MODULE MCFraming -----------------------------
\* The two directions of AdbProtocol for TLC, which share no variable: a
\* behaviour is one of Framing (part is "in") or of Packets (part is "out"), and
\* the other part stays in an initial state.
\* Framing: a header of two bytes whose second is the length, payloads of up to
\* two bytes, reads of up to five bytes, so that a read may end inside a header,
\* inside a payload, or bring more than one message.
\* Packets: bytes of four values, every file of up to five bytes of two of them
\* in blocks of two, ids with and without the highest bit.
EXTENDS Framing, Packets

VARIABLE part

MCFiles == SeqOf({1, 2}, 5)
MCPaths == {<<2, 1>>}
MCIds == {1, 200, 255}

protocolVars == <<vars, packetVars, part>>

ProtocolInit ==
  /\ Init /\ PacketInit
  /\ \/ part = "in" /\ file = <<>> /\ localId = 1 /\ theirs = 1
     \/ part = "out"

In(A) == part = "in" /\ A /\ UNCHANGED <<packetVars, part>>
Out(A) == part = "out" /\ A /\ UNCHANGED <<vars, part>>

ProtocolNext == In(Next) \/ Out(PacketNext)

\* The fairness of Spec.
ProtocolSpec ==
  ProtocolInit /\ [][ProtocolNext]_protocolVars /\ WF_protocolVars(In(ReadLoop))
=============================================================================
