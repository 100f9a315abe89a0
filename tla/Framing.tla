------------------------------ MODULE Framing ------------------------------
(***************************************************************************)
(* The receiving half of a DeviceSession up to the dispatch: doRead() and  *)
(* AdbProtocol::parseAdbMessage cut the byte stream of the device back     *)
(* into messages.  TCP keeps the order of the bytes and nothing else: a    *)
(* read returns any prefix of what arrived, up to the size of tempBuf_.    *)
(*                                                                         *)
(* A byte is known by its message and its offset in it.  What a header     *)
(* says is read where the code reads it: the length field is the byte at   *)
(* offset LenAt of whatever the buffer starts with, so a buffer that does  *)
(* not start at a message boundary would give any length at all.           *)
(***************************************************************************)
EXTENDS Naturals, Sequences

CONSTANTS Header,       \* ADB_HEADER_LENGTH
          LenAt,        \* the offset of payloadLength in the header
          MaxLen,       \* the longest payload a device sends (CONNECT_MAXDATA)
          Wrap,         \* 2 ^ the width of unsigned
          TempBuf,      \* sizeof tempBuf_
          MaxMessages   \* bound: messages the device sends

ASSUME HeaderAssumption == Header \in Nat /\ LenAt \in 1..Header /\ Wrap \in Nat
ASSUME BufferAssumption == TempBuf \in Nat \ {0} /\ MaxMessages \in Nat
\* The device honours the CONNECT_MAXDATA of our CNXN, so that
\* ADB_HEADER_LENGTH + payloadLength does not wrap around.
ASSUME LengthAssumption == MaxLen \in Nat /\ Header + MaxLen < Wrap

VARIABLES
  sent,         \* sent[k]: payload length of the k-th message, and where it starts
  stream,       \* every byte the device ever wrote
  taken,        \* how many of them async_read_some has returned
  recvBuffer,   \* recvBuffer_
  pc,           \* where the read loop is
  msgLen,       \* the local of doRead()
  dispatched    \* the messages given to handleMessage, as bytes

vars == <<sent, stream, taken, recvBuffer, pc, msgLen, dispatched>>

(* "read": an async_read_some is pending.  "parse": at the top of the      *)
(* while loop.  "erase": handleMessage returned.  "stopped": the loop will *)
(* not run again (read error, or an exception left the handler).           *)
PC == {"read", "parse", "erase", "stopped"}

Init ==
  /\ sent = <<>> /\ stream = <<>> /\ taken = 0
  /\ recvBuffer = <<>> /\ pc = "read" /\ msgLen = 0 /\ dispatched = <<>>

Total(k) == Header + sent[k].len
BytesOf(k, len) == [o \in 1 .. Header + len |-> [msg |-> k, off |-> o]]

-----------------------------------------------------------------------------
\* The device writes one more message.
DeviceSends ==
  /\ Len(sent) < MaxMessages
  /\ \E len \in 0..MaxLen :
       /\ sent' = Append(sent, [len |-> len, at |-> Len(stream)])
       /\ stream' = stream \o BytesOf(Len(sent) + 1, len)
  /\ UNCHANGED <<taken, recvBuffer, pc, msgLen, dispatched>>

\* What-if: the buffer is overwritten instead of extended.
ReadOverwrites ==
  /\ pc = "read"
  /\ \E n \in 1..TempBuf :
       /\ taken + n <= Len(stream)
       /\ recvBuffer' = SubSeq(stream, taken + 1, taken + n)
       /\ taken' = taken + n
  /\ pc' = "parse"
  /\ UNCHANGED <<sent, stream, msgLen, dispatched>>

\* async_read_some returned n bytes: append them to recvBuffer_.
ReadSome ==
  /\ pc = "read"
  /\ \E n \in 1..TempBuf :
       /\ taken + n <= Len(stream)
       /\ recvBuffer' = recvBuffer \o SubSeq(stream, taken + 1, taken + n)
       /\ taken' = taken + n
  /\ pc' = "parse"
  /\ UNCHANGED <<sent, stream, msgLen, dispatched>>

\* The connection is lost: doRead() logs and is not called again.
ReadError ==
  /\ pc = "read"
  /\ pc' = "stopped"
  /\ UNCHANGED <<sent, stream, taken, recvBuffer, msgLen, dispatched>>

-----------------------------------------------------------------------------
\* parseAdbMessage

\* extract(12): the payload length the bytes in the buffer spell.
LengthField ==
  IF recvBuffer[LenAt].off = LenAt THEN {sent[recvBuffer[LenAt].msg].len}
                                   ELSE 0 .. Wrap - 1

\* a + b in unsigned arithmetic, for a and b that fit.
Plus(a, b) == IF a + b < Wrap THEN a + b ELSE a + b - Wrap

\* What-if: the payload alone is waited for.
MessageLengthOfPayload == LengthField

\* The values outMessageLength can get: ADB_HEADER_LENGTH + payloadLength.
MessageLength == {Plus(Header, len) : len \in LengthField}

\* buffer.size() >= outMessageLength
Complete(n) == n <= Len(recvBuffer)

NeedMore ==
  Len(recvBuffer) >= Header => \E n \in MessageLength : ~Complete(n)

\* Not enough bytes: leave the loop and read on.
ParseIncomplete ==
  /\ pc = "parse"
  /\ NeedMore
  /\ pc' = "read"
  /\ UNCHANGED <<sent, stream, taken, recvBuffer, msgLen, dispatched>>

\* A whole message: handleMessage(result.value()).
ParseComplete ==
  /\ pc = "parse"
  /\ Len(recvBuffer) >= Header
  /\ \E n \in MessageLength :
       /\ Complete(n)
       /\ msgLen' = n
       /\ dispatched' = Append(dispatched, SubSeq(recvBuffer, 1, n))
  /\ pc' \in {"erase", "stopped"}       \* dispatchToContext may throw
  /\ UNCHANGED <<sent, stream, taken, recvBuffer>>

\* What-if: the header stays in the buffer.
EraseHeaderOnly ==
  /\ pc = "erase"
  /\ recvBuffer' = SubSeq(recvBuffer, Header + 1, Len(recvBuffer))
  /\ pc' = "parse"
  /\ UNCHANGED <<sent, stream, taken, msgLen, dispatched>>

\* What-if: an if in place of the while, one message per read.
EraseAndRead ==
  /\ pc = "erase"
  /\ recvBuffer' = SubSeq(recvBuffer, msgLen + 1, Len(recvBuffer))
  /\ pc' = "read"
  /\ UNCHANGED <<sent, stream, taken, msgLen, dispatched>>

\* recvBuffer_.erase(begin, begin + msgLen)
Erase ==
  /\ pc = "erase"
  /\ recvBuffer' = SubSeq(recvBuffer, msgLen + 1, Len(recvBuffer))
  /\ pc' = "parse"
  /\ UNCHANGED <<sent, stream, taken, msgLen, dispatched>>

-----------------------------------------------------------------------------
ReadLoop == ReadSome \/ ParseIncomplete \/ ParseComplete \/ Erase

Next == DeviceSends \/ ReadLoop \/ ReadError

\* Bytes that arrived are read, and a handler that started goes on.
Spec == Init /\ [][Next]_vars /\ WF_vars(ReadLoop)

-----------------------------------------------------------------------------
\* Properties

SentMessage == [len : 0..MaxLen, at : Nat]
Bytes == [msg : Nat \ {0}, off : Nat \ {0}]

TypeOK ==
  /\ sent \in Seq(SentMessage)
  /\ stream \in Seq(Bytes)
  /\ taken \in 0..Len(stream)
  /\ recvBuffer \in Seq(Bytes)
  /\ pc \in PC
  /\ msgLen \in 0..Header + MaxLen
  /\ dispatched \in Seq(Seq(Bytes))

(* Whatever way the stream is cut into reads, the k-th message dispatched  *)
(* is the k-th message sent, byte for byte: none is split, merged with the *)
(* next, dropped or dispatched twice.                                      *)
MessagesIntact ==
  /\ Len(dispatched) <= Len(sent)
  /\ \A k \in DOMAIN dispatched : dispatched[k] = BytesOf(k, sent[k].len)

(* The loop goes back to reading only when no whole message is left in the *)
(* buffer, which therefore never holds more than one message less a byte.  *)
DrainedBeforeRead ==
  pc = "read" => \/ Len(recvBuffer) < Header
                 \/ Len(recvBuffer) < Total(Len(dispatched) + 1)

(* Every message the device sent is dispatched in the end, however late    *)
(* its last byte came, unless the loop was stopped.                        *)
EventuallyDispatched == []<>(Len(dispatched) = Len(sent) \/ pc = "stopped")
=============================================================================
