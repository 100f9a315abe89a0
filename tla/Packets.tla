------------------------------ MODULE Packets ------------------------------
(***************************************************************************)
(* The bytes of a push: pushFile reads the file into a buffer it uses      *)
(* again for every block, AdbSyncProtocol puts a tag and a length before   *)
(* what was read, AdbProtocol a header before that.  The device takes all  *)
(* of it apart again; its header is the one parseAdbMessage reads.         *)
(*                                                                         *)
(* Fields have four bytes, the lowest first; how many values a byte has is *)
(* a parameter.  A tag (four letters in the code) is a byte.  Stream ids   *)
(* are unsigned in a packet and int in the handler.  Who waits for which   *)
(* answer is the subject of PushHandler.                                   *)
(***************************************************************************)
EXTENDS Integers, Sequences, SequencesExt

CONSTANTS Byte,         \* values of a byte: 256
          BlockSize,    \* of pushFile: 1024
          Files,        \* contents of a file
          Paths,        \* remotePathWithPerm
          Ids           \* ids of streams, as unsigned

Unsigned == Byte * Byte * Byte * Byte
FieldLen == 4     \* bytes of an unsigned
Tag == 1          \* bytes of a tag

\* The tags of this module are bytes.
ASSUME ByteAssumption == Byte \in Nat /\ Byte > 3
\* The lengths of a record and of its data fit in an unsigned.
ASSUME BlockAssumption == BlockSize \in Nat \ {0} /\ Tag + FieldLen + BlockSize < Unsigned
ASSUME FilesAssumption == Files \subseteq Seq(0 .. Byte - 1)
ASSUME PathsAssumption ==
  Paths \subseteq Seq(0 .. Byte - 1) /\ \A p \in Paths : Tag + FieldLen + Len(p) < Unsigned
ASSUME IdsAssumption == Ids \subseteq 0 .. Unsigned - 1

VARIABLES
  doing,          \* "open", "send", "data", "done": what pushFile sends next; "over"
  file, path,     \* what is pushed, and where
  localId,        \* our id of the stream, and
  theirs,         \*   the device's
  buffer, at,     \* the vector pushFile reads into, and how far it has read
  wire,           \* a packet on its way, <<>> if none
  held,           \* sync bytes of the device it has not used
  written         \* what the device has made of the others

packetVars == <<doing, file, path, localId, theirs, buffer, at, wire, held, written>>

Nothing == [path |-> <<>>, file |-> <<>>, done |-> FALSE]

PacketInit ==
  /\ doing = "open" /\ file \in Files /\ path \in Paths
  /\ localId \in Ids /\ theirs \in Ids
  /\ buffer = [i \in 1 .. BlockSize |-> 0] /\ at = 0
  /\ wire = <<>> /\ held = <<>> /\ written = Nothing

-----------------------------------------------------------------------------
\* Fields

\* append(val), for an unsigned or an int: the conversion is modulo 2^32.
Field(val) ==
  LET u == val % Unsigned
      v == u \div Byte
      w == v \div Byte
  IN  <<u % Byte, v % Byte, w % Byte, (w \div Byte) % Byte>>

\* extract(o)
Extract(bytes, o) ==
  bytes[o + 1] + Byte * (bytes[o + 2] + Byte * (bytes[o + 3] + Byte * bytes[o + 4]))

\* An unsigned assigned to an int: remote_id = msg.arg0.
AsInt(u) == IF u < Unsigned \div 2 THEN u ELSE u - Unsigned

-----------------------------------------------------------------------------
\* AdbProtocol: a code for each command, as far as a push needs them.

OPEN == 1
WRTE == 2
CLSE == 3

getPayloadChecksum(payload) == FoldLeft(LAMBDA n, x : (n + x) % Unsigned, 0, payload)

generateMessage(command, arg0, arg1, payload) ==
  Field(command) \o Field(arg0) \o Field(arg1) \o Field(Len(payload))
    \o Field(getPayloadChecksum(payload)) \o Field(Unsigned - 1 - command) \o payload

HeaderLength == 6 * FieldLen

parseAdbMessage(bytes) ==
  [command |-> Extract(bytes, 0), arg0 |-> Extract(bytes, FieldLen),
   arg1 |-> Extract(bytes, 2 * FieldLen), payloadLength |-> Extract(bytes, 3 * FieldLen),
   payload |-> SubSeq(bytes, HeaderLength + 1, HeaderLength + Extract(bytes, 3 * FieldLen))]

\* What-if: the terminating zero is not counted.
generateOpenUncounted(id, dest) == Append(generateMessage(OPEN, id, 0, dest), 0)

generateOpen(id, dest) == generateMessage(OPEN, id, 0, Append(dest, 0))
generateWrite(id, remote, data) == generateMessage(WRTE, id, remote, data)
generateClose(id, remote) == generateMessage(CLSE, id, remote, <<>>)

-----------------------------------------------------------------------------
\* AdbSyncProtocol

SEND == 1
DATA == 2
DONE == 3

generateSEND(remotePathWithMode) == <<SEND>> \o Field(Len(remotePathWithMode)) \o remotePathWithMode

\* What-if: the whole buffer is appended.
generateDATAWhole(buf, len) == <<DATA>> \o Field(len) \o buf

generateDATA(buf, len) == <<DATA>> \o Field(len) \o SubSeq(buf, 1, len)

generateDONE(mtime) == <<DONE>> \o Field(mtime)

-----------------------------------------------------------------------------
\* openSyn and pushFile

remoteId == AsInt(theirs)
Sends(packet) == wire = <<>> /\ wire' = packet
Sync == <<3>>      \* "sync:"

SendOpen ==
  /\ doing = "open" /\ doing' = "send"
  /\ Sends(generateOpen(localId, Sync))
  /\ UNCHANGED <<file, path, localId, theirs, buffer, at, held, written>>

SendPath ==
  /\ doing = "send" /\ doing' = "data"
  /\ Sends(generateWrite(localId, remoteId, generateSEND(path)))
  /\ UNCHANGED <<file, path, localId, theirs, buffer, at, held, written>>

\* file.read fills the front of the buffer; gcount is less at the end.  (The code
\* gives the ids to generateDATA, which takes none: read as the WRTE of the ids.)
gcount == IF Len(file) - at < BlockSize THEN Len(file) - at ELSE BlockSize

SendBlock ==
  /\ doing = "data" /\ gcount > 0
  /\ buffer' = [i \in 1 .. BlockSize |-> IF i <= gcount THEN file[at + i] ELSE buffer[i]]
  /\ at' = at + gcount
  /\ Sends(generateWrite(localId, remoteId, generateDATA(buffer', gcount)))
  /\ UNCHANGED <<doing, file, path, localId, theirs, held, written>>

\* mtime is any time.
SendDone ==
  /\ doing = "data" /\ gcount = 0 /\ doing' = "done"
  /\ \E mtime \in {0, Unsigned - 1} :
       Sends(generateWrite(localId, remoteId, generateDONE(mtime)))
  /\ UNCHANGED <<file, path, localId, theirs, buffer, at, held, written>>

SendClose ==
  /\ doing = "done" /\ doing' = "over"
  /\ Sends(generateClose(localId, remoteId))
  /\ UNCHANGED <<file, path, localId, theirs, buffer, at, held, written>>

-----------------------------------------------------------------------------
\* The device: it reads tag, number and, but for DONE, as many bytes as that is.

Takes ==
  /\ wire # <<>> /\ wire' = <<>>
  /\ LET m == parseAdbMessage(wire)
     IN  held' = IF m.command = WRTE /\ m.arg1 = theirs THEN held \o m.payload ELSE held
  /\ UNCHANGED <<doing, file, path, localId, theirs, buffer, at, written>>

\* The length of the record that begins what is held, once that can be read.
RecordLength == Tag + FieldLen + IF held[1] = DONE THEN 0 ELSE Extract(held, Tag)

HoldsRecord == Len(held) >= Tag + FieldLen /\ Len(held) >= RecordLength

Record ==
  /\ HoldsRecord
  /\ held' = SubSeq(held, RecordLength + 1, Len(held))
  /\ LET data == SubSeq(held, Tag + FieldLen + 1, RecordLength)
     IN  written' = CASE held[1] = SEND -> [written EXCEPT !.path = data]
                      [] held[1] = DATA -> [written EXCEPT !.file = @ \o data]
                      [] held[1] = DONE -> [written EXCEPT !.done = TRUE]
                      [] OTHER -> Nothing
  /\ UNCHANGED <<doing, file, path, localId, theirs, buffer, at, wire>>

-----------------------------------------------------------------------------
Pushes == SendOpen \/ SendPath \/ SendBlock \/ SendDone \/ SendClose

PacketNext == Pushes \/ Takes \/ Record

PacketSpec == PacketInit /\ [][PacketNext]_packetVars

-----------------------------------------------------------------------------
\* Properties

(* The device's file is the file, block by block, also when its length is   *)
(* no multiple of the block and the buffer still holds the block before;   *)
(* a push that is over left nothing out and nothing over.                  *)
FileIntact ==
  /\ IsPrefix(written.file, file) /\ (written.path = <<>> \/ written.path = path)
  /\ doing = "over" /\ wire = <<>> /\ ~HoldsRecord =>
       held = <<>> /\ written = [path |-> path, file |-> file, done |-> TRUE]

(* Every packet is read back as it was made: the ids of both sides, also    *)
(* those with the highest bit set, which are negative in the handler, and  *)
(* a length that leaves no byte of it to the next packet.                  *)
PacketIntact ==
  wire # <<>> =>
    LET m == parseAdbMessage(wire)
    IN  /\ m.arg0 = localId
        /\ m.arg1 = IF m.command = OPEN THEN 0 ELSE theirs
        /\ HeaderLength + m.payloadLength = Len(wire)
=============================================================================
