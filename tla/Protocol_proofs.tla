--------------------------- MODULE Protocol_proofs ---------------------------
(***************************************************************************)
(* The two directions of AdbProtocol, as MCFraming checks them.            *)
(*                                                                         *)
(* Framing: the receive loop cuts the stream back into the messages sent,  *)
(* for every header size, read size and number of messages.  The inductive *)
(* invariant ties the buffer to positions of the stream: it is the stretch *)
(* of it from the end of the last message dispatched (Layout,              *)
(* BufferIsStream, AtBoundary).                                            *)
(*                                                                         *)
(* Packets: the device reads back every packet of a push, and has in the   *)
(* end the file, for every file, path, block size and pair of ids.  The    *)
(* inductive invariant (PacketsInv) says that there is a list of records,  *)
(* made from the file one behind the other, of which the device has used   *)
(* the first r and holds those up to s, while the one at s, if it was      *)
(* made, is the payload on the wire.                                       *)
(***************************************************************************)
EXTENDS Framing, Packets, SequenceTheorems, TLAPS

\* Where message k ends in the stream.
EndOf(k) == IF k = 0 THEN 0 ELSE sent[k].at + Total(k)

\* The messages lie in the stream one behind the other.
Layout ==
  /\ Len(stream) = EndOf(Len(sent))
  /\ \A k \in DOMAIN sent : /\ sent[k].at = EndOf(k - 1)
                            /\ EndOf(k) <= Len(stream)
                            /\ \A o \in 1 .. Total(k) :
                                 stream[sent[k].at + o] = [msg |-> k, off |-> o]

\* How much of the stream is no longer in the buffer.
Erased == taken - Len(recvBuffer)

BufferIsStream ==
  /\ Len(recvBuffer) <= taken
  /\ \A n \in DOMAIN recvBuffer : recvBuffer[n] = stream[Erased + n]

\* The buffer starts at the end of the last message dispatched, or, until
\* Erase, at its start.
AtBoundary ==
  /\ pc \in {"read", "parse"} => Erased = EndOf(Len(dispatched))
  /\ pc = "erase" => /\ Len(dispatched) # 0
                     /\ Erased = sent[Len(dispatched)].at
                     /\ msgLen = Total(Len(dispatched))
                     /\ msgLen <= Len(recvBuffer)

IInv == TypeOK /\ Layout /\ BufferIsStream /\ MessagesIntact /\ AtBoundary /\ DrainedBeforeRead

-----------------------------------------------------------------------------
LEMMA Lengths ==
  ASSUME TypeOK, NEW k \in DOMAIN sent
  PROVE  /\ sent[k].len \in 0..MaxLen /\ sent[k].len \in Nat /\ sent[k].at \in Nat
         /\ Total(k) \in Nat /\ Total(k) >= 1 /\ Total(k) >= Header
         /\ Total(k) <= Header + MaxLen /\ Total(k) < Wrap
         /\ EndOf(k) \in Nat
<1>1. sent[k] \in SentMessage
  BY DEF TypeOK
<1>2. k \in Nat \ {0}
  BY DEF TypeOK
<1>3. sent[k].len \in 0..MaxLen /\ sent[k].at \in Nat
  BY <1>1 DEF SentMessage
<1> QED BY <1>2, <1>3, HeaderAssumption, LengthAssumption DEF Total, EndOf

LEMMA BytesOfSeq ==
  ASSUME NEW k \in Nat \ {0}, NEW len \in Nat
  PROVE  /\ BytesOf(k, len) \in Seq(Bytes)
         /\ Len(BytesOf(k, len)) = Header + len
         /\ \A o \in 1 .. Header + len : BytesOf(k, len)[o] = [msg |-> k, off |-> o]
<1>1. Header + len \in Nat
  BY HeaderAssumption
<1>2. \A o \in 1 .. Header + len : [msg |-> k, off |-> o] \in Bytes
  BY <1>1 DEF Bytes
<1> QED BY <1>1, <1>2 DEF BytesOf

\* A stretch of a sequence.
LEMMA Stretch ==
  ASSUME NEW S, NEW s \in Seq(S), NEW a \in Nat, NEW b \in Nat, a <= b, b <= Len(s)
  PROVE  /\ SubSeq(s, a + 1, b) \in Seq(S)
         /\ Len(SubSeq(s, a + 1, b)) = b - a
         /\ \A n \in 1 .. b - a : SubSeq(s, a + 1, b)[n] = s[a + n]
  OBVIOUS

LEMMA Glue ==
  ASSUME NEW S, NEW s \in Seq(S), NEW t \in Seq(S)
  PROVE  /\ s \o t \in Seq(S)
         /\ Len(s \o t) = Len(s) + Len(t)
         /\ \A n \in 1 .. Len(s) : (s \o t)[n] = s[n]
         /\ \A n \in 1 .. Len(t) : (s \o t)[Len(s) + n] = t[n]
         /\ \A n \in Len(s) + 1 .. Len(s) + Len(t) : (s \o t)[n] = t[n - Len(s)]
  OBVIOUS

LEMMA AppendSeq ==
  ASSUME NEW S, NEW s \in Seq(S), NEW e \in S
  PROVE  /\ Append(s, e) \in Seq(S)
         /\ Len(Append(s, e)) = Len(s) + 1
         /\ DOMAIN Append(s, e) = 1 .. Len(s) + 1
         /\ Append(s, e)[Len(s) + 1] = e
         /\ \A j \in 1 .. Len(s) : Append(s, e)[j] = s[j]
  OBVIOUS

LEMMA SeqIsFunction ==
  ASSUME NEW S, NEW s \in Seq(S)
  PROVE  s = [n \in 1 .. Len(s) |-> s[n]]
  OBVIOUS

LEMMA MinusMinus ==
  ASSUME NEW a \in Nat, NEW b \in Nat, NEW c \in Nat
  PROVE  a - (b - c) = a - b + c
  OBVIOUS

LEMMA Within ==
  ASSUME NEW a \in Nat, NEW t \in Nat, NEW l \in Nat, a + t <= l, NEW o \in 1 .. t
  PROVE  a + o \in 1 .. l
  OBVIOUS

LEMMA EmptyDomain == DOMAIN <<>> = {}
  OBVIOUS

LEMMA InitInv == Init => IInv
<1> SUFFICES ASSUME Init PROVE IInv
  OBVIOUS
<1>1. TypeOK
  <2>1. msgLen \in 0..Header + MaxLen
    BY HeaderAssumption, LengthAssumption DEF Init
  <2>2. taken \in 0..Len(stream)
    BY DEF Init
  <2>3. sent \in Seq(SentMessage) /\ stream \in Seq(Bytes)
    BY DEF Init
  <2>4. recvBuffer \in Seq(Bytes) /\ dispatched \in Seq(Seq(Bytes))
    BY DEF Init
  <2> QED BY <2>1, <2>2, <2>3, <2>4 DEF Init, TypeOK, PC
<1>2. Len(sent) = 0 /\ Len(stream) = 0 /\ Len(recvBuffer) = 0 /\ Len(dispatched) = 0
  BY DEF Init
<1>4. Layout /\ BufferIsStream /\ MessagesIntact /\ AtBoundary
  <2>1. DOMAIN sent = {} /\ DOMAIN recvBuffer = {} /\ DOMAIN dispatched = {}
    <3>1. sent = <<>> /\ recvBuffer = <<>> /\ dispatched = <<>>
      BY DEF Init
    <3> QED BY <3>1, <1>2, EmptyDomain
  <2>2. EndOf(Len(sent)) = 0 /\ EndOf(Len(dispatched)) = 0 /\ Erased = 0 /\ taken = 0
    <3>1. taken = 0
      BY DEF Init
    <3> QED BY <1>2, <3>1 DEF EndOf, Erased
  <2>3. Layout /\ BufferIsStream
    BY <1>2, <2>1, <2>2 DEF Layout, BufferIsStream
  <2>4. MessagesIntact /\ AtBoundary
    BY <1>2, <2>1, <2>2 DEF Init, MessagesIntact, AtBoundary
  <2> QED BY <2>3, <2>4
<1>3. DrainedBeforeRead
  BY HeaderAssumption DEF Init, DrainedBeforeRead
<1> QED BY <1>1, <1>4, <1>3 DEF IInv

\* A buffer that holds a header holds the start of a message that was sent.
LEMMA NextIsSent ==
  ASSUME IInv, pc \in {"read", "parse"}, Len(recvBuffer) >= Header
  PROVE  Len(dispatched) + 1 \in 1 .. Len(sent)
<1>0. /\ taken \in Nat /\ taken <= Len(stream) /\ Len(stream) \in Nat /\ Len(recvBuffer) \in Nat
      /\ Len(dispatched) \in Nat /\ Len(sent) \in Nat /\ Len(dispatched) <= Len(sent)
  BY DEF IInv, TypeOK, MessagesIntact
<1>1. Erased = EndOf(Len(dispatched)) /\ Len(recvBuffer) >= 1
  BY <1>0, HeaderAssumption DEF IInv, AtBoundary
<1> SUFFICES ASSUME Len(dispatched) = Len(sent) PROVE FALSE
  BY <1>0
<1>2. Erased = Len(stream)
  BY <1>1 DEF IInv, Layout
<1> QED BY <1>0, <1>1, <1>2 DEF Erased

\* What parseAdbMessage finds when the buffer holds a header: the length of
\* the next message to dispatch.
LEMMA HeaderFound ==
  ASSUME IInv, pc = "parse", Len(recvBuffer) >= Header
  PROVE  LET k == Len(dispatched) + 1 IN
         /\ k \in DOMAIN sent /\ Erased = sent[k].at
         /\ MessageLength = {Total(k)}
         /\ \A n \in 1 .. Len(recvBuffer) :
              n <= Total(k) => recvBuffer[n] = [msg |-> k, off |-> n]
<1> DEFINE k == Len(dispatched) + 1
<1>0. /\ taken \in Nat /\ taken <= Len(stream) /\ Len(stream) \in Nat /\ Len(recvBuffer) \in Nat
      /\ Len(dispatched) \in Nat /\ Len(sent) \in Nat /\ DOMAIN sent = 1 .. Len(sent)
      /\ Len(dispatched) <= Len(sent) /\ DOMAIN recvBuffer = 1 .. Len(recvBuffer)
  BY DEF IInv, TypeOK, MessagesIntact
<1>1. Erased = EndOf(Len(dispatched)) /\ Len(recvBuffer) >= 1
  BY <1>0, HeaderAssumption DEF IInv, AtBoundary
<1>2. k \in DOMAIN sent
  BY <1>0, NextIsSent
<1>3. Erased = sent[k].at
  <2>1. k - 1 = Len(dispatched)
    BY <1>0
  <2> QED BY <1>1, <1>2, <2>1 DEF IInv, Layout
<1>4. /\ Total(k) \in Nat /\ Total(k) >= Header /\ Total(k) < Wrap /\ sent[k].len \in Nat
  BY <1>2, Lengths DEF IInv
<1>5. \A n \in 1 .. Len(recvBuffer) :
        n <= Total(k) => recvBuffer[n] = [msg |-> k, off |-> n]
  <2> SUFFICES ASSUME NEW n \in 1 .. Len(recvBuffer), n <= Total(k)
               PROVE  recvBuffer[n] = [msg |-> k, off |-> n]
    OBVIOUS
  <2>1. recvBuffer[n] = stream[sent[k].at + n]
    BY <1>0, <1>3 DEF IInv, BufferIsStream
  <2>2. n \in 1 .. Total(k)
    BY <1>0, <1>4
  <2> QED BY <1>2, <2>1, <2>2 DEF IInv, Layout
<1>6. recvBuffer[LenAt] = [msg |-> k, off |-> LenAt]
  <2>1. LenAt \in 1 .. Len(recvBuffer) /\ LenAt <= Total(k)
    BY <1>0, <1>4, HeaderAssumption
  <2> QED BY <1>5, <2>1
<1>7. MessageLength = {Plus(Header, sent[k].len)}
  BY <1>6 DEF MessageLength, LengthField
<1>8. Plus(Header, sent[k].len) = Total(k)
  BY <1>4 DEF Total, Plus
<1> QED BY <1>2, <1>3, <1>5, <1>7, <1>8

-----------------------------------------------------------------------------
\* One lemma per action; TypeOK' is part of each.

LEMMA DeviceSendsStep == ASSUME IInv, DeviceSends PROVE IInv'
<1> USE DEF DeviceSends
<1>0. PICK k \in Nat \ {0} : k = Len(sent) + 1
  BY DEF IInv, TypeOK
<1>1. PICK len \in 0..MaxLen :
        /\ sent' = Append(sent, [len |-> len, at |-> Len(stream)])
        /\ stream' = stream \o BytesOf(k, len)
  BY <1>0
<1>2. /\ len \in Nat /\ k = Len(sent) + 1 /\ Len(sent) \in Nat /\ Len(stream) \in Nat
      /\ sent \in Seq(SentMessage) /\ stream \in Seq(Bytes) /\ DOMAIN sent = 1 .. Len(sent)
      /\ [len |-> len, at |-> Len(stream)] \in SentMessage
  BY <1>0, LengthAssumption DEF IInv, TypeOK, SentMessage
<1>3. /\ sent' \in Seq(SentMessage) /\ Len(sent') = k /\ DOMAIN sent' = 1 .. k
      /\ sent'[k] = [len |-> len, at |-> Len(stream)]
      /\ \A j \in 1 .. Len(sent) : sent'[j] = sent[j]
  BY <1>1, <1>2
<1>4. /\ stream' \in Seq(Bytes) /\ Len(stream') = Len(stream) + Header + len
      /\ \A n \in 1 .. Len(stream) : stream'[n] = stream[n]
      /\ \A o \in 1 .. Header + len : stream'[Len(stream) + o] = [msg |-> k, off |-> o]
  <2>1. /\ BytesOf(k, len) \in Seq(Bytes) /\ Len(BytesOf(k, len)) = Header + len
        /\ \A o \in 1 .. Header + len : BytesOf(k, len)[o] = [msg |-> k, off |-> o]
    BY <1>2, BytesOfSeq
  <2>2. Header + len \in Nat
    BY <1>2, HeaderAssumption
  <2>3. Len(stream) + Header + len = Len(stream) + (Header + len)
    BY <1>2, HeaderAssumption
  <2>4. stream \in Seq(Bytes) /\ stream' = stream \o BytesOf(k, len)
    BY <1>1, <1>2
  <2>5. PICK bytes \in Seq(Bytes) : bytes = BytesOf(k, len)
    BY <2>1
  <2>6. /\ stream \o bytes \in Seq(Bytes) /\ Len(stream \o bytes) = Len(stream) + Len(bytes)
        /\ \A n \in 1 .. Len(stream) : (stream \o bytes)[n] = stream[n]
        /\ \A o \in 1 .. Len(bytes) : (stream \o bytes)[Len(stream) + o] = bytes[o]
    BY <2>4, Glue
  <2>7. Len(bytes) = Header + len /\ stream' = stream \o bytes
    BY <2>1, <2>4, <2>5
  <2>8. \A o \in 1 .. Header + len : bytes[o] = [msg |-> k, off |-> o]
    BY <2>1, <2>5
  <2>9. stream' \in Seq(Bytes) /\ Len(stream') = Len(stream) + Header + len
    BY <2>3, <2>6, <2>7
  <2>10. \A n \in 1 .. Len(stream) : stream'[n] = stream[n]
    BY <2>6, <2>7
  <2>11. \A o \in 1 .. Header + len : stream'[Len(stream) + o] = [msg |-> k, off |-> o]
    BY <2>6, <2>7, <2>8
  <2> QED BY <2>9, <2>10, <2>11
<1>5. Header \in Nat /\ Len(stream') \in Nat /\ Len(stream) <= Len(stream')
  BY <1>2, <1>4, HeaderAssumption
<1>6. UNCHANGED <<taken, recvBuffer, pc, msgLen, dispatched>>
  OBVIOUS
<1>7. TypeOK'
  BY <1>3, <1>4, <1>5, <1>6 DEF IInv, TypeOK
<1>8. /\ \A j \in 1 .. Len(sent) : Total(j)' = Total(j) /\ EndOf(j)' = EndOf(j)
      /\ EndOf(0)' = 0 /\ EndOf(0) = 0
      /\ Total(k)' = Header + len /\ EndOf(k)' = Len(stream) + Header + len
      /\ EndOf(k - 1)' = EndOf(Len(sent))
  <2>1. \A j \in 1 .. Len(sent) : Total(j)' = Total(j) /\ EndOf(j)' = EndOf(j)
    BY <1>2, <1>3 DEF Total, EndOf
  <2>2. EndOf(0)' = 0 /\ EndOf(0) = 0
    BY DEF EndOf
  <2>3. Total(k)' = Header + len /\ EndOf(k)' = Len(stream) + Header + len
    BY <1>2, <1>3, <1>5 DEF Total, EndOf
  <2>4. k - 1 = Len(sent)
    BY <1>2
  <2> QED BY <1>2, <2>1, <2>2, <2>3, <2>4
<1>9. Layout'
  <2>1. Len(stream') = EndOf(k)' /\ EndOf(Len(sent))' = EndOf(k)'
    BY <1>3, <1>4, <1>8
  <2>2. ASSUME NEW j \in 1 .. Len(sent)
        PROVE  /\ sent'[j].at = EndOf(j - 1)' /\ EndOf(j)' <= Len(stream')
               /\ \A o \in 1 .. Total(j)' : stream'[sent'[j].at + o] = [msg |-> j, off |-> o]
    <3>1. /\ sent[j].at = EndOf(j - 1) /\ EndOf(j) <= Len(stream) /\ EndOf(j) \in Nat
          /\ \A o \in 1 .. Total(j) : stream[sent[j].at + o] = [msg |-> j, off |-> o]
          /\ Total(j) \in Nat /\ sent[j].at \in Nat
      BY <1>2, Lengths DEF IInv, Layout
    <3>2. EndOf(j - 1)' = EndOf(j - 1)
      BY <1>2, <1>8
    <3>3. EndOf(j) = sent[j].at + Total(j)
      BY DEF EndOf
    <3>4. \A o \in 1 .. Total(j) : stream'[sent[j].at + o] = [msg |-> j, off |-> o]
      <4> SUFFICES ASSUME NEW o \in 1 .. Total(j)
                   PROVE  stream'[sent[j].at + o] = [msg |-> j, off |-> o]
        OBVIOUS
      <4>0. Len(stream) \in Nat /\ sent[j].at \in Nat /\ Total(j) \in Nat
        BY <1>2, <3>1
      <4>2. sent[j].at + Total(j) <= Len(stream)
        BY <3>1, <3>3
      <4>1. sent[j].at + o \in 1 .. Len(stream)
        BY <4>0, <4>2, Within
      <4> QED BY <1>4, <3>1, <4>1
    <3>5. sent'[j] = sent[j] /\ EndOf(j)' = EndOf(j) /\ Total(j)' = Total(j)
      BY <1>3, <1>8
    <3>6. EndOf(j) <= Len(stream')
      BY <1>2, <1>5, <3>1
    <3> QED BY <3>1, <3>2, <3>4, <3>5, <3>6
  <2>3. /\ sent'[k].at = EndOf(k - 1)' /\ EndOf(k)' <= Len(stream')
        /\ \A o \in 1 .. Total(k)' : stream'[sent'[k].at + o] = [msg |-> k, off |-> o]
    <3>1. sent'[k].at = Len(stream) /\ Len(stream) = EndOf(Len(sent))
      BY <1>3 DEF IInv, Layout
    <3>2. EndOf(k)' <= Len(stream')
      BY <1>4, <1>5, <1>8
    <3>3. \A o \in 1 .. Total(k)' : stream'[Len(stream) + o] = [msg |-> k, off |-> o]
      BY <1>4, <1>8
    <3> QED BY <1>8, <3>1, <3>2, <3>3
  <2>4. \A j \in 1 .. k : j = k \/ j \in 1 .. Len(sent)
    BY <1>2
  <2> QED BY <1>3, <2>1, <2>2, <2>3, <2>4 DEF Layout
<1>10. BufferIsStream'
  <2>1. Erased' = Erased
    BY <1>6 DEF Erased
  <2>2. ASSUME NEW n \in DOMAIN recvBuffer PROVE stream'[Erased + n] = stream[Erased + n]
    <3>1. Erased + n \in 1 .. Len(stream)
      BY DEF IInv, TypeOK, BufferIsStream, Erased
    <3> QED BY <1>4, <3>1
  <2> QED BY <1>6, <2>1, <2>2 DEF IInv, BufferIsStream
<1>11. MessagesIntact'
  <2>1. \A j \in DOMAIN dispatched : j \in 1 .. Len(sent)
    BY <1>2 DEF IInv, TypeOK, MessagesIntact
  <2>2. Len(dispatched) <= Len(sent')
    BY <1>2, <1>3 DEF IInv, TypeOK, MessagesIntact
  <2> QED BY <1>3, <1>6, <2>1, <2>2 DEF IInv, MessagesIntact, BytesOf
<1>12. AtBoundary'
  <2>1. Len(dispatched) \in Nat /\ Len(dispatched) <= Len(sent)
    BY DEF IInv, TypeOK, MessagesIntact
  <2>2. EndOf(Len(dispatched))' = EndOf(Len(dispatched))
    BY <1>2, <1>6, <1>8, <2>1
  <2>3. Len(dispatched) # 0 => /\ sent'[Len(dispatched)] = sent[Len(dispatched)]
                               /\ Total(Len(dispatched))' = Total(Len(dispatched))
    BY <1>2, <1>3, <1>6, <1>8, <2>1
  <2>4. Erased' = Erased
    BY <1>6 DEF Erased
  <2> QED BY <1>6, <2>2, <2>3, <2>4 DEF IInv, AtBoundary
<1>13. DrainedBeforeRead'
  <2> SUFFICES ASSUME pc = "read", Len(recvBuffer) >= Header
               PROVE  Len(recvBuffer) < Total(Len(dispatched) + 1)'
    BY <1>5, <1>6 DEF DrainedBeforeRead, IInv, TypeOK
  <2>1. Len(dispatched) + 1 \in 1 .. Len(sent)
    BY NextIsSent
  <2>2. PICK d \in Nat : d = Len(dispatched) + 1 /\ d \in 1 .. Len(sent)
    BY <2>1
  <2>3. Total(d)' = Total(d) /\ Len(dispatched') + 1 = d
    BY <1>6, <1>8, <2>2
  <2>4. Len(recvBuffer) < Total(d)
    <3>1. Len(recvBuffer) \in Nat /\ ~(Len(recvBuffer) < Header)
      BY <1>5 DEF IInv, TypeOK
    <3>2. Len(recvBuffer) < Total(Len(dispatched) + 1)
      BY <3>1 DEF IInv, DrainedBeforeRead
    <3> QED BY <2>2, <3>2
  <2> QED BY <2>2, <2>3, <2>4
<1> QED BY <1>7, <1>9, <1>10, <1>11, <1>12, <1>13 DEF IInv

LEMMA ReadSomeStep == ASSUME IInv, ReadSome PROVE IInv'
<1> USE DEF ReadSome
<1>1. PICK n \in 1..TempBuf :
        /\ taken + n <= Len(stream)
        /\ recvBuffer' = recvBuffer \o SubSeq(stream, taken + 1, taken + n)
        /\ taken' = taken + n
  OBVIOUS
<1>2. /\ n \in Nat /\ taken \in Nat /\ stream \in Seq(Bytes) /\ recvBuffer \in Seq(Bytes)
      /\ Len(stream) \in Nat /\ Len(recvBuffer) \in Nat /\ taken + n \in Nat /\ taken <= taken + n
      /\ (taken + n) - taken = n /\ DOMAIN recvBuffer = 1 .. Len(recvBuffer)
  BY BufferAssumption DEF IInv, TypeOK
<1> DEFINE new == SubSeq(stream, taken + 1, taken + n)
<1>3. /\ new \in Seq(Bytes) /\ Len(new) = n
      /\ \A m \in 1 .. n : new[m] = stream[taken + m]
  BY <1>1, <1>2, Stretch
<1>4. /\ recvBuffer' \in Seq(Bytes) /\ Len(recvBuffer') = Len(recvBuffer) + n
      /\ \A m \in 1 .. Len(recvBuffer) : recvBuffer'[m] = recvBuffer[m]
      /\ \A m \in Len(recvBuffer) + 1 .. Len(recvBuffer) + n :
           recvBuffer'[m] = new[m - Len(recvBuffer)]
  <2> HIDE DEF new
  <2>1. recvBuffer' = recvBuffer \o new
    BY <1>1 DEF new
  <2>3. recvBuffer \in Seq(Bytes) /\ new \in Seq(Bytes)
    BY <1>2, <1>3
  <2>2. /\ recvBuffer \o new \in Seq(Bytes)
        /\ Len(recvBuffer \o new) = Len(recvBuffer) + Len(new)
        /\ \A m \in 1 .. Len(recvBuffer) : (recvBuffer \o new)[m] = recvBuffer[m]
        /\ \A m \in Len(recvBuffer) + 1 .. Len(recvBuffer) + Len(new) :
             (recvBuffer \o new)[m] = new[m - Len(recvBuffer)]
    BY <2>3, Glue
  <2>4. Len(new) = n
    BY <1>3
  <2> QED BY <2>1, <2>2, <2>4
<1> HIDE DEF new
<1>5. UNCHANGED <<sent, stream, msgLen, dispatched>> /\ pc = "read" /\ pc' = "parse"
  OBVIOUS
<1>6. TypeOK'
  BY <1>1, <1>2, <1>4, <1>5 DEF IInv, TypeOK, PC
<1>7. Layout' /\ MessagesIntact'
  BY <1>5 DEF IInv, Layout, MessagesIntact, EndOf, Total, BytesOf
<1>8. Erased' = Erased
  BY <1>1, <1>2, <1>4 DEF Erased
<1>9. BufferIsStream'
  <2>1. Len(recvBuffer) <= taken
    BY DEF IInv, BufferIsStream
  <2>2. Len(recvBuffer') <= taken'
    BY <1>1, <1>2, <1>4, <2>1
  <2>3. ASSUME NEW m \in 1 .. Len(recvBuffer') PROVE recvBuffer'[m] = stream[Erased + m]
    <3>1. CASE m <= Len(recvBuffer)
      <4>1. m \in 1 .. Len(recvBuffer)
        BY <1>2, <1>4, <3>1
      <4> QED BY <1>2, <1>4, <4>1 DEF IInv, BufferIsStream
    <3>2. CASE m > Len(recvBuffer)
      <4>1. /\ m \in Len(recvBuffer) + 1 .. Len(recvBuffer) + n
            /\ m - Len(recvBuffer) \in 1 .. n
        BY <1>2, <1>4, <3>2
      <4>2. recvBuffer'[m] = stream[taken + (m - Len(recvBuffer))]
        BY <1>3, <1>4, <4>1
      <4>3. taken + (m - Len(recvBuffer)) = Erased + m
        BY <1>2, <4>1 DEF Erased
      <4> QED BY <4>2, <4>3
    <3> QED BY <1>2, <1>4, <3>1, <3>2
  <2>4. DOMAIN recvBuffer' = 1 .. Len(recvBuffer')
    BY <1>4
  <2> QED BY <1>5, <1>8, <2>2, <2>3, <2>4 DEF BufferIsStream
<1>10. AtBoundary'
  BY <1>5, <1>8 DEF IInv, AtBoundary, EndOf, Total
<1>11. DrainedBeforeRead'
  BY <1>5 DEF DrainedBeforeRead
<1> QED BY <1>6, <1>7, <1>9, <1>10, <1>11 DEF IInv

LEMMA ParseIncompleteStep == ASSUME IInv, ParseIncomplete PROVE IInv'
<1> USE DEF ParseIncomplete
<1>1. /\ UNCHANGED <<sent, stream, taken, recvBuffer, msgLen, dispatched>>
      /\ pc = "parse" /\ pc' = "read"
  OBVIOUS
<1>2. TypeOK' /\ Layout' /\ BufferIsStream' /\ MessagesIntact' /\ AtBoundary'
  <2>1. TypeOK'
    BY <1>1 DEF IInv, TypeOK, PC
  <2>2. Layout' /\ MessagesIntact'
    BY <1>1 DEF IInv, Layout, MessagesIntact, EndOf, Total
  <2>3. Erased' = Erased /\ EndOf(Len(dispatched))' = EndOf(Len(dispatched))
    BY <1>1 DEF Erased, EndOf, Total
  <2>4. BufferIsStream' /\ AtBoundary'
    BY <1>1, <2>3 DEF IInv, BufferIsStream, AtBoundary
  <2> QED BY <2>1, <2>2, <2>4
<1>3. DrainedBeforeRead'
  <2>1. Len(recvBuffer) \in Nat /\ Header \in Nat
    BY HeaderAssumption DEF IInv, TypeOK
  <2>2. CASE Len(recvBuffer) < Header
    BY <1>1, <2>2 DEF DrainedBeforeRead
  <2>3. CASE Len(recvBuffer) >= Header
    <3>1. MessageLength = {Total(Len(dispatched) + 1)} /\ Len(dispatched) + 1 \in DOMAIN sent
      BY <1>1, <2>3, HeaderFound
    <3>2. ~(Total(Len(dispatched) + 1) <= Len(recvBuffer))
      BY <2>3, <3>1 DEF NeedMore, Complete
    <3>3. Total(Len(dispatched) + 1) \in Nat
      BY <3>1, Lengths DEF IInv
    <3>4. Total(Len(dispatched) + 1)' = Total(Len(dispatched) + 1)
      BY <1>1 DEF Total
    <3> QED BY <1>1, <2>1, <3>2, <3>3, <3>4 DEF DrainedBeforeRead
  <2> QED BY <2>1, <2>2, <2>3
<1> QED BY <1>2, <1>3 DEF IInv

LEMMA ParseCompleteStep == ASSUME IInv, ParseComplete PROVE IInv'
<1> USE DEF ParseComplete
<1>0. PICK k \in Nat \ {0} : k = Len(dispatched) + 1
  BY DEF IInv, TypeOK
<1>1. /\ pc = "parse" /\ k \in DOMAIN sent /\ Erased = sent[k].at
      /\ MessageLength = {Total(k)} /\ Total(k) <= Len(recvBuffer)
      /\ \A n \in 1 .. Len(recvBuffer) : n <= Total(k) => recvBuffer[n] = [msg |-> k, off |-> n]
      /\ msgLen' = Total(k) /\ dispatched' = Append(dispatched, SubSeq(recvBuffer, 1, Total(k)))
      /\ pc' \in {"erase", "stopped"}
      /\ UNCHANGED <<sent, stream, taken, recvBuffer>>
  BY <1>0, HeaderFound DEF Complete
<1>2. /\ Total(k) \in Nat /\ Total(k) <= Header + MaxLen /\ sent[k].len \in Nat
      /\ Total(k) = Header + sent[k].len
  BY <1>1, Lengths DEF IInv, Total
<1>3. /\ recvBuffer \in Seq(Bytes) /\ dispatched \in Seq(Seq(Bytes)) /\ Len(dispatched) \in Nat
      /\ Len(recvBuffer) \in Nat /\ Len(sent) \in Nat /\ DOMAIN sent = 1 .. Len(sent)
  BY DEF IInv, TypeOK
<1> DEFINE m == SubSeq(recvBuffer, 1, Total(k))
<1>4. /\ m \in Seq(Bytes) /\ Len(m) = Total(k)
      /\ \A n \in 1 .. Total(k) : m[n] = recvBuffer[n]
  BY <1>1, <1>2, <1>3
<1>5. m = BytesOf(k, sent[k].len)
  <2>0. \A n \in 1 .. Total(k) : recvBuffer[n] = [msg |-> k, off |-> n]
    BY <1>1
  <2>1. \A n \in 1 .. Total(k) : m[n] = [msg |-> k, off |-> n]
    BY <1>4, <2>0
  <2>2. m = [n \in 1 .. Total(k) |-> [msg |-> k, off |-> n]]
    <3> HIDE DEF m
    <3>1. m = [n \in 1 .. Len(m) |-> m[n]]
      BY <1>4, SeqIsFunction
    <3> QED BY <1>4, <2>1, <3>1
  <2> QED BY <1>2, <2>2 DEF BytesOf
<1> HIDE DEF m
<1>6. dispatched' = Append(dispatched, m)
  BY <1>1 DEF m
<1>7. /\ dispatched' \in Seq(Seq(Bytes)) /\ Len(dispatched') = k /\ DOMAIN dispatched' = 1 .. k
      /\ dispatched'[k] = m /\ \A j \in 1 .. Len(dispatched) : dispatched'[j] = dispatched[j]
  <2>1. /\ Append(dispatched, m) \in Seq(Seq(Bytes))
        /\ Len(Append(dispatched, m)) = Len(dispatched) + 1
        /\ DOMAIN Append(dispatched, m) = 1 .. Len(dispatched) + 1
        /\ Append(dispatched, m)[Len(dispatched) + 1] = m
        /\ \A j \in 1 .. Len(dispatched) : Append(dispatched, m)[j] = dispatched[j]
    BY <1>3, <1>4, AppendSeq
  <2> QED BY <1>0, <1>6, <2>1
<1>8. TypeOK'
  <2>1. msgLen' \in 0..Header + MaxLen
    BY <1>1, <1>2, HeaderAssumption, LengthAssumption
  <2> QED BY <1>1, <1>7, <2>1 DEF IInv, TypeOK, PC
<1>9. Layout' /\ BufferIsStream' /\ Erased' = Erased
  <2>1. Layout'
    BY <1>1 DEF IInv, Layout, EndOf, Total
  <2>2. Erased' = Erased
    BY <1>1 DEF Erased
  <2> QED BY <1>1, <2>1, <2>2 DEF IInv, BufferIsStream
<1>10. MessagesIntact'
  <2>1. k <= Len(sent)
    BY <1>1, <1>3
  <2>2. \A j \in 1 .. k : j = k \/ j \in 1 .. Len(dispatched)
    BY <1>0, <1>3
  <2>3. \A j \in 1 .. Len(dispatched) : dispatched[j] = BytesOf(j, sent[j].len)
    <3>1. DOMAIN dispatched = 1 .. Len(dispatched)
      BY <1>3
    <3> QED BY <3>1 DEF IInv, MessagesIntact
  <2>4. \A j \in 1 .. k : dispatched'[j] = BytesOf(j, sent[j].len)
    BY <1>5, <1>7, <2>2, <2>3
  <2> QED BY <1>1, <1>7, <2>1, <2>4 DEF MessagesIntact
<1>11. AtBoundary'
  <2>1. Total(Len(dispatched))' = Total(k) /\ sent'[Len(dispatched')].at = sent[k].at
    BY <1>1, <1>7 DEF Total
  <2> QED BY <1>1, <1>7, <1>9, <2>1 DEF AtBoundary
<1>12. DrainedBeforeRead'
  BY <1>1 DEF DrainedBeforeRead
<1> QED BY <1>8, <1>9, <1>10, <1>11, <1>12 DEF IInv

LEMMA EraseStep == ASSUME IInv, Erase PROVE IInv'
<1> USE DEF Erase
<1>1. /\ UNCHANGED <<sent, stream, taken, msgLen, dispatched>> /\ pc = "erase" /\ pc' = "parse"
      /\ recvBuffer' = SubSeq(recvBuffer, msgLen + 1, Len(recvBuffer))
  OBVIOUS
<1>2. PICK k \in Nat \ {0} : k = Len(dispatched)
  BY <1>1 DEF IInv, AtBoundary, TypeOK
<1>3. /\ Erased = sent[k].at /\ msgLen = Total(k) /\ msgLen <= Len(recvBuffer) /\ msgLen \in Nat
      /\ recvBuffer \in Seq(Bytes) /\ Len(recvBuffer) \in Nat /\ taken \in Nat
      /\ k \in DOMAIN sent /\ sent[k].at \in Nat /\ DOMAIN recvBuffer = 1 .. Len(recvBuffer)
  <2>1. k \in DOMAIN sent
    BY <1>2 DEF IInv, TypeOK, MessagesIntact
  <2>2. Total(k) \in Nat /\ sent[k].at \in Nat
    BY <2>1, Lengths DEF IInv
  <2> QED BY <1>1, <1>2, <2>1, <2>2 DEF IInv, AtBoundary, TypeOK
<1>4. /\ recvBuffer' \in Seq(Bytes) /\ Len(recvBuffer') = Len(recvBuffer) - msgLen
      /\ \A n \in 1 .. Len(recvBuffer) - msgLen : recvBuffer'[n] = recvBuffer[msgLen + n]
  <2>1. /\ recvBuffer \in Seq(Bytes) /\ msgLen \in Nat /\ Len(recvBuffer) \in Nat
        /\ msgLen <= Len(recvBuffer) /\ Len(recvBuffer) <= Len(recvBuffer)
    BY <1>3
  <2>2. /\ SubSeq(recvBuffer, msgLen + 1, Len(recvBuffer)) \in Seq(Bytes)
        /\ Len(SubSeq(recvBuffer, msgLen + 1, Len(recvBuffer))) = Len(recvBuffer) - msgLen
        /\ \A n \in 1 .. Len(recvBuffer) - msgLen :
             SubSeq(recvBuffer, msgLen + 1, Len(recvBuffer))[n] = recvBuffer[msgLen + n]
    BY <2>1, Stretch
  <2> QED BY <1>1, <2>2
<1>5. TypeOK'
  BY <1>1, <1>4 DEF IInv, TypeOK, PC
<1>6. Layout' /\ MessagesIntact'
  BY <1>1 DEF IInv, Layout, MessagesIntact, EndOf, Total, BytesOf
<1>7. Erased' = Erased + msgLen /\ Erased \in Nat
  <2>1. Erased \in Nat
    BY <1>3
  <2>2. taken' - Len(recvBuffer') = taken - Len(recvBuffer) + msgLen
    <3>1. taken' = taken /\ Len(recvBuffer') = Len(recvBuffer) - msgLen
      BY <1>1, <1>4
    <3>2. taken \in Nat /\ Len(recvBuffer) \in Nat /\ msgLen \in Nat
      BY <1>3
    <3>3. taken - (Len(recvBuffer) - msgLen) = taken - Len(recvBuffer) + msgLen
      BY <3>2, MinusMinus
    <3>4. taken' - Len(recvBuffer') = taken - (Len(recvBuffer) - msgLen)
      BY <3>1, Zenon
    <3> QED BY <3>3, <3>4, Zenon
  <2> QED BY <2>1, <2>2 DEF Erased
<1>8. BufferIsStream'
  <2>1. Len(recvBuffer') <= taken'
    BY <1>1, <1>3, <1>4 DEF IInv, BufferIsStream
  <2>2. ASSUME NEW n \in 1 .. Len(recvBuffer) - msgLen
        PROVE  recvBuffer'[n] = stream[(Erased + msgLen) + n]
    <3>0. /\ msgLen \in Nat /\ Len(recvBuffer) \in Nat /\ Erased \in Nat
          /\ DOMAIN recvBuffer = 1 .. Len(recvBuffer)
      BY <1>3, <1>7
    <3>1. msgLen + n \in DOMAIN recvBuffer /\ Erased + (msgLen + n) = (Erased + msgLen) + n
      BY <3>0
    <3>2. recvBuffer[msgLen + n] = stream[Erased + (msgLen + n)]
      BY <3>1 DEF IInv, BufferIsStream
    <3> QED BY <1>4, <3>1, <3>2
  <2>3. DOMAIN recvBuffer' = 1 .. Len(recvBuffer) - msgLen
    BY <1>4
  <2> QED BY <1>1, <1>7, <2>1, <2>2, <2>3 DEF BufferIsStream
<1>9. AtBoundary'
  <2>1. EndOf(Len(dispatched))' = EndOf(Len(dispatched))
    BY <1>1 DEF EndOf, Total
  <2>2. EndOf(Len(dispatched)) = sent[k].at + Total(k)
    BY <1>2 DEF EndOf
  <2> QED BY <1>1, <1>3, <1>7, <2>1, <2>2 DEF AtBoundary
<1>10. DrainedBeforeRead'
  BY <1>1 DEF DrainedBeforeRead
<1> QED BY <1>5, <1>6, <1>8, <1>9, <1>10 DEF IInv

LEMMA ReadErrorStep == ASSUME IInv, ReadError \/ UNCHANGED vars PROVE IInv'
<1>1. /\ UNCHANGED <<sent, stream, taken, recvBuffer, msgLen, dispatched>>
      /\ pc' = pc \/ pc' = "stopped"
  BY DEF ReadError, vars
<1>2. TypeOK' /\ Layout' /\ BufferIsStream' /\ MessagesIntact'
  <2>1. TypeOK'
    BY <1>1 DEF IInv, TypeOK, PC
  <2>2. Layout'
    BY <1>1 DEF IInv, Layout, EndOf, Total
  <2>3. BufferIsStream' /\ MessagesIntact'
    BY <1>1 DEF IInv, BufferIsStream, MessagesIntact, Erased, BytesOf
  <2> QED BY <2>1, <2>2, <2>3
<1>3. AtBoundary' /\ DrainedBeforeRead'
  BY <1>1 DEF IInv, AtBoundary, DrainedBeforeRead, EndOf, Total, Erased
<1> QED BY <1>2, <1>3 DEF IInv

-----------------------------------------------------------------------------
\* IInv holds in every reachable state.
THEOREM Invariance == Spec => []IInv
<1>1. IInv /\ [Next]_vars => IInv'
  BY DeviceSendsStep, ReadSomeStep, ParseIncompleteStep, ParseCompleteStep, EraseStep,
     ReadErrorStep DEF Next, ReadLoop
<1> QED BY InitInv, <1>1, PTL DEF Spec

\* The messages dispatched are the messages sent, in order and byte for byte.
THEOREM Intact == Spec => []MessagesIntact
<1>1. IInv => MessagesIntact
  BY DEF IInv
<1> QED BY <1>1, Invariance, PTL

\* No whole message waits in the buffer while the loop waits for bytes.
THEOREM Drained == Spec => []DrainedBeforeRead
<1>1. IInv => DrainedBeforeRead
  BY DEF IInv
<1> QED BY <1>1, Invariance, PTL

\* The type invariant.
THEOREM TypeCorrect == Spec => []TypeOK
<1>1. IInv => TypeOK
  BY DEF IInv
<1> QED BY <1>1, Invariance, PTL

-----------------------------------------------------------------------------
\* Packets: fields

LEMMA Quotients ==
  ASSUME NEW a \in Int, NEW b \in Nat \ {0}
  PROVE  /\ a \div b \in Int /\ a % b \in 0 .. b - 1 /\ a % b \in Nat
         /\ a = b * (a \div b) + (a % b)
  OBVIOUS

LEMMA StepsOf ==
  ASSUME NEW q \in Int, NEW r \in Int, NEW b \in Nat \ {0}, q < r
  PROVE  b * q + b <= b * r
  OBVIOUS

\* What is divided by b is less than c of them.
LEMMA Quotient ==
  ASSUME NEW n \in Nat, NEW b \in Nat \ {0}, NEW c \in Nat, n < b * c
  PROVE  n \div b \in Nat /\ n \div b < c
<1> DEFINE q == n \div b
<1>1. q \in Int /\ n % b \in 0 .. b - 1 /\ n = b * q + (n % b)
  BY Quotients
<1> HIDE DEF q
<1>2. CASE q < 0
  <2>1. b * q + b <= b * 0
    BY <1>1, <1>2, StepsOf
  <2> QED BY <2>1, <1>1
<1>3. CASE c < q
  <2>1. b * c + b <= b * q
    BY <1>1, <1>3, StepsOf
  <2> QED BY <2>1, <1>1
<1>4. CASE q = c
  BY <1>1, <1>4
<1> QED BY <1>1, <1>2, <1>3, <1>4 DEF q

LEMMA UnsignedIs ==
  /\ Byte \in Nat \ {0} /\ Byte > 3 /\ Unsigned \in Nat \ {0}
  /\ Unsigned = Byte * (Byte * (Byte * Byte)) /\ Unsigned > 3
<1>1. Byte \in Nat \ {0} /\ Byte > 3
  BY ByteAssumption
<1>2. Byte * Byte \in Nat /\ Byte * Byte > 3
  <2>1. Byte * 1 + Byte <= Byte * Byte
    BY <1>1, StepsOf
  <2> QED BY <1>1, <2>1
<1>3. Byte * (Byte * Byte) \in Nat /\ Byte * (Byte * Byte) > 3
  <2>1. Byte * 1 + Byte <= Byte * (Byte * Byte)
    BY <1>1, <1>2, StepsOf
  <2> QED BY <1>1, <1>2, <2>1
<1>4. Byte * (Byte * (Byte * Byte)) \in Nat /\ Byte * (Byte * (Byte * Byte)) > 3
  <2>1. Byte * 1 + Byte <= Byte * (Byte * (Byte * Byte))
    BY <1>1, <1>3, StepsOf
  <2> QED BY <1>1, <1>3, <2>1
<1>5. Unsigned = Byte * (Byte * (Byte * Byte))
  BY <1>1 DEF Unsigned
<1> QED BY <1>1, <1>4, <1>5

\* The remainder of what lies in the range of unsigned, or below it as an int.
LEMMA Modulo ==
  ASSUME NEW u \in 0 .. Unsigned - 1, NEW v \in Int, v = u \/ v = u - Unsigned
  PROVE  v % Unsigned = u
<1>1. /\ v \div Unsigned \in Int /\ v % Unsigned \in 0 .. Unsigned - 1
      /\ v = Unsigned * (v \div Unsigned) + (v % Unsigned)
  BY UnsignedIs, Quotients
<1> DEFINE q == v \div Unsigned
           r == v % Unsigned
           p == IF v = u THEN 0 ELSE -1
<1>2. p \in Int /\ v = Unsigned * p + u
  BY UnsignedIs
<1> HIDE DEF q, r, p
<1>3. q \in Int /\ r \in 0 .. Unsigned - 1 /\ v = Unsigned * q + r
  BY <1>1 DEF q, r
<1>4. CASE q < p
  <2>1. Unsigned * q + Unsigned <= Unsigned * p
    BY <1>2, <1>3, <1>4, UnsignedIs, StepsOf
  <2> QED BY <2>1, <1>2, <1>3, UnsignedIs
<1>5. CASE p < q
  <2>1. Unsigned * p + Unsigned <= Unsigned * q
    BY <1>2, <1>3, <1>5, UnsignedIs, StepsOf
  <2> QED BY <2>1, <1>2, <1>3, UnsignedIs
<1>6. CASE q = p
  BY <1>2, <1>3, <1>6, UnsignedIs DEF r
<1> QED BY <1>2, <1>3, <1>4, <1>5, <1>6

LEMMA FieldIs ==
  ASSUME NEW v \in Int
  PROVE  Field(v) \in Seq(Nat) /\ Len(Field(v)) = 4
<1> DEFINE u == v % Unsigned
           x == u \div Byte
           y == x \div Byte
<1>1. u \in Int
  BY UnsignedIs, Quotients
<1>2. u % Byte \in Nat /\ x \in Int
  BY <1>1, UnsignedIs, Quotients
<1>3. x % Byte \in Nat /\ y \in Int
  BY <1>2, UnsignedIs, Quotients
<1>4. y % Byte \in Nat /\ (y \div Byte) \in Int
  BY <1>3, UnsignedIs, Quotients
<1>5. (y \div Byte) % Byte \in Nat
  BY <1>4, UnsignedIs, Quotients
<1>6. Field(v) = <<u % Byte, x % Byte, y % Byte, (y \div Byte) % Byte>>
  BY DEF Field
<1> HIDE DEF u, x, y
<1> QED BY <1>2, <1>3, <1>4, <1>5, <1>6

(* Whatever stands around it, extract reads back what append wrote; an int  *)
(* is read as the unsigned it was converted to.                            *)
LEMMA FieldRead ==
  ASSUME NEW u \in 0 .. Unsigned - 1, NEW v \in Int, v = u \/ v = u - Unsigned,
         NEW bytes, NEW o \in Nat, \A i \in 1 .. 4 : bytes[o + i] = Field(v)[i]
  PROVE  Extract(bytes, o) = u
<1> DEFINE x == u \div Byte
           y == x \div Byte
           z == y \div Byte
<1>1. Byte \in Nat \ {0}
  BY UnsignedIs
<1>2. v % Unsigned = u
  BY Modulo
<1>3. Field(v) = <<u % Byte, x % Byte, y % Byte, z % Byte>>
  BY <1>2 DEF Field
<1>4. u \in Nat /\ u < Byte * (Byte * (Byte * Byte))
  BY UnsignedIs
<1>5. Byte * Byte \in Nat /\ Byte * (Byte * Byte) \in Nat
  BY UnsignedIs
<1>6. x \in Nat /\ x < Byte * (Byte * Byte) /\ u = Byte * x + (u % Byte) /\ u % Byte \in Nat
  <2>1. x \in Nat /\ x < Byte * (Byte * Byte)
    BY <1>1, <1>4, <1>5, Quotient
  <2>2. u \in Int
    BY <1>4
  <2>3. u % Byte \in Nat /\ u = Byte * x + (u % Byte)
    BY <1>1, <2>2, Quotients
  <2> QED BY <2>1, <2>3
<1> HIDE DEF x
<1>7. y \in Nat /\ y < Byte * Byte /\ x = Byte * y + (x % Byte) /\ x % Byte \in Nat
  <2>1. y \in Nat /\ y < Byte * Byte
    BY <1>1, <1>5, <1>6, Quotient
  <2>2. x \in Int
    BY <1>6
  <2>3. x % Byte \in Nat /\ x = Byte * y + (x % Byte)
    BY <1>1, <2>2, Quotients
  <2> QED BY <2>1, <2>3
<1> HIDE DEF y
<1>8. z \in Nat /\ z < Byte /\ y = Byte * z + (y % Byte) /\ y % Byte \in Nat
  <2>1. z \in Nat /\ z < Byte
    BY <1>1, <1>7, Quotient
  <2>2. y \in Int
    BY <1>7
  <2>3. y % Byte \in Nat /\ y = Byte * z + (y % Byte)
    BY <1>1, <2>2, Quotients
  <2> QED BY <2>1, <2>3
<1> HIDE DEF z
<1>9. z % Byte = z
  BY <1>1, <1>8
<1>10. /\ bytes[o + 1] = u % Byte /\ bytes[o + 2] = x % Byte
       /\ bytes[o + 3] = y % Byte /\ bytes[o + 4] = z
  BY <1>3, <1>9
<1>11. Extract(bytes, o) = (u % Byte) + Byte * ((x % Byte) + Byte * ((y % Byte) + Byte * z))
  BY <1>10 DEF Extract
<1>12. (y % Byte) + Byte * z = y
  BY <1>1, <1>8
<1>13. (x % Byte) + Byte * y = x
  BY <1>1, <1>7
<1>14. (u % Byte) + Byte * x = u
  BY <1>1, <1>6
<1> QED BY <1>11, <1>12, <1>13, <1>14

\* The length of a field is left unexpanded from here on.
LEMMA FieldLenIs == FieldLen \in Nat /\ FieldLen >= 1
  BY DEF FieldLen

LEMMA FieldSeq ==
  ASSUME NEW v \in Int
  PROVE  Field(v) \in Seq(Nat) /\ Len(Field(v)) = FieldLen
  BY FieldIs DEF FieldLen

\* The field of anything at all.
LEMMA FieldAny ==
  ASSUME NEW v
  PROVE  \E S : Nat \subseteq S /\ Field(v) \in Seq(S) /\ Len(Field(v)) = FieldLen
<1> DEFINE u == v % Unsigned
           x == u \div Byte
           y == x \div Byte
           a == u % Byte
           b == x % Byte
           c == y % Byte
           d == (y \div Byte) % Byte
<1>1. Field(v) = <<a, b, c, d>>
  BY DEF Field
<1> HIDE DEF a, b, c, d
<1>2. <<a, b, c, d>> \in Seq(Nat \cup {a, b, c, d}) /\ Len(<<a, b, c, d>>) = 4
  OBVIOUS
<1> QED BY <1>1, <1>2 DEF FieldLen

\* x is f and behind it g.
Joins(x, f, g) ==
  /\ Len(x) = Len(f) + Len(g)
  /\ \A i \in 1 .. Len(f) : x[i] = f[i]
  /\ \A i \in 1 .. Len(g) : x[Len(f) + i] = g[i]

\* Joins is what the provers need to know of a concatenation.
LEMMA Joined ==
  ASSUME NEW S, NEW f \in Seq(S), NEW g \in Seq(S)
  PROVE  f \o g \in Seq(S) /\ Joins(f \o g, f, g)
  BY DEF Joins

\* What a packet is: six fields, and the payload.
LEMMA MessageIs ==
  ASSUME NEW command \in Int, NEW arg0 \in Int, NEW arg1 \in Int, NEW payload \in Seq(Nat),
         NEW m, m = generateMessage(command, arg0, arg1, payload)
  PROVE  /\ Len(m) = HeaderLength + Len(payload)
         /\ \A i \in 1 .. FieldLen : m[i] = Field(command)[i]
         /\ \A i \in 1 .. FieldLen : m[FieldLen + i] = Field(arg0)[i]
         /\ \A i \in 1 .. FieldLen : m[2 * FieldLen + i] = Field(arg1)[i]
         /\ \A i \in 1 .. FieldLen : m[3 * FieldLen + i] = Field(Len(payload))[i]
         /\ \A i \in 1 .. Len(payload) : m[HeaderLength + i] = payload[i]
<1> DEFINE sum == getPayloadChecksum(payload)
           magic == Unsigned - 1 - command
<1>1. magic \in Int /\ Len(payload) \in Int
  BY UnsignedIs
<1> HIDE DEF sum, magic
<1>2. PICK S : Nat \subseteq S /\ Field(sum) \in Seq(S) /\ Len(Field(sum)) = FieldLen
  BY FieldAny
<1>3. \A v \in Int : Field(v) \in Seq(S) /\ Len(Field(v)) = FieldLen
  <2> SUFFICES ASSUME NEW v \in Int PROVE Field(v) \in Seq(S) /\ Len(Field(v)) = FieldLen
    OBVIOUS
  <2>1. Field(v) \in Seq(Nat) /\ Len(Field(v)) = FieldLen
    BY FieldSeq
  <2> QED BY <1>2, <2>1
<1>4. payload \in Seq(S)
  BY <1>2
<1>5. m = Field(command) \o Field(arg0) \o Field(arg1) \o Field(Len(payload)) \o Field(sum)
            \o Field(magic) \o payload
  BY DEF generateMessage, sum, magic
<1>6. /\ Field(command) \in Seq(S) /\ Field(arg0) \in Seq(S) /\ Field(arg1) \in Seq(S)
      /\ Field(Len(payload)) \in Seq(S) /\ Field(sum) \in Seq(S) /\ Field(magic) \in Seq(S)
      /\ Len(Field(command)) = FieldLen /\ Len(Field(arg0)) = FieldLen
      /\ Len(Field(arg1)) = FieldLen /\ Len(Field(Len(payload))) = FieldLen
      /\ Len(Field(sum)) = FieldLen /\ Len(Field(magic)) = FieldLen
  BY <1>1, <1>2, <1>3
<1> DEFINE h2 == Field(command) \o Field(arg0)
           h3 == h2 \o Field(arg1)
           h4 == h3 \o Field(Len(payload))
           h5 == h4 \o Field(sum)
           h6 == h5 \o Field(magic)
<1>7. h2 \in Seq(S) /\ Joins(h2, Field(command), Field(arg0))
  BY <1>6, Joined
<1>8. m = h6 \o payload
  BY <1>5
<1> HIDE DEF h2
<1>9. h3 \in Seq(S) /\ Joins(h3, h2, Field(arg1))
  BY <1>6, <1>7, Joined
<1> HIDE DEF h3
<1>10. h4 \in Seq(S) /\ Joins(h4, h3, Field(Len(payload)))
  BY <1>6, <1>9, Joined
<1> HIDE DEF h4
<1>11. h5 \in Seq(S) /\ Joins(h5, h4, Field(sum))
  BY <1>6, <1>10, Joined
<1> HIDE DEF h5
<1>12. h6 \in Seq(S) /\ Joins(h6, h5, Field(magic))
  BY <1>6, <1>11, Joined
<1> HIDE DEF h6
<1>13. Joins(m, h6, payload)
  BY <1>4, <1>8, <1>12, Joined
<1>14. Len(payload) \in Nat /\ HeaderLength = 6 * FieldLen
  BY DEF HeaderLength
<1> DEFINE f1 == Field(command)
           f2 == Field(arg0)
           f3 == Field(arg1)
           f4 == Field(Len(payload))
           f5 == Field(sum)
           f6 == Field(magic)
<1>15. /\ Len(f1) = FieldLen /\ Len(f2) = FieldLen /\ Len(f3) = FieldLen
       /\ Len(f4) = FieldLen /\ Len(f5) = FieldLen /\ Len(f6) = FieldLen
  BY <1>6
<1>16. /\ Joins(h2, f1, f2) /\ Joins(h3, h2, f3) /\ Joins(h4, h3, f4)
       /\ Joins(h5, h4, f5) /\ Joins(h6, h5, f6)
  BY <1>7, <1>9, <1>10, <1>11, <1>12
<1> HIDE DEF f1, f2, f3, f4, f5, f6
<1> HIDE DEF HeaderLength
<1> DEFINE n == FieldLen
           l == Len(payload)
<1>17. n \in Nat /\ l \in Nat
  BY <1>14, FieldLenIs
<1>18. /\ Len(f1) = n /\ Len(f2) = n /\ Len(f3) = n /\ Len(f4) = n /\ Len(f5) = n
       /\ Len(f6) = n /\ Len(payload) = l
  BY <1>15
<1> HIDE DEF n, l
<1>19. Len(h2) = 2 * n /\ \A i \in 1 .. n : h2[i] = f1[i] /\ h2[n + i] = f2[i]
  BY <1>16, <1>17, <1>18 DEF Joins
<1>20. Len(h3) = 3 * n /\ (\A i \in 1 .. 2 * n : h3[i] = h2[i])
         /\ \A i \in 1 .. n : h3[2 * n + i] = f3[i]
  BY <1>16, <1>17, <1>18, <1>19 DEF Joins
<1>21. Len(h4) = 4 * n /\ (\A i \in 1 .. 3 * n : h4[i] = h3[i])
         /\ \A i \in 1 .. n : h4[3 * n + i] = f4[i]
  BY <1>16, <1>17, <1>18, <1>20 DEF Joins
<1>22. Len(h5) = 5 * n /\ \A i \in 1 .. 4 * n : h5[i] = h4[i]
  BY <1>16, <1>17, <1>18, <1>21 DEF Joins
<1>23. Len(h6) = 6 * n /\ \A i \in 1 .. 5 * n : h6[i] = h5[i]
  BY <1>16, <1>17, <1>18, <1>22 DEF Joins
<1>24. /\ Len(m) = 6 * n + l /\ \A i \in 1 .. 6 * n : m[i] = h6[i]
       /\ \A i \in 1 .. l : m[6 * n + i] = payload[i]
  <2>1. /\ Len(m) = Len(h6) + l /\ \A i \in 1 .. Len(h6) : m[i] = h6[i]
        /\ \A i \in 1 .. l : m[Len(h6) + i] = payload[i]
    BY Zenon, <1>13, <1>18 DEF Joins
  <2> QED BY <1>23, <2>1
<1>25. \A i \in 1 .. 4 * n : m[i] = h4[i]
  <2>1. \A i \in 1 .. 4 * n : i \in 1 .. 5 * n /\ i \in 1 .. 6 * n
    BY <1>17
  <2> QED BY Zenon, <2>1, <1>22, <1>23, <1>24
<1>26. \A i \in 1 .. n : m[i] = f1[i] /\ m[n + i] = f2[i]
  <2> SUFFICES ASSUME NEW i \in 1 .. n PROVE m[i] = f1[i] /\ m[n + i] = f2[i]
    OBVIOUS
  <2>1. i \in 1 .. 2 * n /\ i \in 1 .. 3 * n /\ i \in 1 .. 4 * n
    BY <1>17
  <2>2. n + i \in 1 .. 2 * n /\ n + i \in 1 .. 3 * n /\ n + i \in 1 .. 4 * n
    BY <1>17
  <2> QED BY <2>1, <2>2, <1>19, <1>20, <1>21, <1>25
<1>27. \A i \in 1 .. n : m[2 * n + i] = f3[i] /\ m[3 * n + i] = f4[i]
  <2> SUFFICES ASSUME NEW i \in 1 .. n PROVE m[2 * n + i] = f3[i] /\ m[3 * n + i] = f4[i]
    OBVIOUS
  <2>1. 2 * n + i \in 1 .. 3 * n /\ 2 * n + i \in 1 .. 4 * n /\ 3 * n + i \in 1 .. 4 * n
    BY <1>17
  <2> QED BY <2>1, <1>20, <1>21, <1>25
<1>28. HeaderLength = 6 * n
  BY <1>14 DEF n
<1> QED BY <1>24, <1>26, <1>27, <1>28 DEF f1, f2, f3, f4, n, l

\* u is what v becomes as an unsigned.
Becomes(v, u) == v \in Int /\ u \in 0 .. Unsigned - 1 /\ (v = u \/ v = u - Unsigned)

LEMMA FieldFound ==
  ASSUME NEW v, NEW u, Becomes(v, u), NEW bytes, NEW o \in Nat,
         \A i \in 1 .. FieldLen : bytes[o + i] = Field(v)[i]
  PROVE  Extract(bytes, o) = u
  BY FieldRead DEF Becomes, FieldLen

\* parseAdbMessage reads what generateMessage made as it was made, for every command,
\* pair of arguments and payload whose length is an unsigned; an id that the handler
\* holds as a negative int comes out as the unsigned it stands for.
THEOREM MessageRead ==
  ASSUME NEW command \in 0 .. Unsigned - 1, NEW arg0, NEW a0, NEW arg1, NEW a1,
         Becomes(arg0, a0), Becomes(arg1, a1),
         NEW payload \in Seq(Nat), Len(payload) < Unsigned,
         NEW m, m = generateMessage(command, arg0, arg1, payload)
  PROVE  LET p == parseAdbMessage(m)
         IN  /\ p.command = command /\ p.arg0 = a0 /\ p.arg1 = a1
             /\ p.payloadLength = Len(payload) /\ p.payload = payload
<1>1. /\ arg0 \in Int /\ arg1 \in Int /\ command \in Int
      /\ Becomes(command, command) /\ Becomes(Len(payload), Len(payload))
  BY UnsignedIs DEF Becomes
<1>2. /\ Len(m) = HeaderLength + Len(payload)
      /\ \A i \in 1 .. FieldLen : m[i] = Field(command)[i]
      /\ \A i \in 1 .. FieldLen : m[FieldLen + i] = Field(arg0)[i]
      /\ \A i \in 1 .. FieldLen : m[2 * FieldLen + i] = Field(arg1)[i]
      /\ \A i \in 1 .. FieldLen : m[3 * FieldLen + i] = Field(Len(payload))[i]
      /\ \A i \in 1 .. Len(payload) : m[HeaderLength + i] = payload[i]
  BY <1>1, MessageIs
<1>3. /\ FieldLen \in Nat /\ 2 * FieldLen \in Nat /\ 3 * FieldLen \in Nat
      /\ HeaderLength \in Nat
  BY FieldLenIs DEF HeaderLength
<1>4. Extract(m, 0) = command
  <2>1. \A i \in 1 .. FieldLen : m[0 + i] = Field(command)[i]
    BY <1>2
  <2> QED BY <1>1, <2>1, FieldFound
<1>5. Extract(m, FieldLen) = a0
  BY <1>2, <1>3, FieldFound
<1>6. Extract(m, 2 * FieldLen) = a1
  BY <1>2, <1>3, FieldFound
<1>7. Extract(m, 3 * FieldLen) = Len(payload)
  <2>1. \A i \in 1 .. FieldLen : m[3 * FieldLen + i] = Field(Len(payload))[i]
    BY <1>2
  <2>2. Becomes(Len(payload), Len(payload)) /\ 3 * FieldLen \in Nat
    BY <1>1, <1>3
  <2> QED BY Zenon, <2>1, <2>2, FieldFound
<1>8. SubSeq(m, HeaderLength + 1, HeaderLength + Len(payload)) = payload
  <2>1. SubSeq(m, HeaderLength + 1, HeaderLength + Len(payload))
          = [i \in 1 .. Len(payload) |-> m[HeaderLength + i]]
    BY <1>3
  <2>2. [i \in 1 .. Len(payload) |-> m[HeaderLength + i]]
          = [i \in 1 .. Len(payload) |-> payload[i]]
    BY <1>2
  <2>3. payload = [i \in 1 .. Len(payload) |-> payload[i]]
    OBVIOUS
  <2> QED BY <2>1, <2>2, <2>3
<1> QED BY <1>4, <1>5, <1>6, <1>7, <1>8 DEF parseAdbMessage

\* A record of the sync protocol: a tag, a number and data.
Item == {x \in [tag : {SEND, DATA, DONE}, num : 0 .. Unsigned - 1, data : Seq(Nat)] :
           /\ IF x.tag = DONE THEN x.data = <<>> ELSE x.num = Len(x.data)
           /\ Tag + FieldLen + Len(x.data) < Unsigned}

BytesOfItem(x) == <<x.tag>> \o Field(x.num) \o x.data

\* Record k is what pushFile makes of the file from p[k] to p[k + 1].
Made(x, k, from, upto) ==
  \/ k = 0 /\ upto = 0 /\ x = [tag |-> SEND, num |-> Len(path), data |-> path]
  \/ k > 0 /\ from < upto
       /\ x = [tag |-> DATA, num |-> upto - from, data |-> SubSeq(file, from + 1, upto)]
  \/ k > 0 /\ from = upto /\ x.tag = DONE

\* The t records made so far, h[0] to h[t - 1], lie one behind the other in what
\* the device is sent: h[k] from c[k] on.
Records(p, c, h, t) ==
  /\ p \in [Nat -> Nat] /\ c \in [Nat -> Nat] /\ h \in [Nat -> Item]
  /\ p[0] = 0 /\ p[t] = at
  /\ \A k \in Nat : k <= t => p[k] <= Len(file)
  /\ \A k \in Nat : k < t => Made(h[k], k, p[k], p[k + 1])
  /\ \A k \in Nat : k < t => c[k + 1] = c[k] + Len(BytesOfItem(h[k]))
  /\ \A j, k \in Nat : j <= k /\ k <= t => c[j] <= c[k]
  /\ t = 0 <=> doing \in {"open", "send"}
  /\ doing \in {"done", "over"} => h[t - 1].tag = DONE /\ at = Len(file)

\* The device has used the first r of them and holds those up to s.
Used(p, h, r) ==
  written = [path |-> IF r = 0 THEN <<>> ELSE path, file |-> SubSeq(file, 1, p[r]),
             done |-> \E k \in Nat : k < r /\ h[k].tag = DONE]

StandsAt(bytes, o, b) == \A i \in 1 .. Len(b) : bytes[o + i] = b[i]

Holds(c, h, r, s) ==
  /\ Len(held) + c[r] = c[s]
  /\ \A k \in Nat : r <= k /\ k < s => StandsAt(held, c[k] - c[r], BytesOfItem(h[k]))

\* What is on its way is the next of them, or no record.
OnItsWay(h, s, t) ==
  \/ wire \in {<<>>, generateOpen(localId, Sync), generateClose(localId, remoteId)} /\ s = t
  \/ wire = generateWrite(localId, remoteId, BytesOfItem(h[s])) /\ t = s + 1

PacketsTypeOK ==
  /\ doing \in {"open", "send", "data", "done", "over"}
  /\ file \in Files /\ path \in Paths /\ localId \in Ids /\ theirs \in Ids
  /\ buffer \in [1 .. BlockSize -> Nat] /\ at \in Nat /\ held \in Seq(Nat)

Stream(p, c, h, r, s, t) ==
  /\ r <= s /\ s <= t
  /\ Records(p, c, h, t) /\ Used(p, h, r) /\ Holds(c, h, r, s) /\ OnItsWay(h, s, t)

PacketsInv ==
  /\ PacketsTypeOK
  /\ \E p, c, h : \E r, s, t \in Nat : Stream(p, c, h, r, s, t)

-----------------------------------------------------------------------------
\* Packets: records

LEMMA TypesOf ==
  ASSUME PacketsTypeOK
  PROVE  /\ file \in Seq(Nat) /\ path \in Seq(Nat)
         /\ Len(path) \in Nat /\ Len(file) \in Nat
         /\ Tag + FieldLen + Len(path) < Unsigned
         /\ Becomes(localId, localId) /\ Becomes(remoteId, theirs)
<1>1. \A q \in Seq(0 .. Byte - 1) : q \in Seq(Nat)
  BY UnsignedIs
<1>2. file \in Seq(Nat) /\ path \in Seq(Nat)
  BY <1>1, FilesAssumption, PathsAssumption DEF PacketsTypeOK
<1>3. Tag + FieldLen + Len(path) < Unsigned
  BY PathsAssumption DEF PacketsTypeOK
<1>4. localId \in 0 .. Unsigned - 1 /\ theirs \in 0 .. Unsigned - 1
  BY IdsAssumption DEF PacketsTypeOK
<1>5. Becomes(localId, localId) /\ Becomes(remoteId, theirs)
  BY <1>4, UnsignedIs DEF Becomes, remoteId, AsInt
<1> QED BY <1>2, <1>3, <1>5

LEMMA ItemIs ==
  ASSUME NEW x \in Item
  PROVE  /\ x.tag \in {SEND, DATA, DONE} /\ x.num \in 0 .. Unsigned - 1 /\ x.data \in Seq(Nat)
         /\ Len(x.data) \in Nat
         /\ x.tag = DONE => x.data = <<>>
         /\ x.tag # DONE => x.num = Len(x.data)
         /\ Tag + FieldLen + Len(x.data) < Unsigned
  BY DEF Item

LEMMA BytesOfItemIs ==
  ASSUME NEW x \in Item, NEW b, b = BytesOfItem(x)
  PROVE  /\ b \in Seq(Nat) /\ Len(b) = Tag + FieldLen + Len(x.data) /\ Len(b) < Unsigned
         /\ b[1] = x.tag
         /\ \A i \in 1 .. FieldLen : b[Tag + i] = Field(x.num)[i]
         /\ \A i \in 1 .. Len(x.data) : b[Tag + FieldLen + i] = x.data[i]
<1>1. /\ x.tag \in Nat /\ x.num \in Int /\ x.data \in Seq(Nat)
      /\ Tag + FieldLen + Len(x.data) < Unsigned
  BY ItemIs, UnsignedIs DEF SEND, DATA, DONE
<1>2. Field(x.num) \in Seq(Nat) /\ Len(Field(x.num)) = FieldLen
  BY <1>1, FieldSeq
<1> DEFINE g == <<x.tag>>
           f == Field(x.num)
           d == x.data
           gf == g \o f
<1>3. g \in Seq(Nat) /\ Len(g) = Tag /\ g[1] = x.tag
  BY <1>1 DEF Tag
<1>4. b = gf \o d
  BY DEF BytesOfItem
<1> HIDE DEF g
<1>5. gf \in Seq(Nat) /\ Joins(gf, g, f)
  BY <1>2, <1>3, Joined
<1> HIDE DEF gf
<1>6. b \in Seq(Nat) /\ Joins(b, gf, d)
  BY <1>1, <1>4, <1>5, Joined
<1>7. Tag \in Nat /\ FieldLen \in Nat /\ Tag = 1 /\ Len(d) \in Nat
  BY <1>1, FieldLenIs DEF Tag
<1> HIDE DEF f, d
<1>8. /\ Len(gf) = Tag + FieldLen /\ gf[1] = x.tag
      /\ \A i \in 1 .. FieldLen : gf[Tag + i] = f[i]
  BY <1>2, <1>3, <1>5, <1>7 DEF Joins, f
<1>9. /\ Len(b) = Tag + FieldLen + Len(d)
      /\ \A i \in 1 .. Tag + FieldLen : b[i] = gf[i]
      /\ \A i \in 1 .. Len(d) : b[Tag + FieldLen + i] = d[i]
  <2>1. /\ Len(b) = Len(gf) + Len(d)
        /\ \A i \in 1 .. Len(gf) : b[i] = gf[i]
        /\ \A i \in 1 .. Len(d) : b[Len(gf) + i] = d[i]
    BY Zenon, <1>6 DEF Joins
  <2> QED BY <1>7, <1>8, <2>1
<1>10. b[1] = x.tag /\ \A i \in 1 .. FieldLen : b[Tag + i] = f[i]
  BY <1>7, <1>8, <1>9
<1> QED BY <1>1, <1>6, <1>9, <1>10 DEF f, d

\* The device reads the record its bytes begin with.
LEMMA RecordRead ==
  ASSUME held \in Seq(Nat), NEW x \in Item, NEW b, b = BytesOfItem(x), Len(b) <= Len(held),
         StandsAt(held, 0, b)
  PROVE  /\ HoldsRecord /\ RecordLength = Len(b) /\ held[1] = x.tag
         /\ SubSeq(held, Tag + FieldLen + 1, RecordLength) = x.data
<1> DEFINE d == x.data
           k == Len(d)
           l == Len(b)
           o == Tag + FieldLen
<1>1. /\ b \in Seq(Nat) /\ l = Tag + FieldLen + k
      /\ b[1] = x.tag
      /\ \A i \in 1 .. FieldLen : b[Tag + i] = Field(x.num)[i]
      /\ \A i \in 1 .. k : b[o + i] = d[i]
  BY BytesOfItemIs
<1>2. /\ x.tag \in {SEND, DATA, DONE} /\ x.num \in 0 .. Unsigned - 1 /\ d \in Seq(Nat)
      /\ x.tag = DONE => d = <<>>
      /\ x.tag # DONE => x.num = k
      /\ k \in Nat
  BY ItemIs
<1>3. Tag = 1 /\ Tag \in Nat /\ FieldLen \in Nat /\ FieldLen >= 1 /\ o \in Nat
  BY FieldLenIs DEF Tag
<1>4. \A i \in 1 .. l : held[i] = b[i]
  <2>1. \A i \in 1 .. l : held[0 + i] = b[i]
    BY DEF StandsAt
  <2>2. b \in Seq(Nat) /\ l \in Nat
    BY <1>1
  <2> HIDE DEF l
  <2>3. \A i \in 1 .. l : 0 + i = i
    BY <2>2
  <2> QED BY Zenon, <2>1, <2>3
<1>5. Len(held) \in Nat /\ l <= Len(held)
  OBVIOUS
<1>6. d = <<>> => k = 0
  OBVIOUS
<1> HIDE DEF d, k, l
<1>7. l = o + k /\ o = Tag + FieldLen
  BY <1>1
<1> HIDE DEF o
<1>8. \A i \in 1 .. FieldLen : held[Tag + i] = Field(x.num)[i]
  <2>1. \A i \in 1 .. FieldLen : Tag + i \in 1 .. l
    BY <1>2, <1>3, <1>7
  <2> QED BY Zenon, <1>1, <1>4, <2>1
<1>9. held[1] = x.tag
  <2>1. 1 \in 1 .. l
    BY <1>2, <1>3, <1>7
  <2> QED BY Zenon, <1>1, <1>4, <2>1
<1>10. \A i \in 1 .. k : held[o + i] = d[i]
  <2>1. \A i \in 1 .. k : o + i \in 1 .. l
    BY <1>2, <1>3, <1>7
  <2> QED BY Zenon, <1>1, <1>4, <2>1
<1>11. Extract(held, Tag) = x.num
  <2>1. Becomes(x.num, x.num)
    BY <1>2, UnsignedIs DEF Becomes
  <2> QED BY Zenon, <1>3, <1>8, <2>1, FieldFound
<1>12. RecordLength = l
  <2>1. CASE x.tag = DONE
    <3>1. k = 0
      BY Zenon, <1>2, <1>6, <2>1
    <3>2. l = Tag + FieldLen + 0
      BY <1>7, <1>3, <3>1
    <3> QED BY Zenon, <1>9, <2>1, <3>2 DEF RecordLength
  <2>2. CASE x.tag # DONE
    <3>1. x.num = k
      BY Zenon, <1>2, <2>2
    <3>2. RecordLength = Tag + FieldLen + k
      BY Zenon, <1>9, <1>11, <2>2, <3>1 DEF RecordLength
    <3> QED BY <1>7, <3>2
  <2> QED BY <2>1, <2>2
<1>13. HoldsRecord
  <2>1. Len(held) >= o /\ Len(held) >= l
    BY <1>2, <1>3, <1>5, <1>7
  <2> QED BY Zenon, <1>7, <1>12, <2>1 DEF HoldsRecord
<1>14. SubSeq(held, o + 1, l) = d
  <2>1. SubSeq(held, o + 1, l) = [i \in 1 .. k |-> held[o + i]]
    BY <1>2, <1>3, <1>5, <1>7
  <2>2. [i \in 1 .. k |-> held[o + i]] = [i \in 1 .. k |-> d[i]]
    BY <1>10
  <2>3. d = [i \in 1 .. k |-> d[i]]
    BY <1>2, SeqIsFunction DEF k
  <2> QED BY <2>1, <2>2, <2>3
<1> QED BY Zenon, <1>7, <1>9, <1>12, <1>13, <1>14 DEF l, d

LEMMA PayloadOf ==
  ASSUME NEW x \in Item
  PROVE  /\ BytesOfItem(x) \in Seq(Nat) /\ Len(BytesOfItem(x)) \in Nat
         /\ Len(BytesOfItem(x)) < Unsigned /\ Len(BytesOfItem(x)) >= Tag + FieldLen
         /\ Len(BytesOfItem(x)) >= 1
<1> DEFINE b == BytesOfItem(x)
<1>1. /\ b \in Seq(Nat) /\ Len(b) = Tag + FieldLen + Len(x.data) /\ Len(b) < Unsigned
  BY BytesOfItemIs
<1>2. Len(x.data) \in Nat
  BY ItemIs
<1>3. Len(b) \in Nat
  BY <1>1
<1>4. Tag = 1 /\ FieldLen \in Nat
  BY FieldLenIs DEF Tag
<1>5. Len(b) >= Tag + FieldLen /\ Len(b) >= 1
  <2> DEFINE l == Len(b)
             k == Len(x.data)
  <2>1. l = Tag + FieldLen + k /\ k \in Nat
    BY <1>1, <1>2
  <2> HIDE DEF l, k
  <2>2. l >= Tag + FieldLen /\ l >= 1
    BY <1>4, <2>1
  <2> QED BY <2>2 DEF l
<1> QED BY <1>1, <1>3, <1>5 DEF b

\* What each packet of a push is read as.
LEMMA PacketRead ==
  ASSUME PacketsTypeOK, NEW command \in {OPEN, WRTE, CLSE}, NEW arg1, NEW a1, Becomes(arg1, a1),
         NEW load \in Seq(Nat), Len(load) < Unsigned,
         NEW m, m = generateMessage(command, localId, arg1, load)
  PROVE  LET p == parseAdbMessage(m)
         IN  /\ p.command = command /\ p.arg0 = localId /\ p.arg1 = a1 /\ p.payload = load
             /\ HeaderLength + p.payloadLength = Len(m) /\ m # <<>>
<1>1. command \in 0 .. Unsigned - 1 /\ command \in Int
  BY UnsignedIs DEF OPEN, WRTE, CLSE
<1>2. Becomes(localId, localId) /\ localId \in Int /\ arg1 \in Int
  BY TypesOf DEF Becomes
<1>3. LET p == parseAdbMessage(m)
      IN  /\ p.command = command /\ p.arg0 = localId /\ p.arg1 = a1
          /\ p.payloadLength = Len(load) /\ p.payload = load
  BY <1>1, <1>2, MessageRead
<1>4. Len(m) = HeaderLength + Len(load)
  BY <1>1, <1>2, MessageIs
<1>5. m # <<>>
  <2>1. HeaderLength \in Nat /\ HeaderLength >= 1
    BY FieldLenIs DEF HeaderLength
  <2> DEFINE l == Len(load)
  <2>2. l \in Nat
    OBVIOUS
  <2> HIDE DEF l
  <2>3. HeaderLength + l # 0
    BY <2>1, <2>2
  <2>4. Len(m) # 0
    BY Zenon, <1>4, <2>3 DEF l
  <2> QED BY <2>4
<1> QED BY <1>3, <1>4, <1>5

LEMMA OpenRead ==
  ASSUME PacketsTypeOK
  PROVE  LET m == generateOpen(localId, Sync)
             p == parseAdbMessage(m)
         IN  /\ p.command = OPEN /\ p.arg0 = localId /\ p.arg1 = 0
             /\ HeaderLength + p.payloadLength = Len(m) /\ m # <<>>
<1> DEFINE load == Append(Sync, 0)
<1>1. load \in Seq(Nat) /\ Len(load) < Unsigned /\ Becomes(0, 0)
  BY UnsignedIs DEF Sync, Becomes
<1>2. generateOpen(localId, Sync) = generateMessage(OPEN, localId, 0, load)
  BY DEF generateOpen
<1> HIDE DEF load
<1> QED BY <1>1, <1>2, PacketRead

LEMMA WriteRead ==
  ASSUME PacketsTypeOK, NEW load \in Seq(Nat), Len(load) < Unsigned
  PROVE  LET m == generateWrite(localId, remoteId, load)
             p == parseAdbMessage(m)
         IN  /\ p.command = WRTE /\ p.arg0 = localId /\ p.arg1 = theirs
             /\ p.payload = load
             /\ HeaderLength + p.payloadLength = Len(m) /\ m # <<>>
<1>1. Becomes(remoteId, theirs)
  BY TypesOf
<1> QED BY <1>1, PacketRead DEF generateWrite

LEMMA CloseRead ==
  ASSUME PacketsTypeOK
  PROVE  LET m == generateClose(localId, remoteId)
             p == parseAdbMessage(m)
         IN  /\ p.command = CLSE /\ p.arg0 = localId /\ p.arg1 = theirs
             /\ HeaderLength + p.payloadLength = Len(m) /\ m # <<>>
<1> DEFINE load == <<>>
<1>1. load \in Seq(Nat) /\ Len(load) < Unsigned /\ Becomes(remoteId, theirs)
  BY UnsignedIs, TypesOf
<1>2. generateClose(localId, remoteId) = generateMessage(CLSE, localId, remoteId, load)
  BY DEF generateClose
<1> HIDE DEF load
<1> QED BY <1>1, <1>2, PacketRead

LEMMA gcountIs ==
  ASSUME PacketsTypeOK, at <= Len(file)
  PROVE  /\ gcount \in Nat /\ gcount <= BlockSize /\ at + gcount <= Len(file)
         /\ gcount = 0 => at = Len(file)
  BY TypesOf, BlockAssumption DEF PacketsTypeOK, gcount

\* A packet is on its way exactly when one was sent that the device has not taken.
LEMMA WireEmpty ==
  ASSUME PacketsTypeOK, NEW p, NEW c, NEW h, NEW r \in Nat, NEW s \in Nat, NEW t \in Nat,
         Stream(p, c, h, r, s, t), wire = <<>>
  PROVE  s = t
<1> SUFFICES ASSUME wire = generateWrite(localId, remoteId, BytesOfItem(h[s])) PROVE FALSE
  BY DEF Stream, OnItsWay
<1>1. h[s] \in Item
  BY DEF Stream, Records
<1>2. BytesOfItem(h[s]) \in Seq(Nat) /\ Len(BytesOfItem(h[s])) < Unsigned
  BY <1>1, PayloadOf
<1> QED BY <1>2, WriteRead

-----------------------------------------------------------------------------
\* Packets: the inductive invariant, one lemma per action

LEMMA PacketsInit == PacketInit => PacketsInv
<1> SUFFICES ASSUME PacketInit PROVE PacketsInv
  OBVIOUS
<1> DEFINE z == [k \in Nat |-> 0]
           item == [tag |-> DONE, num |-> 0, data |-> <<>>]
           h == [k \in Nat |-> item]
<1>1. PacketsTypeOK
  BY BlockAssumption DEF PacketInit, PacketsTypeOK
<1>2. item \in Item
  <2>1. Tag + FieldLen + 0 < Unsigned
    BY BlockAssumption, UnsignedIs, FieldLenIs DEF Tag
  <2>2. 0 \in 0 .. Unsigned - 1
    BY UnsignedIs
  <2>3. item \in [tag : {SEND, DATA, DONE}, num : 0 .. Unsigned - 1, data : Seq(Nat)]
    BY <2>2
  <2>4. Len(item.data) = 0
    OBVIOUS
  <2> QED BY <2>1, <2>3, <2>4 DEF Item
<1>3. z \in [Nat -> Nat] /\ h \in [Nat -> Item] /\ \A k \in Nat : z[k] = 0
  BY <1>2
<1> HIDE DEF z, h, item
<1>4. /\ doing = "open" /\ at = 0 /\ wire = <<>> /\ held = <<>> /\ written = Nothing
  BY DEF PacketInit
<1>5. Len(file) \in Nat /\ file \in Seq(Nat)
  BY <1>1, TypesOf
<1>6. Records(z, z, h, 0)
  BY <1>3, <1>4, <1>5 DEF Records
<1>7. Used(z, h, 0)
  <2>1. SubSeq(file, 1, 0) = <<>>
    BY <1>5
  <2>2. ~ \E k \in Nat : k < 0 /\ h[k].tag = DONE
    OBVIOUS
  <2> QED BY <1>3, <1>4, <2>1, <2>2 DEF Used, Nothing
<1>8. Holds(z, h, 0, 0)
  BY <1>3, <1>4 DEF Holds
<1>9. OnItsWay(h, 0, 0)
  BY <1>4 DEF OnItsWay
<1>10. Stream(z, z, h, 0, 0, 0)
  BY <1>6, <1>7, <1>8, <1>9 DEF Stream
<1> QED BY <1>1, <1>10 DEF PacketsInv

\* A packet without a record.
LEMMA SendsNoRecord ==
  ASSUME PacketsTypeOK, PacketsTypeOK',
         NEW p, NEW c, NEW h, NEW r \in Nat, NEW s \in Nat, NEW t \in Nat,
         Stream(p, c, h, r, s, t), wire = <<>>,
         wire' \in {generateOpen(localId, Sync), generateClose(localId, remoteId)},
         UNCHANGED <<file, path, localId, theirs, at, held, written>>,
         doing' \in {"open", "send"} <=> doing \in {"open", "send"},
         doing' \in {"done", "over"} => doing \in {"done", "over"}
  PROVE  PacketsInv'
<1>1. s = t
  BY WireEmpty
<1>2. Records(p, c, h, t)'
  BY DEF Stream, Records, Made
<1>3. Used(p, h, r)' /\ Holds(c, h, r, s)'
  BY DEF Stream, Used, Holds
<1>4. OnItsWay(h, s, t)'
  BY <1>1 DEF OnItsWay, remoteId
<1>5. Stream(p, c, h, r, s, t)'
  BY <1>2, <1>3, <1>4 DEF Stream
<1> QED BY <1>5 DEF PacketsInv

\* A packet with a record, which is the next: it ends at upto of the file.
SendsItem(x, t, upto) ==
  /\ wire = <<>> /\ wire' = generateWrite(localId, remoteId, BytesOfItem(x))
  /\ upto <= Len(file) /\ Made(x, t, at, upto) /\ at' = upto
  /\ UNCHANGED <<file, path, localId, theirs, held, written>>
  /\ doing' \notin {"open", "send"}
  /\ doing' \in {"done", "over"} => x.tag = DONE /\ upto = Len(file)

\* A packet with a record.
LEMMA SendsRecord ==
  ASSUME PacketsTypeOK, PacketsTypeOK',
         NEW p, NEW c, NEW h, NEW r \in Nat, NEW s \in Nat, NEW t \in Nat,
         Stream(p, c, h, r, s, t), NEW x \in Item, NEW upto \in Nat, SendsItem(x, t, upto)
  PROVE  PacketsInv'
<1> DEFINE b == BytesOfItem(x)
           l == Len(b)
           n == t + 1
           p2 == [p EXCEPT ![n] = upto]
           c2 == [c EXCEPT ![n] = c[t] + l]
           h2 == [h EXCEPT ![t] = x]
<1>1. s = t
  BY WireEmpty DEF SendsItem
<1>2. /\ p \in [Nat -> Nat] /\ c \in [Nat -> Nat] /\ h \in [Nat -> Item]
      /\ Records(p, c, h, t) /\ Used(p, h, r) /\ Holds(c, h, r, s) /\ r <= s
  BY DEF Stream, Records
<1>3. l \in Nat
  BY PayloadOf
<1> HIDE DEF l
<1>4. n \in Nat /\ n = t + 1 /\ 0 < n /\ t < n /\ n - 1 = t
  OBVIOUS
<1>5. \A k \in Nat : k < n => k < t \/ k = t
  BY <1>4
<1>6. \A k \in Nat : k <= n => k < n \/ k = n
  BY <1>4
<1>7. \A k \in Nat : k < t => k < n /\ k + 1 < n /\ k + 1 \in Nat
  BY <1>4
<1>8. \A k \in Nat : k < n => k <= t
  BY <1>4
<1> HIDE DEF n
<1>9. /\ p2 \in [Nat -> Nat] /\ c2 \in [Nat -> Nat] /\ h2 \in [Nat -> Item]
      /\ p2[n] = upto /\ c2[n] = c[t] + l /\ h2[t] = x
      /\ \A k \in Nat : k < n => p2[k] = p[k]
      /\ \A k \in Nat : k < n => c2[k] = c[k]
      /\ \A k \in Nat : k < t => h2[k] = h[k]
  <2>1. n \in Nat /\ c[t] + l \in Nat
    BY <1>2, <1>3, <1>4
  <2>2. p \in [Nat -> Nat] /\ c \in [Nat -> Nat] /\ h \in [Nat -> Item]
    BY <1>2
  <2>3. p2 = [p EXCEPT ![n] = upto] /\ c2 = [c EXCEPT ![n] = c[t] + l] /\ h2 = [h EXCEPT ![t] = x]
    OBVIOUS
  <2> HIDE DEF p2, c2, h2
  <2>4. p2 \in [Nat -> Nat] /\ p2[n] = upto /\ \A k \in Nat : k < n => p2[k] = p[k]
    BY <2>1, <2>2, <2>3
  <2>5. c2 \in [Nat -> Nat] /\ c2[n] = c[t] + l /\ \A k \in Nat : k < n => c2[k] = c[k]
    BY <2>1, <2>2, <2>3
  <2>6. h2 \in [Nat -> Item] /\ h2[t] = x /\ \A k \in Nat : k < t => h2[k] = h[k]
    BY <2>2, <2>3
  <2> QED BY <2>4, <2>5, <2>6
<1> HIDE DEF p2, c2, h2
<1>10. p[0] = 0 /\ p[t] = at /\ at \in Nat /\ Len(file) \in Nat
  BY <1>2, TypesOf DEF Records, PacketsTypeOK
<1>11. Records(p2, c2, h2, n)'
  <2>1. p2[0] = 0 /\ p2[n] = at'
    BY <1>9, <1>10, <1>4 DEF SendsItem
  <2>2. \A k \in Nat : k <= n => p2[k] <= Len(file')
    BY <1>2, <1>9, <1>6, <1>8 DEF Records, SendsItem
  <2>3. ASSUME NEW k \in Nat, k < n
        PROVE  Made(h2[k], k, p2[k], p2[k + 1])'
    <3>1. CASE k < t
      <4>1. h2[k] = h[k] /\ p2[k] = p[k] /\ p2[k + 1] = p[k + 1]
        BY Zenon, <1>9, <1>7, <3>1
      <4>2. Made(h[k], k, p[k], p[k + 1])
        BY <1>2, <3>1 DEF Records
      <4> QED BY <4>1, <4>2 DEF Made, SendsItem
    <3>2. CASE k = t
      <4>1. h2[k] = x /\ p2[k] = at /\ p2[k + 1] = upto
        BY Zenon, <1>9, <1>10, <1>4, <3>2
      <4> QED BY <3>2, <4>1 DEF Made, SendsItem
    <3> QED BY <2>3, <1>5, <3>1, <3>2
  <2>4. ASSUME NEW k \in Nat, k < n
        PROVE  c2[k + 1] = c2[k] + Len(BytesOfItem(h2[k]))
    <3>1. CASE k < t
      <4>1. h2[k] = h[k] /\ c2[k] = c[k] /\ c2[k + 1] = c[k + 1]
        BY Zenon, <1>9, <1>7, <3>1
      <4>2. c[k + 1] = c[k] + Len(BytesOfItem(h[k]))
        BY <1>2, <3>1 DEF Records
      <4> QED BY <4>1, <4>2
    <3>2. CASE k = t
      <4>1. h2[k] = x /\ c2[k] = c[t] /\ c2[k + 1] = c[t] + l
        BY Zenon, <1>9, <1>4, <3>2
      <4> QED BY <4>1 DEF l
    <3> QED BY <2>4, <1>5, <3>1, <3>2
  <2>5. ASSUME NEW j \in Nat, NEW k \in Nat, j <= k, k <= n
        PROVE  c2[j] <= c2[k]
    <3>1. \A i \in Nat : i <= t => c[i] <= c[t]
      BY <1>2 DEF Records
    <3>2. CASE k <= t
      <4>1. j <= t
        BY <2>5, <3>2
      <4>2. c[j] <= c[k]
        BY <1>2, <2>5, <3>2 DEF Records
      <4> QED BY <1>9, <1>4, <3>2, <4>1, <4>2
    <3>3. CASE k = n /\ j <= t
      <4>1. c[j] <= c[t] /\ c2[j] = c[j] /\ c2[k] = c[t] + l
        BY <1>9, <1>4, <3>1, <3>3
      <4>2. c[j] \in Nat /\ c[t] \in Nat
        BY <1>2
      <4> QED BY <1>3, <4>1, <4>2
    <3>4. CASE k = n /\ j = n
      <4>1. c2[n] \in Nat
        BY <1>4, <1>9
      <4> QED BY <3>4, <4>1
    <3>5. k <= t \/ (k = n /\ j <= t) \/ (k = n /\ j = n)
      BY <1>4, <2>5
    <3> QED BY <3>2, <3>3, <3>4, <3>5
  <2>6. n = 0 <=> doing' \in {"open", "send"}
    BY <1>4 DEF SendsItem
  <2>7. doing' \in {"done", "over"} => h2[n - 1].tag = DONE /\ at' = Len(file')
    BY <1>9, <1>4 DEF SendsItem
  <2> QED BY <1>9, <2>1, <2>2, <2>3, <2>4, <2>5, <2>6, <2>7 DEF Records
<1>12. Used(p2, h2, r)'
  <2>1. p2[r] = p[r] /\ \A k \in Nat : k < r => h2[k] = h[k]
    BY <1>1, <1>2, <1>9, <1>4
  <2>2. (\E k \in Nat : k < r /\ h2[k].tag = DONE) <=> (\E k \in Nat : k < r /\ h[k].tag = DONE)
    BY <2>1
  <2> QED BY <1>2, <2>1, <2>2 DEF Used, SendsItem
<1>13. Holds(c2, h2, r, s)'
  <2>1. c2[r] = c[r] /\ c2[s] = c[s]
    BY <1>1, <1>2, <1>9, <1>4
  <2>2. \A k \in Nat : k < s => c2[k] = c[k] /\ h2[k] = h[k]
    BY <1>1, <1>9, <1>7, <1>4
  <2>3. held' = held
    BY DEF SendsItem
  <2> QED BY <1>2, <2>1, <2>3, <2>2 DEF Holds
<1>14. OnItsWay(h2, s, n)'
  BY <1>1, <1>9, <1>4 DEF OnItsWay, remoteId, SendsItem
<1>15. r <= s /\ s <= n
  BY <1>1, <1>2, <1>4
<1>16. Stream(p2, c2, h2, r, s, n)'
  BY <1>11, <1>12, <1>13, <1>14, <1>15 DEF Stream
<1> QED BY <1>4, <1>16 DEF PacketsInv

\* pushFile never reads behind the end of the file.
LEMMA BoundOf ==
  ASSUME PacketsInv
  PROVE  at \in Nat /\ at <= Len(file) /\ Len(file) \in Nat
<1>1. PICK p, c, h : \E r, s, t \in Nat : Stream(p, c, h, r, s, t)
  BY DEF PacketsInv
<1>2. PICK r \in Nat, s \in Nat, t \in Nat : Stream(p, c, h, r, s, t)
  BY <1>1
<1>3. p[t] = at /\ p[t] <= Len(file)
  BY <1>2 DEF Stream, Records
<1> QED BY <1>3, TypesOf DEF PacketsInv, PacketsTypeOK

LEMMA TypesOfPushes ==
  ASSUME PacketsInv, Pushes
  PROVE  PacketsTypeOK'
<1>1. PacketsTypeOK /\ at \in Nat /\ at <= Len(file) /\ Len(file) \in Nat /\ file \in Seq(Nat)
  BY BoundOf, TypesOf DEF PacketsInv
<1>2. gcount \in Nat /\ gcount <= BlockSize /\ at + gcount <= Len(file)
  BY <1>1, gcountIs
<1>3. CASE SendBlock
  <2>1. /\ doing' = doing /\ file' = file /\ path' = path /\ localId' = localId
        /\ theirs' = theirs /\ held' = held /\ at' = at + gcount
        /\ buffer' = [i \in 1 .. BlockSize |-> IF i <= gcount THEN file[at + i] ELSE buffer[i]]
    BY <1>3 DEF SendBlock
  <2>2. buffer' \in [1 .. BlockSize -> Nat]
    <3>1. ASSUME NEW i \in 1 .. BlockSize
          PROVE  (IF i <= gcount THEN file[at + i] ELSE buffer[i]) \in Nat
      <4>1. CASE i <= gcount
        <5>1. at + i \in 1 .. Len(file)
          BY <1>1, <1>2, <4>1, BlockAssumption
        <5> QED BY <1>1, <4>1, <5>1
      <4>2. CASE ~(i <= gcount)
        BY <1>1, <4>2 DEF PacketsTypeOK
      <4> QED BY <4>1, <4>2
    <3> QED BY <2>1, <3>1
  <2>3. at' \in Nat
    BY <1>1, <1>2, <2>1
  <2> QED BY <1>1, <2>1, <2>2, <2>3 DEF PacketsTypeOK
<1>4. CASE SendOpen \/ SendPath \/ SendDone \/ SendClose
  BY <1>1, <1>4 DEF SendOpen, SendPath, SendDone, SendClose, PacketsTypeOK
<1> QED BY <1>3, <1>4 DEF Pushes

LEMMA SendOpenStep == ASSUME PacketsInv, SendOpen PROVE PacketsInv'
<1>1. PacketsTypeOK /\ PacketsTypeOK'
  BY TypesOfPushes DEF PacketsInv, Pushes
<1>2. PICK p, c, h : \E r, s, t \in Nat : Stream(p, c, h, r, s, t)
  BY DEF PacketsInv
<1>3. PICK r \in Nat, s \in Nat, t \in Nat : Stream(p, c, h, r, s, t)
  BY <1>2
<1> QED BY <1>1, <1>3, SendsNoRecord DEF SendOpen, Sends

LEMMA SendCloseStep == ASSUME PacketsInv, SendClose PROVE PacketsInv'
<1>1. PacketsTypeOK /\ PacketsTypeOK'
  BY TypesOfPushes DEF PacketsInv, Pushes
<1>2. PICK p, c, h : \E r, s, t \in Nat : Stream(p, c, h, r, s, t)
  BY DEF PacketsInv
<1>3. PICK r \in Nat, s \in Nat, t \in Nat : Stream(p, c, h, r, s, t)
  BY <1>2
<1> QED BY <1>1, <1>3, SendsNoRecord DEF SendClose, Sends

LEMMA SendPathStep == ASSUME PacketsInv, SendPath PROVE PacketsInv'
<1>1. PacketsTypeOK /\ PacketsTypeOK'
  BY TypesOfPushes DEF PacketsInv, Pushes
<1>2. PICK p, c, h : \E r, s, t \in Nat : Stream(p, c, h, r, s, t)
  BY DEF PacketsInv
<1>3. PICK r \in Nat, s \in Nat, t \in Nat : Stream(p, c, h, r, s, t)
  BY <1>2
<1>4. path \in Seq(Nat) /\ Len(path) \in Nat /\ Len(file) \in Nat
      /\ Tag + FieldLen + Len(path) < Unsigned
  BY <1>1, TypesOf
<1> DEFINE x == [tag |-> SEND, num |-> Len(path), data |-> path]
<1>5. x \in Item /\ x.tag = SEND /\ x.data = path /\ x.num = Len(path)
  <2>1. Len(path) \in 0 .. Unsigned - 1
    BY <1>4, UnsignedIs, FieldLenIs DEF Tag
  <2>2. x \in [tag : {SEND, DATA, DONE}, num : 0 .. Unsigned - 1, data : Seq(Nat)]
    BY <1>4, <2>1
  <2>3. x.tag # DONE
    BY DEF SEND, DONE
  <2> QED BY <1>4, <2>2, <2>3 DEF Item
<1>6. t = 0 /\ at = 0
  BY <1>3 DEF SendPath, Stream, Records
<1>7. generateSEND(path) = BytesOfItem(x)
  BY DEF generateSEND, BytesOfItem
<1> HIDE DEF x
<1>8. Made(x, t, at, 0)
  BY <1>6 DEF Made, x
<1>9. SendsItem(x, t, 0)
  BY <1>4, <1>6, <1>7, <1>8 DEF SendsItem, SendPath, Sends
<1> QED BY <1>1, <1>3, <1>5, <1>9, SendsRecord

LEMMA SendBlockStep == ASSUME PacketsInv, SendBlock PROVE PacketsInv'
<1>1. PacketsTypeOK /\ PacketsTypeOK'
  BY TypesOfPushes DEF PacketsInv, Pushes
<1>2. PICK p, c, h : \E r, s, t \in Nat : Stream(p, c, h, r, s, t)
  BY DEF PacketsInv
<1>3. PICK r \in Nat, s \in Nat, t \in Nat : Stream(p, c, h, r, s, t)
  BY <1>2
<1>4. at \in Nat /\ at <= Len(file) /\ Len(file) \in Nat /\ file \in Seq(Nat)
  BY <1>1, BoundOf, TypesOf
<1> DEFINE g == gcount
<1>5. g \in Nat /\ g <= BlockSize /\ at + g <= Len(file) /\ g > 0
  BY <1>1, <1>4, gcountIs DEF SendBlock
<1> DEFINE d == SubSeq(file, at + 1, at + g)
           x == [tag |-> DATA, num |-> g, data |-> d]
           upto == at + g
<1>6. buffer' = [i \in 1 .. BlockSize |-> IF i <= g THEN file[at + i] ELSE buffer[i]]
  BY DEF SendBlock
<1> HIDE DEF g
<1>7. upto \in Nat /\ at < upto /\ upto <= Len(file) /\ upto - at = g
  BY <1>4, <1>5
<1>8. d \in Seq(Nat) /\ Len(d) = g /\ d = [i \in 1 .. g |-> file[at + i]]
  BY <1>4, <1>5
<1>9. SubSeq(buffer', 1, g) = d
  <2>1. SubSeq(buffer', 1, g) = [i \in 1 .. g |-> buffer'[i]]
    BY <1>5
  <2>2. \A i \in 1 .. g : buffer'[i] = file[at + i]
    BY <1>5, <1>6, BlockAssumption
  <2> QED BY <1>8, <2>1, <2>2
<1>10. x \in Item
  <2>1. Tag + FieldLen + g < Unsigned /\ g \in 0 .. Unsigned - 1
    BY <1>5, UnsignedIs, FieldLenIs, BlockAssumption DEF Tag
  <2> HIDE DEF d
  <2>2. x \in [tag : {SEND, DATA, DONE}, num : 0 .. Unsigned - 1, data : Seq(Nat)]
    BY <1>8, <2>1
  <2>3. x.tag # DONE
    BY DEF DATA, DONE
  <2> QED BY <1>8, <2>1, <2>2, <2>3 DEF Item
<1>11. generateDATA(buffer', g) = BytesOfItem(x)
  BY <1>9 DEF generateDATA, BytesOfItem
<1> HIDE DEF d
<1>12. t > 0
  BY <1>3 DEF SendBlock, Stream, Records
<1>13. Made(x, t, at, upto)
  BY <1>7, <1>12 DEF Made, d
<1> HIDE DEF x
<1>14. SendsItem(x, t, upto)
  <2>1. wire = <<>> /\ wire' = generateWrite(localId, remoteId, BytesOfItem(x))
    BY <1>11 DEF SendBlock, Sends, g
  <2>2. at' = upto /\ doing' = "data" /\ UNCHANGED <<file, path, localId, theirs, held, written>>
    BY DEF SendBlock, g
  <2> HIDE DEF upto
  <2> QED BY <1>7, <1>13, <2>1, <2>2 DEF SendsItem
<1> QED BY <1>1, <1>3, <1>7, <1>10, <1>14, SendsRecord

LEMMA SendDoneStep == ASSUME PacketsInv, SendDone PROVE PacketsInv'
<1>1. PacketsTypeOK /\ PacketsTypeOK'
  BY TypesOfPushes DEF PacketsInv, Pushes
<1>2. PICK p, c, h : \E r, s, t \in Nat : Stream(p, c, h, r, s, t)
  BY DEF PacketsInv
<1>3. PICK r \in Nat, s \in Nat, t \in Nat : Stream(p, c, h, r, s, t)
  BY <1>2
<1>4. at \in Nat /\ at <= Len(file) /\ Len(file) \in Nat /\ file \in Seq(Nat)
  BY <1>1, BoundOf, TypesOf
<1>5. at = Len(file)
  BY <1>1, <1>4, gcountIs DEF SendDone
<1>6. PICK mtime \in {0, Unsigned - 1} :
        Sends(generateWrite(localId, remoteId, generateDONE(mtime)))
  BY DEF SendDone
<1> DEFINE x == [tag |-> DONE, num |-> mtime, data |-> <<>>]
<1>7. x \in Item /\ x.tag = DONE /\ x.num = mtime /\ x.data = <<>>
  <2>1. mtime \in 0 .. Unsigned - 1
    BY <1>6, UnsignedIs
  <2>2. x \in [tag : {SEND, DATA, DONE}, num : 0 .. Unsigned - 1, data : Seq(Nat)]
    BY <2>1
  <2>3. Tag + FieldLen + 0 < Unsigned
    BY BlockAssumption, UnsignedIs, FieldLenIs DEF Tag
  <2>4. x.tag = DONE /\ x.data = <<>> /\ Len(x.data) = 0
    OBVIOUS
  <2> QED BY <2>2, <2>3, <2>4 DEF Item
<1>8. generateDONE(mtime) = BytesOfItem(x)
  <2>1. mtime \in Int
    BY <1>6, UnsignedIs
  <2>2. Field(mtime) \in Seq(Nat) /\ <<DONE>> \in Seq(Nat)
    BY <2>1, FieldIs DEF DONE
  <2>3. <<DONE>> \o Field(mtime) \in Seq(Nat)
    BY <2>2
  <2>4. \A q \in Seq(Nat) : q \o <<>> = q
    OBVIOUS
  <2> QED BY <1>7, <2>3, <2>4 DEF generateDONE, BytesOfItem
<1> HIDE DEF x
<1>9. t > 0
  BY <1>3 DEF SendDone, Stream, Records
<1>10. Made(x, t, at, at)
  BY <1>7, <1>9 DEF Made
<1>11. SendsItem(x, t, at)
  BY <1>4, <1>5, <1>6, <1>7, <1>8, <1>10 DEF SendsItem, SendDone, Sends
<1> QED BY <1>1, <1>3, <1>4, <1>7, <1>11, SendsRecord

\* The positions a record held is found at.
LEMMA Standing ==
  ASSUME NEW p, NEW c, NEW h, NEW r \in Nat, NEW s \in Nat, NEW t \in Nat,
         Stream(p, c, h, r, s, t), NEW k \in Nat, r <= k, k < t
  PROVE  /\ h[k] \in Item /\ c[r] \in Nat /\ c[k] \in Nat /\ c[r] <= c[k]
         /\ c[k + 1] = c[k] + Len(BytesOfItem(h[k])) /\ c[k + 1] \in Nat
         /\ Len(BytesOfItem(h[k])) \in Nat /\ Len(BytesOfItem(h[k])) >= 1
<1>1. c \in [Nat -> Nat] /\ h \in [Nat -> Item]
  BY DEF Stream, Records
<1>2. c[k + 1] = c[k] + Len(BytesOfItem(h[k]))
  BY DEF Stream, Records
<1>3. c[r] <= c[k]
  <2>1. k <= t
    OBVIOUS
  <2>2. \A i, j \in Nat : i <= j /\ j <= t => c[i] <= c[j]
    BY Zenon DEF Stream, Records
  <2> QED BY <2>1, <2>2
<1>4. h[k] \in Item /\ c[r] \in Nat /\ c[k] \in Nat /\ c[k + 1] \in Nat
  BY <1>1
<1> QED BY <1>2, <1>4, <1>3, PayloadOf

LEMMA HeldLonger ==
  ASSUME NEW S, NEW q \in Seq(S), NEW b \in Seq(S), NEW o \in Nat, NEW a \in Seq(S),
         o + Len(a) <= Len(q)
  PROVE  /\ StandsAt(q, o, a) => StandsAt(q \o b, o, a)
         /\ StandsAt(q \o b, Len(q), b)
<1> DEFINE x == q \o b
           l == Len(a)
           m == Len(q)
<1>1. Joins(x, q, b)
  BY Joined
<1>2. /\ \A i \in 1 .. m : x[i] = q[i]
      /\ \A i \in 1 .. Len(b) : x[m + i] = b[i]
  BY Zenon, <1>1 DEF Joins
<1> HIDE DEF x
<1>3. l \in Nat /\ m \in Nat /\ o + l <= m
  OBVIOUS
<1> HIDE DEF l, m
<1>4. \A i \in 1 .. l : o + i \in 1 .. m
  BY <1>3
<1>5. ASSUME StandsAt(q, o, a) PROVE StandsAt(x, o, a)
  BY Zenon, <1>2, <1>4, <1>5 DEF StandsAt, l
<1>6. StandsAt(x, m, b)
  BY Zenon, <1>2 DEF StandsAt
<1> QED BY <1>5, <1>6 DEF x, m

LEMMA TakesStep == ASSUME PacketsInv, Takes PROVE PacketsInv'
<1>1. PICK p, c, h : \E r, s, t \in Nat : Stream(p, c, h, r, s, t)
  BY DEF PacketsInv
<1>2. PICK r \in Nat, s \in Nat, t \in Nat : Stream(p, c, h, r, s, t)
  BY <1>1
<1>3. PacketsTypeOK
  BY DEF PacketsInv
<1>4. /\ wire # <<>> /\ wire' = <<>>
      /\ UNCHANGED <<doing, file, path, localId, theirs, buffer, at, written>>
  BY DEF Takes
<1>5. held' = IF parseAdbMessage(wire).command = WRTE /\ parseAdbMessage(wire).arg1 = theirs
                THEN held \o parseAdbMessage(wire).payload ELSE held
  BY DEF Takes
<1>6. Records(p, c, h, t)' /\ Used(p, h, r)'
  <2>1. Records(p, c, h, t) /\ Used(p, h, r)
    BY <1>2 DEF Stream
  <2> QED BY <1>4, <2>1 DEF Records, Made, Used
<1>7. r <= s /\ s <= t /\ Holds(c, h, r, s)
  BY <1>2 DEF Stream
<1>8. ASSUME NEW k \in Nat, r <= k, k < t
      PROVE  /\ h[k] \in Item /\ c[r] \in Nat /\ c[k] \in Nat /\ c[r] <= c[k]
             /\ c[k + 1] = c[k] + Len(BytesOfItem(h[k])) /\ c[k + 1] \in Nat
             /\ Len(BytesOfItem(h[k])) \in Nat /\ Len(BytesOfItem(h[k])) >= 1
  BY <1>2, <1>8, Standing
<1>9. CASE wire \in {generateOpen(localId, Sync), generateClose(localId, remoteId)} /\ s = t
  <2>1. parseAdbMessage(wire).command \in {OPEN, CLSE}
    BY <1>3, <1>9, OpenRead, CloseRead
  <2>2. held' = held
    BY <1>5, <2>1 DEF OPEN, CLSE, WRTE
  <2>3. PacketsTypeOK'
    BY <1>3, <1>4, <2>2 DEF PacketsTypeOK
  <2>4. Holds(c, h, r, s)'
    BY <1>7, <2>2 DEF Holds
  <2>5. OnItsWay(h, s, t)'
    BY <1>4, <1>9 DEF OnItsWay
  <2>6. Stream(p, c, h, r, s, t)'
    BY <1>6, <1>7, <2>4, <2>5 DEF Stream
  <2> QED BY <2>3, <2>6 DEF PacketsInv
<1>10. CASE wire = generateWrite(localId, remoteId, BytesOfItem(h[s])) /\ t = s + 1
  <2> DEFINE b == BytesOfItem(h[s])
             l == Len(b)
  <2>1. s < t /\ t = s + 1 /\ t \in Nat
    BY <1>10
  <2>2. /\ h[s] \in Item /\ c[r] \in Nat /\ c[s] \in Nat /\ c[r] <= c[s] /\ c[t] \in Nat
        /\ c[t] = c[s] + l /\ l \in Nat
    BY <1>7, <2>1, <1>8
  <2>3. b \in Seq(Nat) /\ l < Unsigned
    BY <2>2, PayloadOf
  <2>4. held' = held \o b /\ held \in Seq(Nat)
    <3>1. LET m == parseAdbMessage(wire)
          IN  m.command = WRTE /\ m.arg1 = theirs /\ m.payload = b
      BY <1>3, <1>10, <2>3, WriteRead
    <3> QED BY <1>3, <1>5, <3>1 DEF PacketsTypeOK
  <2> HIDE DEF b
  <2>5. held' \in Seq(Nat) /\ Len(held') = Len(held) + l
    <3>1. held \o b \in Seq(Nat) /\ Joins(held \o b, held, b)
      BY <2>3, <2>4, Joined
    <3> QED BY Zenon, <2>4, <3>1 DEF Joins
  <2>6. PacketsTypeOK'
    BY <1>3, <1>4, <2>5 DEF PacketsTypeOK
  <2> DEFINE n == Len(held)
  <2>7. n + c[r] = c[s] /\ n \in Nat
    BY <1>7, <2>4 DEF Holds
  <2> HIDE DEF l, n
  <2>8. n + l + c[r] = c[t] /\ n = c[s] - c[r]
    BY <2>2, <2>7
  <2>9. ASSUME NEW k \in Nat, r <= k, k < t
        PROVE  StandsAt(held', c[k] - c[r], BytesOfItem(h[k]))
    <3>1. CASE k < s
      <4> DEFINE a == BytesOfItem(h[k])
                 o == c[k] - c[r]
      <4>1. k < t
        BY <2>9
      <4>2. /\ h[k] \in Item /\ c[k] \in Nat /\ c[r] <= c[k] /\ c[k + 1] = c[k] + Len(a)
            /\ Len(a) \in Nat /\ c[k + 1] \in Nat
        BY <2>9, <1>8
      <4>3. c[k + 1] <= c[s]
        BY <1>2, <2>1, <3>1 DEF Stream, Records
      <4>4. a \in Seq(Nat)
        BY <4>2, PayloadOf
      <4>5. StandsAt(held, o, a)
        BY <1>7, <2>9, <3>1 DEF Holds
      <4> HIDE DEF a
      <4>6. o \in Nat /\ o + Len(a) <= n
        <5> DEFINE u == c[k]
                   v == c[k + 1]
                   w == Len(a)
        <5>1. u \in Nat /\ v \in Nat /\ w \in Nat /\ v = u + w /\ c[r] <= u /\ v <= c[s]
          BY <4>2, <4>3
        <5> HIDE DEF u, v, w
        <5>2. u - c[r] \in Nat /\ u - c[r] + w <= n
          BY <2>2, <2>8, <5>1
        <5> QED BY Zenon, <5>2 DEF u, w
      <4> HIDE DEF o
      <4>7. StandsAt(held \o b, o, a)
        BY <2>3, <2>4, <4>4, <4>5, <4>6, HeldLonger DEF n
      <4> QED BY <2>4, <4>7 DEF a, o
    <3>2. CASE k = s
      <4>1. StandsAt(held \o b, n, b)
        <5>1. 0 + Len(<<>>) <= Len(held) /\ <<>> \in Seq(Nat)
          BY <2>4
        <5> QED BY <2>3, <2>4, <5>1, HeldLonger DEF n
      <4> QED BY <2>4, <2>8, <3>2, <4>1 DEF b
    <3> QED BY <2>1, <2>9, <3>1, <3>2
  <2>10. Holds(c, h, r, t)'
    BY <2>5, <2>8, <2>9 DEF Holds, n
  <2>11. OnItsWay(h, t, t)'
    BY <1>4 DEF OnItsWay
  <2>12. r <= t
    BY <1>7, <2>1
  <2>13. Stream(p, c, h, r, t, t)'
    BY <1>6, <2>10, <2>11, <2>12 DEF Stream
  <2> QED BY <2>6, <2>13 DEF PacketsInv
<1> QED BY <1>2, <1>4, <1>9, <1>10 DEF Stream, OnItsWay

LEMMA HeldShorter ==
  ASSUME NEW S, NEW q \in Seq(S), NEW l \in Nat, l <= Len(q), NEW o \in Nat, NEW a \in Seq(S),
         l + o + Len(a) <= Len(q), StandsAt(q, l + o, a)
  PROVE  StandsAt(SubSeq(q, l + 1, Len(q)), o, a)
<1> DEFINE n == Len(a)
           m == Len(q)
           x == SubSeq(q, l + 1, m)
<1>1. \A i \in 1 .. m - l : x[i] = q[l + i]
  BY Stretch
<1>2. n \in Nat /\ m \in Nat /\ l + o + n <= m
  OBVIOUS
<1>3. \A i \in 1 .. n : q[l + o + i] = a[i]
  BY DEF StandsAt
<1> HIDE DEF x, n, m
<1>4. \A i \in 1 .. n : o + i \in 1 .. m - l /\ l + (o + i) = l + o + i
  BY <1>2
<1>5. \A i \in 1 .. n : x[o + i] = a[i]
  BY Zenon, <1>1, <1>3, <1>4
<1> QED BY Zenon, <1>5 DEF StandsAt, x, n, m

\* The device's next record, when it holds one.
LEMMA NextRecord ==
  ASSUME PacketsTypeOK, NEW p, NEW c, NEW h, NEW r \in Nat, NEW s \in Nat, NEW t \in Nat,
         Stream(p, c, h, r, s, t)
  PROVE  /\ HoldsRecord <=> r < s
         /\ HoldsRecord =>
              /\ RecordLength = Len(BytesOfItem(h[r])) /\ held[1] = h[r].tag
              /\ SubSeq(held, Tag + FieldLen + 1, RecordLength) = h[r].data
              /\ RecordLength \in Nat /\ RecordLength <= Len(held)
<1>1. /\ r <= s /\ s <= t /\ Len(held) + c[r] = c[s] /\ Records(p, c, h, t)
      /\ \A k \in Nat : r <= k /\ k < s => StandsAt(held, c[k] - c[r], BytesOfItem(h[k]))
  BY DEF Stream, Holds
<1>2. held \in Seq(Nat) /\ Len(held) \in Nat
  BY DEF PacketsTypeOK
<1>3. c[r] \in Nat /\ c[s] \in Nat
  BY <1>1 DEF Records
<1>4. ASSUME HoldsRecord PROVE r < s
  <2>1. Len(held) >= Tag + FieldLen
    BY <1>4 DEF HoldsRecord
  <2>2. Len(held) > 0
    BY <1>2, <2>1, FieldLenIs DEF Tag
  <2>3. r # s
    BY <1>1, <1>2, <1>3, <2>2
  <2> QED BY <1>1, <2>3
<1>5. ASSUME NEW k \in Nat, r <= k, k < t
      PROVE  /\ h[k] \in Item /\ c[r] \in Nat /\ c[k] \in Nat /\ c[r] <= c[k]
             /\ c[k + 1] = c[k] + Len(BytesOfItem(h[k])) /\ c[k + 1] \in Nat
             /\ Len(BytesOfItem(h[k])) \in Nat /\ Len(BytesOfItem(h[k])) >= 1
  BY <1>5, Standing
<1>6. ASSUME r < s
      PROVE  /\ HoldsRecord /\ RecordLength = Len(BytesOfItem(h[r])) /\ held[1] = h[r].tag
             /\ SubSeq(held, Tag + FieldLen + 1, RecordLength) = h[r].data
             /\ RecordLength \in Nat /\ RecordLength <= Len(held)
  <2> DEFINE b == BytesOfItem(h[r])
             l == Len(b)
  <2>1. r < t /\ r <= r /\ r + 1 <= s /\ r + 1 \in Nat
    BY <1>1, <1>6
  <2>2. h[r] \in Item /\ c[r + 1] = c[r] + l /\ l \in Nat
    BY <2>1, <1>5
  <2>3. c[r + 1] <= c[s]
    BY <1>1, <2>1 DEF Records
  <2>4. StandsAt(held, c[r] - c[r], b)
    BY <1>1, <1>6
  <2> HIDE DEF b
  <2>5. c[r] - c[r] = 0 /\ l <= Len(held)
    <3> HIDE DEF l
    <3> QED BY <1>1, <1>2, <1>3, <2>2, <2>3
  <2>6. StandsAt(held, 0, b)
    BY <2>4, <2>5
  <2>7. /\ HoldsRecord /\ RecordLength = Len(b) /\ held[1] = h[r].tag
        /\ SubSeq(held, Tag + FieldLen + 1, RecordLength) = h[r].data
    BY <1>2, <2>2, <2>5, <2>6, RecordRead DEF b
  <2> QED BY <2>2, <2>5, <2>7 DEF b
<1> QED BY <1>4, <1>6

LEMMA RecordStep == ASSUME PacketsInv, Record PROVE PacketsInv'
<1>1. PICK p, c, h : \E r, s, t \in Nat : Stream(p, c, h, r, s, t)
  BY DEF PacketsInv
<1>2. PICK r \in Nat, s \in Nat, t \in Nat : Stream(p, c, h, r, s, t)
  BY <1>1
<1>3. PacketsTypeOK /\ held \in Seq(Nat) /\ Len(held) \in Nat
  BY DEF PacketsInv, PacketsTypeOK
<1>4. ASSUME NEW k \in Nat, r <= k, k < t
      PROVE  /\ h[k] \in Item /\ c[r] \in Nat /\ c[k] \in Nat /\ c[r] <= c[k]
             /\ c[k + 1] = c[k] + Len(BytesOfItem(h[k])) /\ c[k + 1] \in Nat
             /\ Len(BytesOfItem(h[k])) \in Nat /\ Len(BytesOfItem(h[k])) >= 1
  BY <1>2, <1>4, Standing
<1>5. /\ r < s /\ RecordLength = Len(BytesOfItem(h[r])) /\ held[1] = h[r].tag
      /\ SubSeq(held, Tag + FieldLen + 1, RecordLength) = h[r].data
      /\ RecordLength \in Nat /\ RecordLength <= Len(held)
  <2>1. HoldsRecord
    BY DEF Record
  <2>2. /\ HoldsRecord <=> r < s
        /\ HoldsRecord =>
              /\ RecordLength = Len(BytesOfItem(h[r])) /\ held[1] = h[r].tag
              /\ SubSeq(held, Tag + FieldLen + 1, RecordLength) = h[r].data
              /\ RecordLength \in Nat /\ RecordLength <= Len(held)
    BY <1>2, <1>3, NextRecord
  <2> QED BY Zenon, <2>1, <2>2
<1> DEFINE x == h[r]
           b == BytesOfItem(x)
           l == RecordLength
           n == r + 1
           m == Len(held)
<1>6. r < s /\ l = Len(b) /\ l \in Nat /\ l <= m
  BY <1>5
<1>7. held' = SubSeq(held, l + 1, m)
  BY DEF Record
<1>8. /\ x.tag = SEND => written' = [written EXCEPT !.path = x.data]
      /\ x.tag = DATA => written' = [written EXCEPT !.file = @ \o x.data]
      /\ x.tag = DONE => written' = [written EXCEPT !.done = TRUE]
  <2>1. written' = CASE x.tag = SEND -> [written EXCEPT !.path = x.data]
                     [] x.tag = DATA -> [written EXCEPT !.file = @ \o x.data]
                     [] x.tag = DONE -> [written EXCEPT !.done = TRUE]
                     [] OTHER -> Nothing
    BY Zenon, <1>5 DEF Record
  <2>2. SEND # DATA /\ SEND # DONE /\ DATA # DONE
    BY DEF SEND, DATA, DONE
  <2> QED BY <2>1, <2>2
<1>9. UNCHANGED <<doing, file, path, localId, theirs, buffer, at, wire>>
  BY DEF Record
<1> HIDE DEF l
<1>10. n \in Nat /\ n <= s /\ s <= t /\ r < t /\ n <= t /\ n # 0
       /\ \A k \in Nat : k < n <=> k < r \/ k = r
  BY <1>2, <1>6 DEF Stream
<1>11. c[n] = c[r] + l /\ c[n] \in Nat /\ c[r] \in Nat /\ x \in Item
  <2>1. r <= r
    OBVIOUS
  <2>2. /\ h[r] \in Item /\ c[r] \in Nat /\ c[r + 1] = c[r] + Len(BytesOfItem(h[r]))
        /\ c[r + 1] \in Nat
    BY <1>10, <1>4, <2>1
  <2> QED BY <1>6, <2>2
<1>12. m + c[r] = c[s] /\ m \in Nat /\ Records(p, c, h, t) /\ Used(p, h, r) /\ OnItsWay(h, s, t)
       /\ \A k \in Nat : r <= k /\ k < s => StandsAt(held, c[k] - c[r], BytesOfItem(h[k]))
  BY <1>2, <1>3 DEF Stream, Holds
<1> HIDE DEF m, n
<1>13. held' \in Seq(Nat) /\ Len(held') = m - l
  <2>1. Len(held) \in Nat /\ l <= Len(held) /\ l \in Nat /\ Len(held) <= Len(held)
    BY <1>6, <1>12 DEF m
  <2>2. /\ SubSeq(held, l + 1, Len(held)) \in Seq(Nat)
        /\ Len(SubSeq(held, l + 1, Len(held))) = Len(held) - l
    BY <1>3, <2>1, Stretch
  <2> QED BY Zenon, <1>7, <2>2 DEF m
<1>14. /\ m - l + c[n] = c[s]
       /\ \A u, w \in Nat : c[n] <= u /\ u + w <= c[s] =>
            u - c[n] \in Nat /\ l + (u - c[n]) = u - c[r] /\ l + (u - c[n]) + w <= m
  <2>1. c[s] \in Nat /\ m + c[r] = c[s] /\ c[n] = c[r] + l /\ l <= m
    BY <1>6, <1>11, <1>12 DEF Records
  <2>2. l \in Nat /\ m \in Nat /\ c[r] \in Nat /\ c[n] \in Nat
    BY <1>6, <1>11, <1>12
  <2> DEFINE a == c[r]
             z == c[s]
             y == c[n]
  <2>3. /\ l \in Nat /\ m \in Nat /\ a \in Nat /\ y \in Nat /\ z \in Nat
        /\ m + a = z /\ y = a + l /\ l <= m
    BY <2>1, <2>2
  <2> HIDE DEF a, z, y
  <2>4. /\ m - l + y = z
        /\ \A u, w \in Nat : y <= u /\ u + w <= z =>
             u - y \in Nat /\ l + (u - y) = u - a /\ l + (u - y) + w <= m
    BY <2>3
  <2> QED BY Zenon, <2>4 DEF a, z, y
<1>15. Holds(c, h, n, s)'
  <2>1. Len(held') + c[n] = c[s]
    BY <1>14, <1>13
  <2>2. ASSUME NEW k \in Nat, n <= k, k < s
        PROVE  StandsAt(held', c[k] - c[n], BytesOfItem(h[k]))
    <3> DEFINE a == BytesOfItem(h[k])
               u == c[k]
               v == c[k + 1]
               w == Len(a)
               o == u - c[n]
    <3>1. r <= k /\ k < t /\ k <= t /\ k + 1 \in Nat /\ k + 1 <= s
      BY <1>10, <2>2 DEF n
    <3>2. h[k] \in Item /\ u \in Nat /\ v \in Nat /\ w \in Nat /\ v = u + w
      BY <1>4, <3>1
    <3>3. v <= c[s]
      BY <1>10, <1>12, <3>1 DEF Records
    <3>4. c[n] <= u
      BY <1>10, <1>12, <2>2, <3>1 DEF Records
    <3>5. a \in Seq(Nat)
      BY <3>2, PayloadOf
    <3>6. StandsAt(held, u - c[r], a)
      BY <1>12, <2>2, <3>1
    <3> HIDE DEF a, u, v, w
    <3>7. o \in Nat /\ l + o = u - c[r] /\ l + o + w <= m
      BY <1>14, <3>2, <3>3, <3>4
    <3> HIDE DEF o
    <3>8. StandsAt(held, l + o, a)
      BY Zenon, <3>6, <3>7
    <3>9. l + o + Len(a) <= Len(held) /\ l <= Len(held)
      BY <1>6, <3>7 DEF w, m
    <3>10. StandsAt(held', o, a)
      BY <1>3, <1>6, <1>7, <3>5, <3>7, <3>8, <3>9, HeldShorter DEF m
    <3> QED BY <3>10 DEF o, a, u
  <2> QED BY <2>1, <2>2 DEF Holds
<1>16. Used(p, h, n)'
  <2>1. Made(x, r, p[r], p[n])
    BY <1>10, <1>12 DEF Records, n
  <2>2. /\ written = [path |-> IF r = 0 THEN <<>> ELSE path, file |-> SubSeq(file, 1, p[r]),
                      done |-> \E k \in Nat : k < r /\ h[k].tag = DONE]
        /\ p[0] = 0 /\ p[r] \in Nat /\ p[n] \in Nat /\ p[n] <= Len(file)
    BY <1>10, <1>12 DEF Records, Used
  <2> DEFINE was == \E k \in Nat : k < r /\ h[k].tag = DONE
             is == \E k \in Nat : k < n /\ h[k].tag = DONE
  <2>3. is <=> was \/ x.tag = DONE
    BY <1>10
  <2>4. file \in Seq(Nat)
    BY <1>3, TypesOf
  <2> SUFFICES written' = [path |-> path, file |-> SubSeq(file, 1, p[n]), done |-> is]
    BY <1>9, <1>10 DEF Used
  <2> HIDE DEF was, is
  <2>5. was \in BOOLEAN /\ is \in BOOLEAN
    BY DEF was, is
  <2>6. written = [path |-> IF r = 0 THEN <<>> ELSE path, file |-> SubSeq(file, 1, p[r]),
                   done |-> was]
    BY <2>2 DEF was
  <2>7. CASE r = 0 /\ p[n] = 0 /\ x = [tag |-> SEND, num |-> Len(path), data |-> path]
    <3>1. x.tag = SEND /\ x.data = path /\ x.tag # DONE
      BY <2>7 DEF SEND, DONE
    <3>2. p[r] = p[n] /\ is = was
      BY <2>2, <2>3, <2>5, <2>7, <3>1
    <3> QED BY <1>8, <2>6, <3>1, <3>2
  <2>8. CASE /\ r > 0 /\ p[r] < p[n]
             /\ x = [tag |-> DATA, num |-> p[n] - p[r], data |-> SubSeq(file, p[r] + 1, p[n])]
    <3> DEFINE d == SubSeq(file, p[r] + 1, p[n])
               z == p[n] - p[r]
    <3>1. x = [tag |-> DATA, num |-> z, data |-> d]
      BY Zenon, <2>8
    <3> HIDE DEF d, z, x
    <3>2. x.tag = DATA /\ x.data = SubSeq(file, p[r] + 1, p[n]) /\ x.tag # DONE
      <4>1. x.tag = DATA /\ x.data = d
        BY <3>1
      <4>2. DATA # DONE
        BY DEF DATA, DONE
      <4> QED BY Zenon, <4>1, <4>2 DEF d
    <3>3. is = was /\ r # 0
      BY <2>3, <2>5, <2>8, <3>2
    <3>4. SubSeq(file, 1, p[r]) \o SubSeq(file, p[r] + 1, p[n]) = SubSeq(file, 1, p[n])
      <4>1. 1 \in 1 .. Len(file) + 1 /\ p[r] \in 0 .. Len(file) /\ p[n] \in p[r] .. Len(file)
        BY <2>2, <2>4, <2>8
      <4>2. p[r] \in 1 - 1 .. Len(file)
        BY <4>1
      <4> QED BY Zenon, <2>4, <4>1, <4>2, ConcatAdjacentSubSeq
    <3> QED BY <1>8, <2>6, <3>2, <3>3, <3>4
  <2>9. CASE r > 0 /\ p[r] = p[n] /\ x.tag = DONE
    <3>1. is = TRUE /\ r # 0
      BY <2>3, <2>5, <2>9
    <3> QED BY <1>8, <2>6, <2>9, <3>1
  <2> QED BY <2>1, <2>7, <2>8, <2>9 DEF Made
<1>17. Records(p, c, h, t)' /\ OnItsWay(h, s, t)'
  BY <1>9, <1>12 DEF Records, Made, OnItsWay, remoteId
<1>18. Stream(p, c, h, n, s, t)'
  BY <1>10, <1>15, <1>16, <1>17 DEF Stream
<1>19. PacketsTypeOK'
  BY <1>3, <1>9, <1>13 DEF PacketsTypeOK
<1> QED BY <1>10, <1>18, <1>19 DEF PacketsInv

LEMMA PacketsStep == PacketsInv /\ [PacketNext]_packetVars => PacketsInv'
<1> SUFFICES ASSUME PacketsInv, [PacketNext]_packetVars PROVE PacketsInv'
  OBVIOUS
<1>1. CASE SendOpen
  BY <1>1, SendOpenStep
<1>2. CASE SendPath
  BY <1>2, SendPathStep
<1>3. CASE SendBlock
  BY <1>3, SendBlockStep
<1>4. CASE SendDone
  BY <1>4, SendDoneStep
<1>5. CASE SendClose
  BY <1>5, SendCloseStep
<1>6. CASE Takes
  BY <1>6, TakesStep
<1>7. CASE Record
  BY <1>7, RecordStep
<1>8. CASE UNCHANGED packetVars
  <2>1. PICK p, c, h : \E r, s, t \in Nat : Stream(p, c, h, r, s, t)
    BY DEF PacketsInv
  <2>2. PICK r \in Nat, s \in Nat, t \in Nat : Stream(p, c, h, r, s, t)
    BY <2>1
  <2>3. Stream(p, c, h, r, s, t)'
    BY <1>8, <2>2 DEF packetVars, Stream, Records, Made, Used, Holds, OnItsWay, remoteId
  <2>4. PacketsTypeOK'
    BY <1>8 DEF packetVars, PacketsInv, PacketsTypeOK
  <2> QED BY <2>3, <2>4 DEF PacketsInv
<1> QED BY <1>1, <1>2, <1>3, <1>4, <1>5, <1>6, <1>7, <1>8 DEF PacketNext, Pushes

\* The inductive invariant of Packets.
LEMMA PacketsAlways == PacketSpec => []PacketsInv
<1>1. PacketInit => PacketsInv
  BY PacketsInit
<1>2. PacketsInv /\ [PacketNext]_packetVars => PacketsInv'
  BY PacketsStep
<1> QED BY <1>1, <1>2, PTL DEF PacketSpec

-----------------------------------------------------------------------------
\* Packets: what follows

\* Every packet of a push is read back with the ids of both sides and its own length,
\* for every file, path, size of the block and pair of ids.
THEOREM PacketIntactAlways == PacketSpec => []PacketIntact
<1>1. PacketsInv => PacketIntact
  <2> SUFFICES ASSUME PacketsInv, wire # <<>>
               PROVE  LET m == parseAdbMessage(wire)
                      IN  /\ m.arg0 = localId
                          /\ m.arg1 = IF m.command = OPEN THEN 0 ELSE theirs
                          /\ HeaderLength + m.payloadLength = Len(wire)
    BY DEF PacketIntact
  <2>1. PICK p, c, h : \E r, s, t \in Nat : Stream(p, c, h, r, s, t)
    BY DEF PacketsInv
  <2>2. PICK r \in Nat, s \in Nat, t \in Nat : Stream(p, c, h, r, s, t)
    BY <2>1
  <2>3. PacketsTypeOK /\ OPEN # WRTE /\ OPEN # CLSE
    BY DEF PacketsInv, OPEN, WRTE, CLSE
  <2>4. CASE wire = generateOpen(localId, Sync)
    BY <2>3, <2>4, OpenRead
  <2>5. CASE wire = generateClose(localId, remoteId)
    BY <2>3, <2>5, CloseRead
  <2>6. CASE wire = generateWrite(localId, remoteId, BytesOfItem(h[s]))
    <3>1. h[s] \in Item
      BY <2>2 DEF Stream, Records
    <3>2. BytesOfItem(h[s]) \in Seq(Nat) /\ Len(BytesOfItem(h[s])) < Unsigned
      BY <3>1, PayloadOf
    <3> QED BY <2>3, <2>6, <3>2, WriteRead
  <2> QED BY <2>2, <2>4, <2>5, <2>6 DEF Stream, OnItsWay
<1> QED BY <1>1, PacketsAlways, PTL

\* What the device has written is a front part of the file, and all of it, under the
\* path and closed, once the push is over and the device has read everything.
THEOREM FileIntactAlways == PacketSpec => []FileIntact
<1>1. PacketsInv => FileIntact
  <2> SUFFICES ASSUME PacketsInv PROVE FileIntact
    OBVIOUS
  <2>1. PICK p, c, h : \E r, s, t \in Nat : Stream(p, c, h, r, s, t)
    BY DEF PacketsInv
  <2>2. PICK r \in Nat, s \in Nat, t \in Nat : Stream(p, c, h, r, s, t)
    BY <2>1
  <2>3. PacketsTypeOK /\ file \in Seq(Nat) /\ held \in Seq(Nat)
    BY TypesOf DEF PacketsInv, PacketsTypeOK
  <2>4. /\ r <= s /\ s <= t
        /\ written = [path |-> IF r = 0 THEN <<>> ELSE path, file |-> SubSeq(file, 1, p[r]),
                      done |-> \E k \in Nat : k < r /\ h[k].tag = DONE]
    BY <2>2 DEF Stream, Used
  <2>5. p[r] \in Nat /\ p[r] <= Len(file) /\ p[t] = at /\ p[t] \in Nat
    BY <2>2, <2>4 DEF Stream, Records
  <2>6. IsPrefix(written.file, file)
    <3> DEFINE n == p[r]
               w == SubSeq(file, 1, n)
    <3>1. n \in Nat /\ n <= Len(file)
      BY <2>5
    <3> HIDE DEF n
    <3>2. w \in Seq(Nat) /\ Len(w) = n
      BY <2>3, <3>1
    <3>3. SubSeq(w, 1, n) = w
      BY <2>3, <3>1
    <3>4. IsPrefix(w, file)
      <4> HIDE DEF w
      <4>1. Len(w) <= Len(file) /\ SubSeq(w, 1, Len(w)) = SubSeq(file, 1, Len(w))
        BY <3>1, <3>2, <3>3 DEF w
      <4> QED BY Zenon, <4>1 DEF IsPrefix
    <3> QED BY <2>4, <3>4 DEF n
  <2>7. written.path = <<>> \/ written.path = path
    BY <2>4
  <2>8. ASSUME doing = "over", wire = <<>>, ~HoldsRecord
        PROVE  held = <<>> /\ written = [path |-> path, file |-> file, done |-> TRUE]
    <3>1. s = t
      BY <2>2, <2>3, <2>8, WireEmpty
    <3>2. ~(r < s)
      BY <2>2, <2>3, <2>8, NextRecord
    <3>3. r = s /\ r = t
      BY <2>4, <3>1, <3>2
    <3>4. held = <<>>
      <4>1. Len(held) + c[r] = c[s] /\ c[r] \in Nat /\ Len(held) \in Nat
        BY <2>2, <2>3 DEF Stream, Holds, Records
      <4>2. Len(held) = 0
        BY <3>3, <4>1
      <4> QED BY <2>3, <4>2
    <3>5. t # 0 /\ h[t - 1].tag = DONE /\ at = Len(file)
      BY <2>2, <2>8 DEF Stream, Records
    <3>6. \E k \in Nat : k < r /\ h[k].tag = DONE
      <4>1. t - 1 \in Nat /\ t - 1 < r
        BY <3>3, <3>5
      <4> QED BY <3>5, <4>1
    <3>7. SubSeq(file, 1, p[r]) = file
      <4>1. p[r] = Len(file)
        BY <2>5, <3>3, <3>5
      <4> QED BY <2>3, <4>1
    <3> QED BY <2>4, <3>3, <3>4, <3>5, <3>6, <3>7
  <2> QED BY <2>6, <2>7, <2>8 DEF FileIntact
<1> QED BY <1>1, PacketsAlways, PTL
=============================================================================
