------------------------- MODULE SessionSend_proofs -------------------------
(***************************************************************************)
(* What SessionSend guarantees for any number of threads, any bound on the *)
(* calls and any packet lengths.  IInv is the inductive invariant: it says *)
(* who may be inside the critical section, which write may be live, and    *)
(* where the stream stands with respect to the queue.                      *)
(***************************************************************************)
EXTENDS SessionSend, TLAPS

\* Who is between the lock and the unlock of sendMutex_.
Critical(i) == writes[i].st \in {"pop", "next"}

Exclusion ==
  /\ ~mutex => /\ \A s \in Senders : ~InSend(s)
               /\ \A i \in DOMAIN writes : ~Critical(i)
  /\ \A s, t \in Senders : InSend(s) /\ InSend(t) => s = t
  /\ \A s \in Senders : \A i \in DOMAIN writes : InSend(s) => ~Critical(i)

\* Only the youngest write can be live.
LastIsLive == \A i \in DOMAIN writes : writes[i].st # "over" => i = Len(writes)

\* sendQueue holds the ranks of the youngest packets, consecutively.
Popped == Len(accepted) - Len(sendQueue)
QueueIsSuffix ==
  /\ Len(sendQueue) <= Len(accepted)
  /\ \A n \in DOMAIN sendQueue : sendQueue[n] = Popped + n

\* A live write works on the front of the queue.
OnFrontAt(i) ==
  /\ writes[i].st \in {"transfer", "complete", "pop", "failed"} =>
       /\ sendQueue # <<>>
       /\ writes[i].pkt = Popped + 1
       /\ writes[i].off <= accepted[Popped + 1]
  /\ writes[i].st \in {"complete", "pop"} => writes[i].off = accepted[Popped + 1]
  /\ writes[i].st = "failed" => writes[i].off < accepted[Popped + 1]
OnFront == \A i \in DOMAIN writes : OnFrontAt(i)

AllOver == \A i \in DOMAIN writes : writes[i].st = "over"

\* What a thread inside send() may rely on, and who serves the queue.
SenderKnows ==
  /\ \A s \in Senders : pc[s] = "push" => (writing[s] <=> sendQueue # <<>>)
  /\ \A s \in Senders : pc[s] = "start" /\ ~writing[s] => AllOver /\ sendQueue # <<>>
  /\ sendQueue # <<>> => \/ ~AllOver
                         \/ \E s \in Senders : pc[s] = "start" /\ ~writing[s]

\* The byte the stream has to go on with.
NextByte == Channel!NextByte
Byte(k, b) == [pkt |-> k, off |-> b]

\* Where the stream stands: the bytes are bytes of accepted packets, a live
\* write is at the next one, and between two writes the next is the front's.
WireBytes == \A n \in DOMAIN wire :
  wire[n].pkt \in DOMAIN accepted /\ wire[n].off \in 1 .. accepted[wire[n].pkt]
WireAt(i) ==
  /\ (writes[i].st \in {"transfer", "failed"} /\ writes[i].off < accepted[Popped + 1])
       => NextByte = Byte(Popped + 1, writes[i].off + 1)
  /\ (writes[i].st \in {"transfer", "complete", "pop"} /\ writes[i].off = accepted[Popped + 1])
       => NextByte = Byte(Popped + 2, 1)
WireRest == (\A i \in DOMAIN writes : writes[i].st \in {"over", "next"})
              => NextByte = Byte(Popped + 1, 1)
WireKnows == WireBytes /\ (\A i \in DOMAIN writes : WireAt(i)) /\ WireRest

Control == TypeOK /\ Exclusion /\ LastIsLive /\ QueueIsSuffix /\ OnFront /\ SenderKnows
IInv == Control /\ WireKnows /\ WireInOrder

-----------------------------------------------------------------------------
\* What the sequence updates of the actions do.

LEMMA SeqSet ==
  ASSUME NEW S, NEW s \in Seq(S), NEW i \in DOMAIN s, NEW e \in S
  PROVE  /\ [s EXCEPT ![i] = e] \in Seq(S)
         /\ Len([s EXCEPT ![i] = e]) = Len(s)
         /\ DOMAIN [s EXCEPT ![i] = e] = DOMAIN s
         /\ [s EXCEPT ![i] = e][i] = e
         /\ \A j \in DOMAIN s : j # i => [s EXCEPT ![i] = e][j] = s[j]
  OBVIOUS

LEMMA AppendSeq ==
  ASSUME NEW S, NEW s \in Seq(S), NEW e \in S
  PROVE  /\ Append(s, e) # <<>>
         /\ Len(Append(s, e)) = Len(s) + 1
         /\ Append(s, e)[Len(Append(s, e))] = e
         /\ \A n \in DOMAIN Append(s, e) :
              \/ n \in DOMAIN s /\ Append(s, e)[n] = s[n]
              \/ n = Len(Append(s, e)) /\ Append(s, e)[n] = e
  OBVIOUS

LEMMA RecordOff ==
  ASSUME NEW P, NEW O, NEW S, NEW w \in [pkt : P, off : O, st : S], NEW x \in O
  PROVE  /\ [w EXCEPT !.off = x] = [pkt |-> w.pkt, off |-> x, st |-> w.st]
         /\ [w EXCEPT !.off = x] \in [pkt : P, off : O, st : S]
  OBVIOUS

LEMMA SetOff ==
  ASSUME NEW w \in Write
  PROVE  /\ [w EXCEPT !.off = w.off + 1] = [pkt |-> w.pkt, off |-> w.off + 1, st |-> w.st]
         /\ [w EXCEPT !.off = w.off + 1] \in Write
<1>1. w.off + 1 \in Nat
  BY DEF Write
<1>2. w \in [pkt : Nat, off : Nat, st : Status]
  BY DEF Write
<1>3. \A x \in Nat :
        /\ [w EXCEPT !.off = x] = [pkt |-> w.pkt, off |-> x, st |-> w.st]
        /\ [w EXCEPT !.off = x] \in [pkt : Nat, off : Nat, st : Status]
  BY <1>2, RecordOff
<1> QED BY <1>1, <1>3, Zenon DEF Write

LEMMA SetStatusSeq ==
  ASSUME TypeOK, NEW i \in DOMAIN writes, NEW st \in Status
  PROVE  /\ SetStatus(i, st) \in Seq(Write)
         /\ Len(SetStatus(i, st)) = Len(writes)
         /\ DOMAIN SetStatus(i, st) = DOMAIN writes
         /\ SetStatus(i, st)[i] = [pkt |-> writes[i].pkt, off |-> writes[i].off, st |-> st]
         /\ SetStatus(i, st)[i].st = st
         /\ \A j \in DOMAIN writes : j # i => SetStatus(i, st)[j] = writes[j]
<1> DEFINE e == [writes[i] EXCEPT !.st = st]
<1>1. writes[i] \in Write /\ writes \in Seq(Write)
  BY DEF TypeOK
<1>2. e \in Write /\ e = [pkt |-> writes[i].pkt, off |-> writes[i].off, st |-> st]
  BY <1>1 DEF Write
<1>3. SetStatus(i, st) = [writes EXCEPT ![i] = e]
  BY DEF SetStatus
<1> QED BY <1>1, <1>2, <1>3, SeqSet

LEMMA WriteType ==
  ASSUME TypeOK, NEW i \in DOMAIN writes
  PROVE  /\ writes[i] \in Write
         /\ writes[i].pkt \in Nat /\ writes[i].off \in Nat /\ writes[i].st \in Status
<1>1. writes[i] \in Write
  BY DEF TypeOK
<1> QED BY <1>1 DEF Write

LEMMA NewWriteSeq ==
  ASSUME TypeOK, sendQueue # <<>>, NEW w \in Seq(Write)
  PROVE  /\ NewWrite \in Write
         /\ Append(w, NewWrite) \in Seq(Write)
         /\ Len(Append(w, NewWrite)) = Len(w) + 1
         /\ \A j \in DOMAIN w : Append(w, NewWrite)[j] = w[j]
         /\ Append(w, NewWrite)[Len(w) + 1] = NewWrite
<1>1. Head(sendQueue) \in Nat
  BY DEF TypeOK
<1> QED BY <1>1 DEF NewWrite, Write, Status

-----------------------------------------------------------------------------
THEOREM InitInv == Init => IInv
<1> SUFFICES ASSUME Init PROVE IInv
  OBVIOUS
<1>1. TypeOK
  <2>1. pc \in [Senders -> PC] /\ writing \in [Senders -> BOOLEAN]
    BY DEF Init, PC
  <2>2. calls \in [Senders -> 0..MaxSends]
    BY MaxSendsAssumption DEF Init
  <2>3. writes \in Seq(Write) /\ accepted \in Seq(Sizes)
    BY DEF Init
  <2>4. sendQueue \in Seq(Nat) /\ wire \in Seq([pkt : Nat, off : Nat])
    BY DEF Init
  <2> QED BY <2>1, <2>2, <2>3, <2>4 DEF Init, TypeOK
<1>2. Exclusion /\ LastIsLive /\ QueueIsSuffix /\ OnFront /\ SenderKnows
  BY DEF Init, Exclusion, LastIsLive, QueueIsSuffix, OnFront, OnFrontAt, SenderKnows, Popped, InSend
<1>3. WireKnows /\ WireInOrder
  BY DEF Init, WireKnows, WireBytes, WireAt, WireRest, WireInOrder, NextByte,
     Channel!NextByte, Channel!Byte, Byte, Popped
<1> QED BY <1>1, <1>2, <1>3 DEF IInv, Control

LEMMA TypeStep == ASSUME TypeOK, SenderKnows, OnFront, [Next]_vars PROVE TypeOK'
<1> USE DEF TypeOK
<1>1. ASSUME NEW s \in Senders, SendLock(s) PROVE TypeOK'
  BY <1>1, MaxSendsAssumption DEF SendLock, PC
<1>2. ASSUME NEW s \in Senders, SendCheck(s) PROVE TypeOK'
  BY <1>2 DEF SendCheck, PC
<1>3. ASSUME NEW s \in Senders, SendPush(s) PROVE TypeOK'
  BY <1>3 DEF SendPush, PC
<1>4. ASSUME NEW s \in Senders, SendStart(s) PROVE TypeOK'
  <2>1. CASE writing[s]
    BY <1>4, <2>1 DEF SendStart, MustStart, PC
  <2>2. CASE ~writing[s]
    <3>1. sendQueue # <<>>
      BY <1>4, <2>2 DEF SendStart, SenderKnows
    <3> QED BY <1>4, <2>2, <3>1, NewWriteSeq DEF SendStart, MustStart, PC
  <2> QED BY <2>1, <2>2
<1>5. ASSUME NEW i \in DOMAIN writes, Transfer(i) PROVE TypeOK'
  <2> DEFINE e == [writes[i] EXCEPT !.off = writes[i].off + 1]
  <2>1. writes[i] \in Write
    OBVIOUS
  <2>2. e \in Write
    BY <2>1, SetOff
  <2>3. writes' = [writes EXCEPT ![i] = e]
    BY <1>5 DEF Transfer
  <2>4. writes' \in Seq(Write)
    BY <2>2, <2>3, SeqSet
  <2>5. [pkt |-> writes[i].pkt, off |-> writes[i].off + 1] \in [pkt : Nat, off : Nat]
    BY <2>1 DEF Write
  <2>6. wire' \in Seq([pkt : Nat, off : Nat])
    BY <1>5, <2>5 DEF Transfer
  <2> QED BY <1>5, <2>4, <2>6 DEF Transfer
<1>6. ASSUME NEW i \in DOMAIN writes, Complete(i) \/ Fail(i) PROVE TypeOK'
  BY <1>6, SetStatusSeq DEF Complete, Fail, Status
<1>7. ASSUME NEW i \in DOMAIN writes, HandlerLock(i) PROVE TypeOK'
  BY <1>7, SetStatusSeq DEF HandlerLock, Status
<1>8. ASSUME NEW i \in DOMAIN writes, HandlerPop(i) PROVE TypeOK'
  <2>1. sendQueue # <<>>
    BY <1>8 DEF OnFront, OnFrontAt, HandlerPop
  <2>2. Tail(sendQueue) \in Seq(Nat)
    BY <2>1
  <2> QED BY <1>8, <2>2, SetStatusSeq DEF HandlerPop, Status
<1>9. ASSUME NEW i \in DOMAIN writes, HandlerNext(i) PROVE TypeOK'
  <2>1. SetStatus(i, "over") \in Seq(Write)
    BY SetStatusSeq DEF Status
  <2>2. writes' \in Seq(Write)
    BY <1>9, <2>1, NewWriteSeq DEF HandlerNext
  <2> QED BY <1>9, <2>2 DEF HandlerNext
<1>10. CASE UNCHANGED vars
  BY <1>10 DEF vars
<1> QED BY <1>1, <1>2, <1>3, <1>4, <1>5, <1>6, <1>7, <1>8, <1>9, <1>10 DEF Next, Sender, IO

-----------------------------------------------------------------------------
\* The steps of a thread inside send().

LEMMA SendLockStep ==
  ASSUME Control, NEW s \in Senders, SendLock(s), TypeOK'
  PROVE  Control'
<1> USE DEF Control, SendLock, CanLock
<1>1. Exclusion'
  BY DEF Exclusion, InSend, Critical, TypeOK
<1>2. (LastIsLive /\ QueueIsSuffix /\ OnFront)'
  BY DEF LastIsLive, QueueIsSuffix, OnFront, OnFrontAt, Popped
<1>3. SenderKnows'
  BY DEF SenderKnows, AllOver, Exclusion, InSend, TypeOK
<1> QED BY <1>1, <1>2, <1>3

LEMMA SendCheckStep ==
  ASSUME Control, NEW s \in Senders, SendCheck(s), TypeOK'
  PROVE  Control'
<1> USE DEF Control, SendCheck
<1>1. Exclusion'
  BY DEF Exclusion, InSend, Critical, TypeOK
<1>2. (LastIsLive /\ QueueIsSuffix /\ OnFront)'
  BY DEF LastIsLive, QueueIsSuffix, OnFront, OnFrontAt, Popped
<1>3. SenderKnows'
  BY DEF SenderKnows, AllOver, Exclusion, InSend, TypeOK
<1> QED BY <1>1, <1>2, <1>3

LEMMA SendPushStep ==
  ASSUME Control, NEW s \in Senders, SendPush(s), TypeOK'
  PROVE  Control'
<1> USE DEF Control, SendPush
<1>1. Exclusion'
  BY DEF Exclusion, InSend, Critical, TypeOK
<1>2. /\ Len(accepted') = Len(accepted) + 1
      /\ \A k \in DOMAIN accepted : accepted'[k] = accepted[k]
      /\ Len(sendQueue') = Len(sendQueue) + 1
      /\ \A n \in DOMAIN sendQueue : sendQueue'[n] = sendQueue[n]
      /\ sendQueue'[Len(sendQueue) + 1] = Len(accepted) + 1
  BY DEF TypeOK
<1>3. QueueIsSuffix' /\ Popped' = Popped
  BY <1>2 DEF QueueIsSuffix, Popped, TypeOK
<1>4. LastIsLive'
  BY DEF LastIsLive
<1>7. sendQueue' # <<>>
  <2>1. Len(sendQueue') # 0
    BY <1>2 DEF TypeOK
  <2> QED BY <2>1
<1>5. OnFront'
  <2> SUFFICES ASSUME NEW i \in DOMAIN writes,
                      writes[i].st \in {"transfer", "complete", "pop", "failed"}
               PROVE  Popped + 1 \in DOMAIN accepted /\ sendQueue' # <<>>
    BY <1>2, <1>3 DEF OnFront, OnFrontAt
  <2>1. sendQueue # <<>>
    BY DEF OnFront, OnFrontAt
  <2>2. /\ Len(sendQueue) \in Nat \ {0} /\ Len(accepted) \in Nat
        /\ DOMAIN accepted = 1 .. Len(accepted)
    BY <2>1 DEF TypeOK
  <2>3. Popped + 1 \in DOMAIN accepted
    BY <2>2 DEF QueueIsSuffix, Popped
  <2> QED BY <2>3, <1>7
<1>6. SenderKnows'
  <2>1. sendQueue' # <<>>
    BY <1>7
  <2>2. ASSUME ~writing[s] PROVE AllOver
    <3>1. sendQueue = <<>>
      BY <2>2 DEF SenderKnows
    <3>2. \A i \in DOMAIN writes : writes[i].st \in Status
      BY WriteType
    <3>3. \A i \in DOMAIN writes : ~Critical(i)
      BY DEF Exclusion, InSend
    <3> QED BY <3>1, <3>2, <3>3 DEF OnFront, OnFrontAt, Critical, AllOver, Status
  <2>3. ASSUME writing[s] PROVE ~AllOver
    BY <2>3 DEF SenderKnows, Exclusion, InSend
  <2>4. \A t \in Senders : t # s => pc'[t] = "idle" /\ pc'[t] = pc[t]
    BY DEF Exclusion, InSend, TypeOK
  <2>5. pc'[s] = "start" /\ writing' = writing
    BY DEF TypeOK
  <2> QED BY <2>1, <2>2, <2>3, <2>4, <2>5 DEF SenderKnows, AllOver
<1> QED BY <1>1, <1>3, <1>4, <1>5, <1>6

LEMMA SendStartStep ==
  ASSUME Control, NEW s \in Senders, SendStart(s), TypeOK'
  PROVE  Control'
<1> USE DEF Control, SendStart, MustStart
<1>1. pc'[s] = "idle" /\ \A t \in Senders : pc'[t] = "idle"
  BY DEF Exclusion, InSend, TypeOK
<1>2. \A i \in DOMAIN writes : ~Critical(i)
  BY DEF Exclusion, InSend
<1>3. QueueIsSuffix' /\ Popped' = Popped
  BY DEF QueueIsSuffix, Popped
<1>4. CASE writing[s]
  <2>1. writes' = writes
    BY <1>4
  <2>2. Exclusion' /\ LastIsLive' /\ OnFront'
    BY <1>1, <1>2, <1>3, <2>1 DEF Exclusion, InSend, Critical, LastIsLive, OnFront, OnFrontAt
  <2>3. SenderKnows'
    BY <1>1, <1>4, <2>1 DEF SenderKnows, AllOver, Exclusion, InSend
  <2> QED BY <1>3, <2>2, <2>3
<1>5. CASE ~writing[s]
  <2>1. AllOver /\ sendQueue # <<>>
    BY <1>5 DEF SenderKnows
  <2>2. /\ writes' = Append(writes, NewWrite)
        /\ Len(writes') = Len(writes) + 1
        /\ \A j \in DOMAIN writes : writes'[j] = writes[j]
        /\ writes'[Len(writes) + 1] = NewWrite
    BY <1>5, <2>1, NewWriteSeq DEF TypeOK
  <2>3. DOMAIN writes = 1 .. Len(writes) /\ DOMAIN writes' = 1 .. Len(writes')
    BY DEF TypeOK
  <2>4. \A i \in DOMAIN writes' : \/ i = Len(writes') /\ writes'[i] = NewWrite
                                  \/ i \in DOMAIN writes /\ writes'[i].st = "over"
    BY <2>1, <2>2, <2>3 DEF AllOver, TypeOK
  <2>5. NewWrite.st = "transfer" /\ NewWrite.off = 0 /\ NewWrite.pkt = Popped + 1
    BY <2>1 DEF NewWrite, QueueIsSuffix, TypeOK
  <2>6. Exclusion' /\ LastIsLive'
    BY <1>1, <2>4, <2>5 DEF Exclusion, InSend, Critical, LastIsLive
  <2>7. accepted[Popped + 1] \in Nat
    <3>1. Popped + 1 \in DOMAIN accepted
      BY <2>1 DEF QueueIsSuffix, Popped, TypeOK
    <3>2. accepted[Popped + 1] \in Sizes
      BY <3>1 DEF TypeOK
    <3> QED BY <3>2, PacketAssumption
  <2>8. OnFront'
    <3> SUFFICES ASSUME NEW i \in DOMAIN writes' PROVE OnFrontAt(i)'
      BY DEF OnFront, OnFrontAt
    <3>1. CASE writes'[i] = NewWrite
      BY <1>3, <2>1, <2>5, <2>7, <3>1 DEF OnFrontAt
    <3>2. CASE writes'[i].st = "over"
      BY <3>2 DEF OnFrontAt
    <3> QED BY <2>4, <3>1, <3>2
  <2>9. SenderKnows'
    BY <1>1, <2>2, <2>3, <2>5 DEF SenderKnows, AllOver, TypeOK
  <2> QED BY <1>3, <2>6, <2>8, <2>9
<1> QED BY <1>4, <1>5

-----------------------------------------------------------------------------
\* The steps of a write and of its completion handler.

LEMMA TransferStep ==
  ASSUME Control, NEW i \in DOMAIN writes, Transfer(i), TypeOK'
  PROVE  /\ Control'
         /\ writes'[i] = [pkt |-> writes[i].pkt, off |-> writes[i].off + 1,
                          st |-> writes[i].st]
         /\ \A j \in DOMAIN writes : j # i => writes'[j] = writes[j]
         /\ DOMAIN writes' = DOMAIN writes
<1> USE DEF Control, Transfer
<1> DEFINE e == [writes[i] EXCEPT !.off = writes[i].off + 1]
<1>1. e = [pkt |-> writes[i].pkt, off |-> writes[i].off + 1, st |-> writes[i].st]
      /\ e \in Write
  BY WriteType, SetOff
<1>2. writes' = [writes EXCEPT ![i] = e]
  OBVIOUS
<1> HIDE DEF e
<1>3. /\ Len(writes') = Len(writes) /\ DOMAIN writes' = DOMAIN writes
      /\ writes'[i] = e /\ \A j \in DOMAIN writes : j # i => writes'[j] = writes[j]
  <2>1. writes \in Seq(Write) /\ e \in Write
    BY <1>1 DEF TypeOK
  <2> QED BY <1>2, <2>1, SeqSet
<1>4. \A j \in DOMAIN writes : writes'[j].st = writes[j].st /\ writes'[j].pkt = writes[j].pkt
  BY <1>1, <1>3
<1>5. Exclusion' /\ LastIsLive' /\ QueueIsSuffix' /\ Popped' = Popped
  BY <1>3, <1>4 DEF Exclusion, InSend, Critical, LastIsLive, QueueIsSuffix, Popped
<1>6. SenderKnows'
  BY <1>3, <1>4 DEF SenderKnows, AllOver
<1>7. OnFront'
  <2> SUFFICES ASSUME NEW j \in DOMAIN writes' PROVE OnFrontAt(j)'
    BY DEF OnFront, OnFrontAt
  <2>1. CASE j = i
    <3>1. /\ OnFrontAt(i) /\ writes[i].pkt = Popped + 1 /\ sendQueue # <<>>
          /\ writes[i].off < accepted[Popped + 1]
      BY DEF OnFront, OnFrontAt
    <3>2. Popped + 1 \in DOMAIN accepted
      BY <3>1 DEF QueueIsSuffix, Popped, TypeOK
    <3>3. accepted[Popped + 1] \in Nat /\ writes[i].off \in Nat
      BY <3>2, WriteType, PacketAssumption DEF TypeOK
    <3> QED BY <1>1, <1>3, <1>5, <2>1, <3>1, <3>3 DEF OnFrontAt
  <2>2. CASE j # i
    <3>1. writes'[j] = writes[j] /\ OnFrontAt(j)
      BY <1>3, <2>2 DEF OnFront
    <3> QED BY <1>5, <3>1 DEF OnFrontAt
  <2> QED BY <2>1, <2>2
<1> QED BY <1>1, <1>3, <1>5, <1>6, <1>7

LEMMA CompleteStep ==
  ASSUME Control, NEW i \in DOMAIN writes, Complete(i) \/ Fail(i) \/ HandlerLock(i), TypeOK'
  PROVE  Control'
<1> USE DEF Control, Complete, Fail, HandlerLock
<1>1. PICK st \in {"complete", "failed", "pop"} :
        /\ writes' = SetStatus(i, st)
        /\ st = "complete" => writes[i].st = "transfer" /\ writes[i].off = accepted[writes[i].pkt]
        /\ st = "failed" => writes[i].st = "transfer" /\ writes[i].off < accepted[writes[i].pkt]
        /\ st = "pop" => writes[i].st = "complete" /\ ~mutex /\ mutex'
        /\ st # "pop" => mutex' = mutex
  BY DEF CanLock, TypeOK
<1>2. st \in Status
  BY DEF Status
<1>3. /\ Len(writes') = Len(writes) /\ DOMAIN writes' = DOMAIN writes
      /\ writes'[i] = [pkt |-> writes[i].pkt, off |-> writes[i].off, st |-> st]
      /\ \A j \in DOMAIN writes : j # i => writes'[j] = writes[j]
  BY <1>1, <1>2, SetStatusSeq
<1>4. UNCHANGED <<sendQueue, pc, writing, accepted>>
  OBVIOUS
<1>5. QueueIsSuffix' /\ Popped' = Popped
  BY <1>4 DEF QueueIsSuffix, Popped
<1>6. Exclusion'
  <2>1. CASE st = "pop"
    BY <1>1, <1>3, <1>4, <2>1 DEF Exclusion, InSend, Critical
  <2>2. CASE st # "pop"
    <3>1. \A j \in DOMAIN writes : Critical(j)' => Critical(j)
      BY <1>3, <2>2 DEF Critical
    <3> QED BY <1>1, <1>3, <1>4, <2>2, <3>1 DEF Exclusion, InSend
  <2> QED BY <2>1, <2>2
<1>7. LastIsLive'
  BY <1>1, <1>3 DEF LastIsLive
<1>8. SenderKnows'
  BY <1>1, <1>3, <1>4 DEF SenderKnows, AllOver
<1>9. OnFront'
  <2> SUFFICES ASSUME NEW j \in DOMAIN writes' PROVE OnFrontAt(j)'
    BY DEF OnFront, OnFrontAt
  <2>1. CASE j = i
    <3>1. OnFrontAt(i)
      BY DEF OnFront
    <3> QED BY <1>1, <1>3, <1>4, <1>5, <2>1, <3>1 DEF OnFrontAt
  <2>2. CASE j # i
    <3>1. writes'[j] = writes[j] /\ OnFrontAt(j)
      BY <1>3, <2>2 DEF OnFront
    <3> QED BY <1>4, <1>5, <3>1 DEF OnFrontAt
  <2> QED BY <2>1, <2>2
<1> QED BY <1>5, <1>6, <1>7, <1>8, <1>9

LEMMA HandlerPopStep ==
  ASSUME Control, NEW i \in DOMAIN writes, HandlerPop(i), TypeOK'
  PROVE  Control' /\ Popped' = Popped + 1
<1> USE DEF Control, HandlerPop
<1>1. /\ Len(writes') = Len(writes) /\ DOMAIN writes' = DOMAIN writes
      /\ writes'[i] = [pkt |-> writes[i].pkt, off |-> writes[i].off, st |-> "next"]
      /\ \A j \in DOMAIN writes : j # i => writes'[j] = writes[j]
  BY SetStatusSeq DEF Status
<1>2. sendQueue # <<>>
  BY DEF OnFront, OnFrontAt
<1>3. /\ Len(sendQueue') = Len(sendQueue) - 1
      /\ \A n \in DOMAIN sendQueue' : sendQueue'[n] = sendQueue[n + 1] /\ n + 1 \in DOMAIN sendQueue
  BY <1>2 DEF TypeOK
<1>4. Popped' = Popped + 1
  BY <1>3 DEF Popped, TypeOK
<1>5. QueueIsSuffix'
  BY <1>3, <1>4 DEF QueueIsSuffix, Popped, TypeOK
<1>6. Exclusion'
  <2>1. \A j \in DOMAIN writes : Critical(j)' => Critical(j) \/ j = i
    BY <1>1 DEF Critical
  <2>2. Critical(i) /\ mutex' = mutex /\ pc' = pc
    BY DEF Critical
  <2> QED BY <1>1, <2>1, <2>2 DEF Exclusion, InSend
<1>7. LastIsLive'
  BY <1>1 DEF LastIsLive
<1>8. \A j \in DOMAIN writes : writes'[j].st \in {"over", "next"}
  BY <1>1 DEF LastIsLive
<1>9. OnFront'
  BY <1>1, <1>8 DEF OnFront, OnFrontAt
<1>10. SenderKnows'
  <2>1. \A s \in Senders : pc[s] = "idle"
    BY DEF Exclusion, InSend, Critical
  <2>2. ~AllOver'
    BY <1>1 DEF AllOver
  <2> QED BY <2>1, <2>2 DEF SenderKnows
<1> QED BY <1>4, <1>5, <1>6, <1>7, <1>9, <1>10

LEMMA HandlerNextStep ==
  ASSUME Control, NEW i \in DOMAIN writes, HandlerNext(i), TypeOK'
  PROVE  /\ Control' /\ Popped' = Popped
         /\ IF sendQueue = <<>>
            THEN AllOver'
            ELSE /\ writes'[Len(writes')].st = "transfer" /\ writes'[Len(writes')].off = 0
                 /\ Len(writes') \in DOMAIN writes'
                 /\ \A j \in DOMAIN writes' : j # Len(writes') => writes'[j].st = "over"
<1> USE DEF Control, HandlerNext
<1> DEFINE w == SetStatus(i, "over")
<1>1. /\ w \in Seq(Write) /\ Len(w) = Len(writes) /\ DOMAIN w = DOMAIN writes
      /\ w[i].st = "over"
      /\ \A j \in DOMAIN writes : j # i => w[j] = writes[j]
  BY SetStatusSeq DEF Status
<1>2. \A j \in DOMAIN writes : w[j].st = "over"
  BY <1>1 DEF LastIsLive
<1> HIDE DEF w
<1>3. \A s \in Senders : pc'[s] = "idle" /\ pc[s] = "idle"
  BY DEF Exclusion, InSend, Critical
<1>4. QueueIsSuffix' /\ Popped' = Popped
  BY DEF QueueIsSuffix, Popped
<1>5. CASE sendQueue = <<>>
  <2>1. writes' = w
    BY <1>5 DEF w
  <2>2. AllOver'
    BY <1>1, <1>2, <2>1 DEF AllOver
  <2>3. Exclusion' /\ LastIsLive' /\ OnFront'
    BY <1>3, <2>2 DEF AllOver, Exclusion, InSend, Critical, LastIsLive, OnFront, OnFrontAt
  <2>4. SenderKnows'
    BY <1>3, <1>5 DEF SenderKnows
  <2> QED BY <1>4, <1>5, <2>2, <2>3, <2>4
<1>6. CASE sendQueue # <<>>
  <2>1. /\ writes' = Append(w, NewWrite)
        /\ Len(writes') = Len(w) + 1
        /\ \A j \in DOMAIN w : writes'[j] = w[j]
        /\ writes'[Len(w) + 1] = NewWrite
    BY <1>1, <1>6, NewWriteSeq DEF w
  <2>2. DOMAIN w = 1 .. Len(w) /\ DOMAIN writes' = 1 .. Len(writes') /\ Len(w) \in Nat
    BY <1>1 DEF TypeOK
  <2>3. \A j \in DOMAIN writes' : \/ j = Len(writes') /\ writes'[j] = NewWrite
                                  \/ j # Len(writes') /\ writes'[j].st = "over"
    BY <1>1, <1>2, <2>1, <2>2
  <2>4. NewWrite.st = "transfer" /\ NewWrite.off = 0 /\ NewWrite.pkt = Popped + 1
    BY <1>6 DEF NewWrite, QueueIsSuffix, TypeOK
  <2>5. Exclusion' /\ LastIsLive'
    BY <1>3, <2>3, <2>4 DEF Exclusion, InSend, Critical, LastIsLive
  <2>6. accepted[Popped + 1] \in Nat
    <3>1. Popped + 1 \in DOMAIN accepted
      BY <1>6 DEF QueueIsSuffix, Popped, TypeOK
    <3>2. accepted[Popped + 1] \in Sizes
      BY <3>1 DEF TypeOK
    <3> QED BY <3>2, PacketAssumption
  <2>7. OnFront'
    <3> SUFFICES ASSUME NEW j \in DOMAIN writes' PROVE OnFrontAt(j)'
      BY DEF OnFront, OnFrontAt
    <3>1. CASE writes'[j] = NewWrite
      BY <1>4, <1>6, <2>4, <2>6, <3>1 DEF OnFrontAt
    <3>2. CASE writes'[j].st = "over"
      BY <3>2 DEF OnFrontAt
    <3> QED BY <2>3, <3>1, <3>2
  <2>8. Len(writes') \in DOMAIN writes'
    BY <2>1, <2>2
  <2>9. SenderKnows'
    BY <1>3, <2>3, <2>4, <2>8 DEF SenderKnows, AllOver
  <2> QED BY <1>4, <1>6, <2>3, <2>4, <2>5, <2>7, <2>8, <2>9
<1> QED BY <1>5, <1>6

LEMMA ControlStep == ASSUME Control, [Next]_vars PROVE Control'
<1>1. TypeOK'
  BY TypeStep DEF Control
<1>2. ASSUME NEW s \in Senders, Sender(s) PROVE Control'
  BY <1>1, <1>2, SendLockStep, SendCheckStep, SendPushStep, SendStartStep DEF Sender
<1>3. ASSUME NEW i \in DOMAIN writes,
             \/ Transfer(i) \/ Complete(i) \/ Fail(i)
             \/ HandlerLock(i) \/ HandlerPop(i) \/ HandlerNext(i)
      PROVE Control'
  BY <1>1, <1>3, TransferStep, CompleteStep, HandlerPopStep, HandlerNextStep
<1>4. CASE UNCHANGED vars
  BY <1>1, <1>4 DEF vars, Control, Exclusion, InSend, Critical, LastIsLive,
     QueueIsSuffix, Popped, OnFront, OnFrontAt, SenderKnows, AllOver
<1> QED BY <1>2, <1>3, <1>4 DEF Next, IO

-----------------------------------------------------------------------------
\* The bytes on the wire.

LEMMA NextByteIs ==
  NextByte = IF wire = <<>> THEN Byte(1, 1)
             ELSE IF wire[Len(wire)].off < accepted[wire[Len(wire)].pkt]
                  THEN Byte(wire[Len(wire)].pkt, wire[Len(wire)].off + 1)
                  ELSE Byte(wire[Len(wire)].pkt + 1, 1)
  BY DEF NextByte, Channel!NextByte, Channel!Byte, Byte

\* Accepting more packets does not change what the stream goes on with.
LEMMA NextByteStable ==
  ASSUME TypeOK, WireBytes, wire' = wire,
         \A k \in DOMAIN accepted : accepted'[k] = accepted[k]
  PROVE  NextByte' = NextByte
<1>1. CASE wire = <<>>
  BY <1>1 DEF NextByte, Channel!NextByte, Channel!Byte
<1>2. CASE wire # <<>>
  <2>1. Len(wire) \in DOMAIN wire
    BY <1>2 DEF TypeOK
  <2>2. wire[Len(wire)].pkt \in DOMAIN accepted
    BY <2>1 DEF WireBytes
  <2> QED BY <1>2, <2>2 DEF NextByte, Channel!NextByte, Channel!Byte
<1> QED BY <1>1, <1>2

LEMMA ByteType ==
  ASSUME NEW p \in Nat, NEW o \in Nat
  PROVE  Byte(p, o) \in [pkt : Nat, off : Nat]
BY DEF Byte

LEMMA FrontLength ==
  ASSUME Control, sendQueue # <<>>
  PROVE  Popped + 1 \in DOMAIN accepted /\ accepted[Popped + 1] \in Nat \ {0}
<1>1. Popped + 1 \in DOMAIN accepted
  BY DEF Control, QueueIsSuffix, Popped, TypeOK
<1>2. accepted[Popped + 1] \in Sizes
  BY <1>1 DEF Control, TypeOK
<1> QED BY <1>1, <1>2, PacketAssumption

LEMMA WirePushStep ==
  ASSUME Control, WireKnows, NEW s \in Senders, SendPush(s), Control'
  PROVE  WireKnows'
<1> USE DEF SendPush
<1>1. /\ Len(accepted') = Len(accepted) + 1 /\ Len(accepted) \in Nat
      /\ DOMAIN accepted = 1 .. Len(accepted) /\ DOMAIN accepted' = 1 .. Len(accepted')
      /\ \A k \in DOMAIN accepted : accepted'[k] = accepted[k] /\ k \in DOMAIN accepted'
      /\ Len(sendQueue') = Len(sendQueue) + 1 /\ Len(sendQueue) \in Nat
  BY DEF Control, TypeOK
<1>2. Popped' = Popped /\ NextByte' = NextByte
  BY <1>1, NextByteStable DEF Control, WireKnows, Popped
<1>3. WireBytes'
  BY <1>1 DEF WireKnows, WireBytes
<1>4. ASSUME NEW i \in DOMAIN writes PROVE WireAt(i)'
  <2>1. CASE writes[i].st \in {"transfer", "complete", "pop", "failed"}
    <3>1. sendQueue # <<>>
      BY <2>1 DEF Control, OnFront, OnFrontAt
    <3>2. accepted'[Popped + 1] = accepted[Popped + 1]
      BY <1>1, <3>1, FrontLength
    <3> QED BY <1>2, <3>2 DEF WireKnows, WireAt
  <2>2. CASE writes[i].st \notin {"transfer", "complete", "pop", "failed"}
    <3>1. writes'[i].st \notin {"transfer", "complete", "pop", "failed"}
      BY <2>2
    <3> QED BY <3>1 DEF WireAt
  <2> QED BY <2>1, <2>2
<1>5. WireRest'
  BY <1>2 DEF WireKnows, WireRest
<1> QED BY <1>3, <1>4, <1>5 DEF WireKnows

LEMMA WireTransferStep ==
  ASSUME Control, WireKnows, NEW i \in DOMAIN writes, Transfer(i), Control'
  PROVE  /\ WireKnows' /\ wire' = Append(wire, NextByte)
         /\ NextByte.pkt \in DOMAIN accepted
<1> DEFINE k == Popped + 1
           b == writes[i].off + 1
<1>1. /\ writes[i].st = "transfer" /\ writes[i].off < accepted[k]
      /\ writes[i].pkt = k /\ sendQueue # <<>>
      /\ accepted' = accepted /\ sendQueue' = sendQueue
      /\ wire' = Append(wire, Byte(k, b))
  BY DEF Transfer, Control, OnFront, OnFrontAt, Byte
<1>2. k \in DOMAIN accepted /\ accepted[k] \in Nat /\ b \in Nat /\ b <= accepted[k] /\ b >= 1
      /\ k \in Nat
  <2>1. k \in DOMAIN accepted /\ accepted[k] \in Nat /\ writes[i].off \in Nat
    BY <1>1, FrontLength, WriteType DEF Control
  <2>2. DOMAIN accepted = 1 .. Len(accepted) /\ Len(accepted) \in Nat
    BY DEF Control, TypeOK
  <2>3. k \in Nat
    BY <2>1, <2>2
  <2>4. writes[i].off < accepted[k]
    BY <1>1
  <2> HIDE DEF k
  <2> QED BY <2>1, <2>3, <2>4
<1>3. NextByte = Byte(k, b)
  BY <1>1 DEF WireKnows, WireAt
<1>4. wire \in Seq([pkt : Nat, off : Nat]) /\ Byte(k, b) \in [pkt : Nat, off : Nat]
  BY <1>2 DEF Control, TypeOK, Byte
<1>5. /\ wire' # <<>> /\ Len(wire') = Len(wire) + 1 /\ wire'[Len(wire')] = Byte(k, b)
      /\ \A n \in DOMAIN wire' : \/ n \in DOMAIN wire /\ wire'[n] = wire[n]
                                 \/ n = Len(wire') /\ wire'[n] = Byte(k, b)
  BY <1>1, <1>4, AppendSeq
<1>6. Byte(k, b).pkt = k /\ Byte(k, b).off = b
  BY DEF Byte
<1>7. NextByte' = IF b < accepted[k] THEN Byte(k, b + 1) ELSE Byte(k + 1, 1)
  BY <1>1, <1>5, <1>6 DEF NextByte, Channel!NextByte, Channel!Byte, Byte
<1>8. WireBytes'
  BY <1>1, <1>2, <1>5, <1>6 DEF WireKnows, WireBytes
<1>9. /\ writes'[i].off = b /\ writes'[i].st = "transfer"
      /\ \A j \in DOMAIN writes : j # i => writes'[j].st = "over"
      /\ DOMAIN writes' = DOMAIN writes
  <2>1. \A j \in DOMAIN writes : j # i => writes[j].st = "over"
    BY <1>1 DEF Control, LastIsLive
  <2>2. TypeOK'
    BY DEF Control
  <2>3. writes'[i] = [pkt |-> writes[i].pkt, off |-> b, st |-> writes[i].st]
    BY <2>2, TransferStep
  <2>4. DOMAIN writes' = DOMAIN writes /\ \A j \in DOMAIN writes : j # i => writes'[j] = writes[j]
    BY <2>2, TransferStep
  <2> QED BY <1>1, <2>1, <2>3, <2>4
<1>10. Popped' = Popped
  BY <1>1 DEF Popped
<1>11. WireAt(i)'
  <2>1. b < accepted[k] \/ b = accepted[k]
    BY <1>2
  <2>2. Popped + 2 = k + 1
    BY <1>2 DEF Control, TypeOK, Popped
  <2> QED BY <1>1, <1>2, <1>7, <1>9, <1>10, <2>1, <2>2 DEF WireAt
<1>12. ASSUME NEW j \in DOMAIN writes, j # i PROVE WireAt(j)'
  <2>1. writes'[j].st = "over"
    BY <1>9, <1>12
  <2> QED BY <2>1 DEF WireAt
<1>13. WireRest'
  BY <1>9 DEF WireRest
<1> QED BY <1>1, <1>2, <1>3, <1>6, <1>8, <1>9, <1>11, <1>12, <1>13 DEF WireKnows

\* The steps that put nothing on the wire and accept nothing.
LEMMA WireQuiet ==
  ASSUME Control, WireKnows, wire' = wire, accepted' = accepted
  PROVE  WireBytes' /\ NextByte' = NextByte
  BY NextByteStable DEF Control, WireKnows, WireBytes

LEMMA WireStartStep ==
  ASSUME Control, WireKnows, NEW s \in Senders, SendStart(s)
  PROVE  WireKnows'
<1> USE DEF SendStart, MustStart
<1>1. WireBytes' /\ NextByte' = NextByte /\ Popped' = Popped
  BY WireQuiet DEF Popped
<1>2. CASE writing[s]
  BY <1>1, <1>2 DEF WireKnows, WireAt, WireRest
<1>3. CASE ~writing[s]
  <2>1. AllOver /\ sendQueue # <<>>
    BY <1>3 DEF Control, SenderKnows
  <2>2. NextByte = Byte(Popped + 1, 1)
    BY <2>1 DEF WireKnows, WireRest, AllOver
  <2>3. \A i \in DOMAIN writes' : \/ writes'[i].st = "transfer" /\ writes'[i].off = 0
                                  \/ writes'[i].st = "over"
    <3>1. NewWrite.st = "transfer" /\ NewWrite.off = 0
      BY DEF NewWrite
    <3>2. writes \in Seq(Write) /\ NewWrite \in Write
      BY <2>1, NewWriteSeq DEF Control, TypeOK
    <3>3. writes' = Append(writes, NewWrite)
      BY <1>3
    <3> QED BY <2>1, <3>1, <3>2, <3>3, AppendSeq DEF AllOver
  <2>4. ASSUME NEW i \in DOMAIN writes' PROVE WireAt(i)'
    <3>1. accepted[Popped + 1] \in Nat \ {0} /\ accepted' = accepted
      BY <2>1, FrontLength
    <3> QED BY <1>1, <2>2, <2>3, <3>1 DEF WireAt
  <2>5. WireRest'
    BY <1>1, <2>2 DEF WireRest
  <2> QED BY <1>1, <2>4, <2>5 DEF WireKnows
<1> QED BY <1>2, <1>3

LEMMA WireCompleteStep ==
  ASSUME Control, WireKnows, NEW i \in DOMAIN writes, Complete(i) \/ Fail(i) \/ HandlerLock(i)
  PROVE  WireKnows'
<1> USE DEF Complete, Fail, HandlerLock
<1>1. WireBytes' /\ NextByte' = NextByte /\ Popped' = Popped
      /\ accepted' = accepted
  BY WireQuiet DEF Popped
<1>2. PICK st \in {"complete", "failed", "pop"} :
        /\ writes' = SetStatus(i, st)
        /\ \/ st = "complete" /\ writes[i].st = "transfer"
              /\ writes[i].off = accepted[writes[i].pkt]
           \/ st = "failed" /\ writes[i].st = "transfer"
           \/ st = "pop" /\ writes[i].st = "complete"
  OBVIOUS
<1>3. /\ DOMAIN writes' = DOMAIN writes
      /\ writes'[i].st = st /\ writes'[i].off = writes[i].off
      /\ \A j \in DOMAIN writes : j # i => writes'[j] = writes[j]
  <2>1. st \in Status
    BY DEF Status
  <2>2. writes'[i] = [pkt |-> writes[i].pkt, off |-> writes[i].off, st |-> st]
    BY <1>2, <2>1, SetStatusSeq DEF Control
  <2> QED BY <1>2, <2>1, <2>2, SetStatusSeq DEF Control
<1>4. ASSUME NEW j \in DOMAIN writes PROVE WireAt(j)'
  <2>1. CASE j = i
    BY <1>1, <1>2, <1>3, <2>1 DEF WireKnows, WireAt
  <2>2. CASE j # i
    BY <1>1, <1>3, <2>2 DEF WireKnows, WireAt
  <2> QED BY <2>1, <2>2
<1>5. WireRest'
  BY <1>3 DEF WireRest
<1> QED BY <1>1, <1>3, <1>4, <1>5 DEF WireKnows

LEMMA WirePopStep ==
  ASSUME Control, WireKnows, NEW i \in DOMAIN writes, HandlerPop(i), Control'
  PROVE  WireKnows'
<1> USE DEF HandlerPop
<1>1. WireBytes' /\ NextByte' = NextByte
  BY WireQuiet
<1>2. Popped' = Popped + 1
  BY HandlerPopStep DEF Control
<1>3. writes[i].off = accepted[Popped + 1]
  BY DEF Control, OnFront, OnFrontAt
<1>4. NextByte = Byte(Popped + 2, 1)
  BY <1>3 DEF WireKnows, WireAt
<1>5. \A j \in DOMAIN writes' : writes'[j].st \in {"over", "next"}
  <2>1. /\ DOMAIN writes' = DOMAIN writes /\ writes'[i].st = "next"
        /\ \A j \in DOMAIN writes : j # i => writes'[j] = writes[j]
    BY SetStatusSeq DEF Control, Status
  <2> QED BY <2>1 DEF Control, LastIsLive
<1>6. \A j \in DOMAIN writes' : WireAt(j)'
  BY <1>5 DEF WireAt
<1>7. Popped' + 1 = Popped + 2
  BY <1>2 DEF Popped, Control, TypeOK
<1> QED BY <1>1, <1>4, <1>6, <1>7 DEF WireKnows, WireRest

LEMMA WireNextStep ==
  ASSUME Control, WireKnows, NEW i \in DOMAIN writes, HandlerNext(i), Control'
  PROVE  WireKnows'
<1> USE DEF HandlerNext
<1>1. WireBytes' /\ NextByte' = NextByte /\ accepted' = accepted
  BY WireQuiet
<1>2. /\ Popped' = Popped
      /\ sendQueue = <<>> => AllOver'
      /\ sendQueue # <<>> =>
           \A j \in DOMAIN writes' : \/ writes'[j].st = "over"
                                     \/ writes'[j].st = "transfer" /\ writes'[j].off = 0
  BY HandlerNextStep DEF Control
<1>3. NextByte = Byte(Popped + 1, 1)
  BY DEF Control, LastIsLive, WireKnows, WireRest
<1>4. WireRest'
  BY <1>1, <1>2, <1>3 DEF WireRest
<1>5. CASE sendQueue = <<>>
  BY <1>1, <1>2, <1>4, <1>5 DEF AllOver, WireKnows, WireAt
<1>6. CASE sendQueue # <<>>
  <2>1. accepted[Popped + 1] \in Nat \ {0}
    BY <1>6, FrontLength
  <2>2. \A j \in DOMAIN writes' : WireAt(j)'
    BY <1>1, <1>2, <1>3, <1>6, <2>1 DEF WireAt
  <2> QED BY <1>1, <1>4, <2>2 DEF WireKnows
<1> QED BY <1>5, <1>6

LEMMA WireStep ==
  ASSUME Control, WireKnows, [Next]_vars, Control'
  PROVE  WireKnows'
<1>1. ASSUME NEW s \in Senders, SendLock(s) \/ SendCheck(s) PROVE WireKnows'
  <2>1. UNCHANGED <<writes, wire, accepted, sendQueue>>
    BY <1>1 DEF SendLock, SendCheck
  <2> QED BY <2>1, WireQuiet DEF WireKnows, WireAt, WireRest, Popped
<1>2. ASSUME NEW s \in Senders, SendPush(s) PROVE WireKnows'
  BY <1>2, WirePushStep
<1>3. ASSUME NEW s \in Senders, SendStart(s) PROVE WireKnows'
  BY <1>3, WireStartStep
<1>4. ASSUME NEW i \in DOMAIN writes,
             \/ Transfer(i) \/ Complete(i) \/ Fail(i)
             \/ HandlerLock(i) \/ HandlerPop(i) \/ HandlerNext(i)
      PROVE WireKnows'
  BY <1>4, WireTransferStep, WireCompleteStep, WirePopStep, WireNextStep
<1>5. CASE UNCHANGED vars
  <2>1. UNCHANGED <<writes, wire, accepted, sendQueue>>
    BY <1>5 DEF vars
  <2> QED BY <2>1, WireQuiet DEF WireKnows, WireAt, WireRest, Popped
<1> QED BY <1>1, <1>2, <1>3, <1>4, <1>5 DEF Next, Sender, IO

LEMMA OrderStep ==
  ASSUME Control, WireKnows, WireInOrder, [Next]_vars, Control'
  PROVE  WireInOrder'
<1>1. ASSUME NEW i \in DOMAIN writes, Transfer(i) PROVE WireInOrder'
  <2>1. wire' = Append(wire, NextByte) /\ accepted' = accepted
    BY <1>1, WireTransferStep DEF Transfer
  <2>2. NextByte \in [pkt : Nat, off : Nat] /\ wire \in Seq([pkt : Nat, off : Nat])
    <3>1. NextByte = Byte(Popped + 1, writes[i].off + 1) /\ wire' \in Seq([pkt : Nat, off : Nat])
      BY <1>1 DEF WireKnows, WireAt, Control, TypeOK, OnFront, OnFrontAt, Transfer
    <3>2. wire \in Seq([pkt : Nat, off : Nat])
      BY DEF Control, TypeOK
    <3>3. Popped + 1 \in Nat /\ writes[i].off + 1 \in Nat
      <4>1. sendQueue # <<>> /\ writes[i].off \in Nat
        BY <1>1, WriteType DEF Control, OnFront, OnFrontAt, Transfer
      <4>2. Popped + 1 \in DOMAIN accepted
        BY <4>1, FrontLength
      <4>3. DOMAIN accepted = 1 .. Len(accepted) /\ Len(accepted) \in Nat
        BY DEF Control, TypeOK
      <4>4. Popped + 1 \in Nat
        BY <4>2, <4>3
      <4> QED BY <4>1, <4>4
    <3>4. Byte(Popped + 1, writes[i].off + 1) \in [pkt : Nat, off : Nat]
      BY <3>3, ByteType
    <3>5. NextByte = Byte(Popped + 1, writes[i].off + 1)
      BY <3>1
    <3> QED BY <3>2, <3>4, <3>5
  <2>3. /\ Len(wire') = Len(wire) + 1 /\ Len(wire) \in Nat
        /\ wire'[Len(wire) + 1] = NextByte
        /\ \A n \in 1 .. Len(wire) : wire'[n] = wire[n]
    BY <2>1, <2>2
  <2>4. CASE wire = <<>>
    <3>1. NextByte = [pkt |-> 1, off |-> 1] /\ Len(wire) = 0
      BY <2>4, NextByteIs DEF Byte
    <3> QED BY <2>3, <3>1 DEF WireInOrder
  <2>5. CASE wire # <<>>
    <3>1. Len(wire) >= 1 /\ wire'[1] = [pkt |-> 1, off |-> 1]
      BY <2>2, <2>3, <2>5 DEF WireInOrder
    <3>2. ASSUME NEW n \in 1 .. Len(wire') - 1 PROVE Follows(wire[n], wire'[n + 1])
      <4>1. CASE n = Len(wire)
        BY <2>3, <2>5, <3>1, <4>1, NextByteIs DEF Follows, Byte
      <4>2. CASE n # Len(wire)
        <5>1. n \in 1 .. Len(wire) - 1 /\ n + 1 \in 1 .. Len(wire)
          BY <2>3, <4>2
        <5> QED BY <2>3, <5>1 DEF WireInOrder
      <4> QED BY <4>1, <4>2
    <3>3. \A n \in 1 .. Len(wire') - 1 : wire'[n] = wire[n]
      BY <2>3
    <3> QED BY <2>1, <3>1, <3>2, <3>3 DEF WireInOrder, Follows
  <2> QED BY <2>4, <2>5
<1>2. ASSUME NEW s \in Senders, SendPush(s) PROVE WireInOrder'
  <2>1. wire' = wire /\ \A k \in DOMAIN accepted : accepted'[k] = accepted[k]
    BY <1>2 DEF SendPush, Control, TypeOK
  <2>2. ASSUME NEW n \in 1 .. Len(wire) - 1 PROVE Follows(wire[n], wire[n + 1])'
    <3>1. n \in DOMAIN wire
      BY DEF Control, TypeOK
    <3>2. wire[n].pkt \in DOMAIN accepted /\ Follows(wire[n], wire[n + 1])
      BY <3>1 DEF WireKnows, WireBytes, WireInOrder
    <3> QED BY <2>1, <3>2 DEF Follows
  <2> QED BY <2>1, <2>2 DEF WireInOrder
<1>3. CASE UNCHANGED <<wire, accepted>>
  BY <1>3 DEF WireInOrder, Follows
<1> QED BY <1>1, <1>2, <1>3 DEF Next, Sender, IO, vars, SendLock, SendCheck, SendStart,
        Complete, Fail, HandlerLock, HandlerPop, HandlerNext

-----------------------------------------------------------------------------
\* IInv holds in every reachable state.
THEOREM Invariance == Spec => []IInv
<1>1. IInv /\ [Next]_vars => IInv'
  BY ControlStep, WireStep, OrderStep DEF IInv
<1> QED BY InitInv, <1>1, PTL DEF Spec

\* The type invariant.
THEOREM TypeCorrect == Spec => []TypeOK
<1>1. IInv => TypeOK
  BY DEF IInv, Control
<1> QED BY <1>1, Invariance, PTL

\* One async_write at a time: send() and the completion handler never both
\* start one (see OneWrite).
THEOREM MutualExclusion == Spec => []OneWrite
<1>1. IInv => OneWrite
  BY DEF IInv, Control, LastIsLive, OneWrite
<1> QED BY <1>1, Invariance, PTL

\* The vector a write reads stays at the front of sendQueue_.
THEOREM BufferSafety == Spec => []BufferAlive
<1>1. IInv => BufferAlive
  <2> SUFFICES ASSUME IInv, NEW i \in DOMAIN writes,
                      writes[i].st \in {"transfer", "complete", "pop"}
               PROVE  sendQueue # <<>> /\ Head(sendQueue) = writes[i].pkt
    BY DEF BufferAlive
  <2>1. sendQueue # <<>> /\ writes[i].pkt = Popped + 1
    BY DEF IInv, Control, OnFront, OnFrontAt
  <2>2. Head(sendQueue) = Popped + 1
    BY <2>1 DEF IInv, Control, QueueIsSuffix, TypeOK
  <2> QED BY <2>1, <2>2
<1> QED BY <1>1, Invariance, PTL

\* The stream is the accepted packets in order, none interleaved.
THEOREM StreamOrder == Spec => []WireInOrder
<1>1. IInv => WireInOrder
  BY DEF IInv
<1> QED BY <1>1, Invariance, PTL

\* No packet is left in the queue with nobody to write it.
THEOREM NoLostWakeUp == Spec => []QueueIsServed
<1>1. IInv => QueueIsServed
  BY DEF IInv, Control, SenderKnows, AllOver, QueueIsServed, Active, Failed
<1> QED BY <1>1, Invariance, PTL

LEMMA AfterFailure ==
  ASSUME Control, Failed, [Next]_vars
  PROVE  UNCHANGED <<wire, writes>>
<1>1. PICK f \in DOMAIN writes : writes[f].st = "failed"
  BY DEF Failed
<1>2. \A i \in DOMAIN writes : i # f => writes[i].st = "over"
  BY <1>1 DEF Control, LastIsLive
<1>3. ASSUME NEW s \in Senders, SendStart(s) PROVE UNCHANGED <<wire, writes>>
  <2>1. writing[s]
    BY <1>1, <1>3 DEF SendStart, Control, SenderKnows, AllOver
  <2> QED BY <1>3, <2>1 DEF SendStart, MustStart
<1>4. ASSUME NEW i \in DOMAIN writes,
             \/ Transfer(i) \/ Complete(i) \/ Fail(i)
             \/ HandlerLock(i) \/ HandlerPop(i) \/ HandlerNext(i)
      PROVE FALSE
  <2>1. writes[i].st \in {"transfer", "complete", "pop", "next"}
    BY <1>4 DEF Transfer, Complete, Fail, HandlerLock, HandlerPop, HandlerNext
  <2> QED BY <1>1, <1>2, <2>1
<1> QED BY <1>3, <1>4 DEF Next, Sender, IO, vars, SendLock, SendCheck, SendPush

\* A torn packet is never followed by another byte.
THEOREM TornStreamStops == Spec => SilentAfterFailure
<1>1. IInv /\ [Next]_vars
        => [Failed => UNCHANGED wire /\ Len(writes') = Len(writes)]_vars
  BY AfterFailure DEF IInv
<1> QED BY <1>1, Invariance, PTL DEF Spec, SilentAfterFailure

\* A step keeps Failed unless it is Fail.
LEMMA FailedStep ==
  ASSUME Control, Control', [Next]_vars, Failed' # Failed
  PROVE  \E i \in DOMAIN writes : Fail(i)
<1>1. ~Failed /\ Failed'
  <2>1. Failed => Failed'
    BY AfterFailure DEF Failed
  <2> QED BY <2>1 DEF Failed
<1>2. PICK f \in DOMAIN writes' : writes'[f].st = "failed"
  BY <1>1 DEF Failed
<1>3. ASSUME NEW s \in Senders, Sender(s) PROVE FALSE
  <2>1. CASE writes' = writes
    BY <1>1, <2>1 DEF Failed
  <2>2. CASE writes' # writes
    <3>1. SendStart(s) /\ ~writing[s]
      BY <1>3, <2>2 DEF Sender, SendLock, SendCheck, SendPush, SendStart, MustStart
    <3>2. writes' = Append(writes, NewWrite) /\ AllOver /\ sendQueue # <<>>
      BY <3>1 DEF SendStart, MustStart, Control, SenderKnows
    <3>3. NewWrite \in Write /\ writes \in Seq(Write) /\ NewWrite.st = "transfer"
      BY <3>2, NewWriteSeq DEF Control, TypeOK, NewWrite
    <3> QED BY <1>2, <3>2, <3>3, AppendSeq DEF AllOver
  <2> QED BY <2>1, <2>2
<1>4. ASSUME NEW i \in DOMAIN writes, Transfer(i) PROVE FALSE
  <2>0. TypeOK'
    BY DEF Control
  <2>1. /\ writes'[i] = [pkt |-> writes[i].pkt, off |-> writes[i].off + 1, st |-> writes[i].st]
        /\ \A j \in DOMAIN writes : j # i => writes'[j] = writes[j]
        /\ DOMAIN writes' = DOMAIN writes
    BY <1>4, <2>0, TransferStep
  <2> QED BY <1>1, <2>1 DEF Failed
<1>5. ASSUME NEW i \in DOMAIN writes, NEW st \in {"complete", "pop", "next"},
             writes' = SetStatus(i, st) PROVE FALSE
  <2>1. /\ DOMAIN writes' = DOMAIN writes /\ writes'[i].st = st
        /\ \A j \in DOMAIN writes : j # i => writes'[j] = writes[j]
    <3>1. TypeOK
      BY DEF Control
    <3>2. st \in Status
      BY DEF Status
    <3>3. writes' = SetStatus(i, st)
      BY <1>5
    <3>4. /\ DOMAIN SetStatus(i, st) = DOMAIN writes /\ SetStatus(i, st)[i].st = st
          /\ \A j \in DOMAIN writes : j # i => SetStatus(i, st)[j] = writes[j]
      BY <3>1, <3>2, SetStatusSeq
    <3> QED BY <3>3, <3>4, Zenon
  <2> QED BY <1>1, <2>1 DEF Failed
<1>6. ASSUME NEW i \in DOMAIN writes, HandlerNext(i) PROVE FALSE
  BY <1>2, <1>6, HandlerNextStep DEF Control, AllOver
<1>7. ~UNCHANGED vars
  BY <1>1 DEF Failed, vars
<1> QED BY <1>3, <1>4, <1>5, <1>6, <1>7
        DEF Next, IO, Complete, HandlerLock, HandlerPop

\* The session is a channel: every step of send(), of a write or of its
\* handler is a step of OutboundChannel or leaves it alone.
THEOREM Refinement == Spec => Channel!Init /\ [][Channel!Next]_(Channel!chanVars)
<1>1. Init => Channel!Init
  BY DEF Init, Channel!Init, Failed
<1>2. ASSUME IInv, IInv', [Next]_vars PROVE [Channel!Next]_(Channel!chanVars)
  <2>0. Control /\ WireKnows /\ Control'
    BY <1>2 DEF IInv
  <2>1. ASSUME NEW s \in Senders, SendPush(s) PROVE Channel!Accept
    BY <2>1 DEF SendPush, Channel!Accept, Failed
  <2>2. ASSUME NEW i \in DOMAIN writes, Transfer(i) PROVE Channel!Deliver
    <3>1. wire' = Append(wire, NextByte) /\ NextByte.pkt \in DOMAIN accepted
      BY <2>0, <2>2, WireTransferStep
    <3>2. ~Failed
      <4> SUFFICES ASSUME Failed PROVE FALSE
        OBVIOUS
      <4>1. UNCHANGED wire
        BY <1>2, <2>0, AfterFailure
      <4>2. wire \in Seq([pkt : Nat, off : Nat]) /\ wire' \in Seq([pkt : Nat, off : Nat])
        BY <2>0 DEF Control, TypeOK
      <4>3. wire'[Len(wire) + 1] = NextByte /\ Len(wire) + 1 \in DOMAIN wire'
        BY <3>1, <4>2
      <4> QED BY <4>1, <4>2, <4>3
    <3>3. ~Fail(i) /\ Failed' = Failed
      <4>1. \A j \in DOMAIN writes : ~Fail(j)
        BY <2>0, <2>2, <3>1 DEF Fail, Control, TypeOK
      <4> QED BY <1>2, <2>0, <4>1, FailedStep
    <3> QED BY <2>2, <3>1, <3>2, <3>3 DEF Transfer, Channel!Deliver, NextByte
  <2>3. ASSUME NEW i \in DOMAIN writes, Fail(i) PROVE Channel!Break
    <3>1. ~Failed
      BY <2>0, <2>3 DEF Control, LastIsLive, Failed, Fail
    <3>2. Failed'
      <4>1. DOMAIN writes' = DOMAIN writes /\ writes'[i].st = "failed"
        BY <2>0, <2>3, SetStatusSeq DEF Fail, Control, Status
      <4> QED BY <4>1 DEF Failed
    <3>3. NextByte.pkt \in DOMAIN accepted
      <4>1. /\ sendQueue # <<>> /\ writes[i].pkt = Popped + 1 /\ writes[i].st = "transfer"
            /\ writes[i].off < accepted[Popped + 1]
        BY <2>0, <2>3 DEF Fail, Control, OnFront, OnFrontAt
      <4>2. NextByte = Byte(Popped + 1, writes[i].off + 1)
        BY <2>0, <4>1 DEF WireKnows, WireAt
      <4> QED BY <2>0, <4>1, <4>2, FrontLength DEF Byte
    <3> QED BY <2>3, <3>1, <3>2, <3>3 DEF Fail, Channel!Break, NextByte
  <2>4. CASE /\ \A s \in Senders : ~SendPush(s)
             /\ \A i \in DOMAIN writes : ~Transfer(i) /\ ~Fail(i)
    <3>1. UNCHANGED <<accepted, wire>>
      BY <1>2, <2>4 DEF Next, Sender, IO, vars, SendLock, SendCheck, SendStart, Complete,
         HandlerLock, HandlerPop, HandlerNext
    <3>2. Failed' = Failed
      BY <1>2, <2>0, <2>4, FailedStep
    <3> QED BY <3>1, <3>2 DEF Channel!chanVars
  <2> QED BY <2>1, <2>2, <2>3, <2>4 DEF Channel!Next
<1> QED BY <1>1, <1>2, Invariance, PTL DEF Spec
=============================================================================
