------------------------- MODULE PushHandler_proofs -------------------------
(***************************************************************************)
(* Every step of a push is a step DeviceSession allows its clients, so     *)
(* what DeviceSession guarantees of every client is guaranteed of a push,  *)
(* for any number of pushes, blocks and messages.  With it, that a push    *)
(* sends nothing before the device acknowledged all it sent before.        *)
(***************************************************************************)
EXTENDS PushHandler, DeviceSession_proofs, FiniteSetTheorems

LEMMA StepUsesSession == ASSUME NEW s \in Streams, Step(s) PROVE Next
<1>1. CASE Begin(s) \/ BeginOpened(s)
  <2>1. Open(s)
    BY <1>1 DEF Begin, BeginOpened
  <2> QED BY <2>1 DEF Next, Handler
<1>2. CASE OpenAcked(s) \/ NextBlock(s) \/ EndOfFile(s)
  <2>1. WaitAgain(s)
    BY <1>2 DEF OpenAcked, NextBlock, EndOfFile
  <2> QED BY <2>1 DEF Next, Handler
<1>3. CASE OpenFailed(s)
  <2>1. Remove(s)
    BY <1>3 DEF OpenFailed
  <2> QED BY <2>1 DEF Next, Handler
<1>4. CASE NoFile(s) \/ DoneAcked(s) \/ GiveUp(s)
  <2>1. Finish(s)
    BY <1>4 DEF NoFile, DoneAcked, GiveUp
  <2> QED BY <2>1, Zero DEF Next
<1> QED BY <1>1, <1>2, <1>3, <1>4 DEF Step

LEMMA SessionStepUsesSession == ASSUME SessionStep PROVE Next
<1>1. CASE StartConnect \/ ConnectWait \/ CheckWaiters
  BY <1>1 DEF Next
<1>2. CASE \E s \in Streams : Expire(s) \/ TimeOut(s)
  BY <1>2, Zero DEF Next, Handler
<1> QED BY <1>1, <1>2 DEF SessionStep

LEMMA PushNextUsesSession == [PushNext]_allVars => [Next]_vars
<1> SUFFICES ASSUME [PushNext]_allVars PROVE [Next]_vars
  OBVIOUS
<1>1. CASE SessionStep
  BY <1>1, SessionStepUsesSession
<1>2. ASSUME NEW s \in Streams, Step(s) PROVE Next
  BY <1>2, StepUsesSession
<1>3. ASSUME NEW s \in Streams, Answer(s) PROVE Next
  BY <1>3 DEF Answer, Next
<1>4. CASE UNCHANGED allVars
  BY <1>4 DEF allVars
<1> QED BY <1>1, <1>2, <1>3, <1>4 DEF PushNext

(* The handlers and the device together keep to what DeviceSession says of *)
(* its clients and its device.                                             *)
THEOREM Implements == PushSpec => UsesSession
<1>1. PushInit => Init
  BY DEF PushInit
<1> QED BY <1>1, PushNextUsesSession, PTL DEF PushSpec, UsesSession

(* While files are pushed, no handler misses its OKAY, none gets another   *)
(* stream's, every OKAY is in one place, handed out in the order it came,  *)
(* and the read loop goes on.                                              *)
THEOREM PushIsServed ==
  PushSpec => [](NoMissedMatch /\ RightStream /\ ReadLoopSurvives /\ ExactlyOnce /\ OrderKept)
<1>1. PushSpec => [](IInv /\ Ledger)
  BY Implements, SafetyLedger, PTL DEF UsesSession
<1>2. IInv /\ Ledger =>
        NoMissedMatch /\ RightStream /\ ReadLoopSurvives /\ ExactlyOnce /\ OrderKept
  BY Consequences, OnceConsequence, InOrderConsequence
<1> QED BY <1>1, <1>2, PTL

-----------------------------------------------------------------------------
\* The inductive invariant of the pushes, beside that of DeviceSession

PacketTypes == [what : {"OPEN", "SEND", "DATA", "DONE", "CLSE"}, remote : Nat \cup {NoId}]
PushTypes ==
  /\ at \in [Streams -> At] /\ remote \in [Streams -> Nat \cup {NoId}]
  /\ sent \in [Streams -> Seq(PacketTypes)]

(* A push that has not begun; one that opened its stream, whose packets    *)
(* all go there; and one that found the service marked as opened, whose    *)
(* packets go nowhere.                                                     *)
NotBegun(s) == at[s] = "start" /\ remote[s] = NoId /\ sent[s] = <<>>
Own(s) ==
  /\ at[s] # "start"
  /\ at[s] \notin {"open", "failed"} => remote[s] = DeviceIds[s]
  /\ \A i \in DOMAIN sent[s] : sent[s][i].what = "OPEN" \/ sent[s][i].remote = DeviceIds[s]
  /\ at[s] \in {"done", "finished"} => \E i \in Answerable(s) : sent[s][i].what = "DONE"
Late(s) ==
  /\ at[s] \notin {"start", "open", "finished"}
  /\ \A i \in DOMAIN sent[s] : sent[s][i].what # "OPEN" /\ sent[s][i].remote = NoId
Course == \A s \in Streams : NotBegun(s) \/ Own(s) \/ Late(s)

(* The device never answers more than it was asked, and the handler asks   *)
(* for one more only after it was given an answer to all before.           *)
Counted(s) ==
  /\ Cardinality(Answers(s)) <= Cardinality(Answerable(s))
  /\ Cardinality(Answerable(s)) <= Len(given[s]) + 1
  /\ status[s] = "running" => Len(given[s]) > 0
  /\ status[s] = "running" \/ at[s] = "finished" => Cardinality(Answerable(s)) <= Len(given[s])
Count == \A s \in Streams : Counted(s)

PInv == PushTypes /\ Course /\ Count

-----------------------------------------------------------------------------
\* Counting

\* What was sent and answered is finite.
LEMMA Finite ==
  ASSUME TypeOK, PushTypes, NEW s \in Streams
  PROVE  /\ IsFiniteSet(Answerable(s)) /\ Cardinality(Answerable(s)) \in Nat
         /\ IsFiniteSet(Answers(s)) /\ Cardinality(Answers(s)) \in Nat
         /\ Len(given[s]) \in Nat
<1>1. /\ DOMAIN sent[s] = 1 .. Len(sent[s]) /\ Len(sent[s]) \in Nat
      /\ DOMAIN received = 1 .. Len(received) /\ Len(received) \in Nat
  BY DEF TypeOK, PushTypes
<1>2. IsFiniteSet(1 .. Len(sent[s])) /\ IsFiniteSet(1 .. Len(received))
  BY <1>1, FS_Interval
<1>3. Answerable(s) \in SUBSET (1 .. Len(sent[s])) /\ Answers(s) \in SUBSET (1 .. Len(received))
  BY <1>1 DEF Answerable, Answers
<1>4. IsFiniteSet(Answerable(s)) /\ IsFiniteSet(Answers(s))
  BY <1>2, <1>3, FS_Subset
<1>5. Len(given[s]) \in Nat
  BY Zero DEF TypeOK
<1> QED BY <1>4, <1>5, FS_CardinalityType

\* A message is handed out once: what a handler was given are so many answers.
LEMMA GivenAnswered ==
  ASSUME IInv, Ledger, PushTypes, NEW s \in Streams
  PROVE  Len(given[s]) <= Cardinality(Answers(s))
<1>1. TypeOK /\ GivenRight
  BY DEF IInv
<1>2. Len(given[s]) \in Nat /\ DOMAIN given[s] = 1 .. Len(given[s])
  BY <1>1, Zero DEF TypeOK
<1>3. IsFiniteSet(Answers(s)) /\ Cardinality(Answers(s)) \in Nat
  BY <1>1, Finite
<1>4. IsFiniteSet(1 .. Len(given[s])) /\ Cardinality(1 .. Len(given[s])) = Len(given[s])
  BY <1>2, FS_Interval
<1> DEFINE f == [i \in 1 .. Len(given[s]) |-> given[s][i]]
<1>5. f \in [1 .. Len(given[s]) -> Answers(s)]
  BY <1>1, <1>2, Zero DEF GivenRight, Answers
<1>6. \A i, j \in 1 .. Len(given[s]) : f[i] = f[j] => i = j
  BY <1>2, Zero, GivenOnce
<1> HIDE DEF f
<1>7. ~(Cardinality(Answers(s)) < Cardinality(1 .. Len(given[s])))
  BY <1>3, <1>4, <1>5, <1>6, FS_PigeonHole
<1> QED BY <1>2, <1>3, <1>4, <1>7

\* One more packet of s.
LEMMA SendsOne ==
  ASSUME PushTypes, NEW s \in Streams, NEW p \in PacketTypes, Sends(s, <<p>>)
  PROVE  /\ sent' \in [Streams -> Seq(PacketTypes)]
         /\ \A t \in Streams : t # s => sent'[t] = sent[t]
         /\ DOMAIN sent[s] = 1 .. Len(sent[s])
         /\ DOMAIN sent'[s] = 1 .. Len(sent[s]) + 1 /\ sent'[s][Len(sent[s]) + 1] = p
         /\ \A i \in DOMAIN sent[s] : i \in DOMAIN sent'[s] /\ sent'[s][i] = sent[s][i]
<1>1. sent[s] \in Seq(PacketTypes) /\ <<p>> \in Seq(PacketTypes) /\ Len(<<p>>) = 1 /\ <<p>>[1] = p
  BY DEF PushTypes
<1>2. sent' = [sent EXCEPT ![s] = sent[s] \o <<p>>] /\ sent \in [Streams -> Seq(PacketTypes)]
  BY DEF Sends, PushTypes
<1>3. /\ sent[s] \o <<p>> \in Seq(PacketTypes)
      /\ Len(sent[s] \o <<p>>) = Len(sent[s]) + 1
      /\ \A n \in 1 .. Len(sent[s]) : (sent[s] \o <<p>>)[n] = sent[s][n]
      /\ (sent[s] \o <<p>>)[Len(sent[s]) + 1] = p
  <2>1. Len(sent[s]) \in Nat
    BY <1>1
  <2>2. /\ sent[s] \o <<p>> \in Seq(PacketTypes)
        /\ Len(sent[s] \o <<p>>) = Len(sent[s]) + Len(<<p>>)
        /\ \A n \in 1 .. Len(sent[s]) : (sent[s] \o <<p>>)[n] = sent[s][n]
        /\ \A n \in Len(sent[s]) + 1 .. Len(sent[s]) + Len(<<p>>) :
             (sent[s] \o <<p>>)[n] = <<p>>[n - Len(sent[s])]
    BY <1>1, Glue, Zenon
  <2> HIDE DEF Sends
  <2> QED BY <1>1, <2>1, <2>2
<1>4. sent'[s] = sent[s] \o <<p>>
  BY <1>2
<1>5. DOMAIN sent[s] = 1 .. Len(sent[s]) /\ DOMAIN sent'[s] = 1 .. Len(sent[s]) + 1
  BY <1>1, <1>3, <1>4
<1> QED BY <1>1, <1>2, <1>3, <1>4, <1>5

\* It asks for at most one more answer, and CLSE for none.
LEMMA AsksOne ==
  ASSUME TypeOK, PushTypes, NEW s \in Streams, NEW p \in PacketTypes, Sends(s, <<p>>)
  PROVE  /\ Cardinality(Answerable(s)) <= Cardinality(Answerable(s)')
         /\ Cardinality(Answerable(s)') <= Cardinality(Answerable(s)) + 1
         /\ Cardinality(Answerable(s)') \in Nat
         /\ p.what = "CLSE" => Answerable(s)' = Answerable(s)
         /\ Answerable(s) \subseteq Answerable(s)'
<1> DEFINE n == Len(sent[s]) + 1
<1>1. /\ DOMAIN sent'[s] = DOMAIN sent[s] \cup {n} /\ sent'[s][n] = p /\ n \notin DOMAIN sent[s]
      /\ \A i \in DOMAIN sent[s] : sent'[s][i] = sent[s][i]
  <2>1. Len(sent[s]) \in Nat
    BY DEF PushTypes
  <2> QED BY <2>1, SendsOne
<1> HIDE DEF n
<1>2. Answerable(s) \subseteq Answerable(s)' /\ Answerable(s)' \subseteq Answerable(s) \cup {n}
  BY <1>1 DEF Answerable
<1>3. p.what = "CLSE" => Answerable(s)' = Answerable(s)
  BY <1>1 DEF Answerable
<1>4. IsFiniteSet(Answerable(s)) /\ Cardinality(Answerable(s)) \in Nat
  BY Finite
<1>5. /\ IsFiniteSet(Answerable(s) \cup {n})
      /\ Cardinality(Answerable(s) \cup {n}) \in Nat
      /\ Cardinality(Answerable(s) \cup {n}) <= Cardinality(Answerable(s)) + 1
  <2>1. /\ IsFiniteSet(Answerable(s) \cup {n})
        /\ Cardinality(Answerable(s) \cup {n}) =
             IF n \in Answerable(s) THEN Cardinality(Answerable(s)) ELSE Cardinality(Answerable(s)) + 1
    BY <1>4, FS_AddElement
  <2> QED BY <1>4, <2>1
<1>6. /\ IsFiniteSet(Answerable(s)')
      /\ Cardinality(Answerable(s)') <= Cardinality(Answerable(s) \cup {n})
  BY <1>2, <1>5, FS_Subset
<1>7. Cardinality(Answerable(s)') \in Nat
  BY <1>6, FS_CardinalityType
<1>8. Cardinality(Answerable(s)) <= Cardinality(Answerable(s)')
  BY <1>2, <1>6, FS_Subset
<1> QED BY <1>2, <1>3, <1>4, <1>5, <1>6, <1>7, <1>8

-----------------------------------------------------------------------------
\* What a step of the session does to a handler

\* It is handed one message, or none and is not resumed.
Served(c) ==
  \/ given'[c] = given[c] /\ (status'[c] = "running" => status[c] = "running")
  \/ Len(given'[c]) = Len(given[c]) + 1 /\ status'[c] = "running"

LEMMA HandOverServes ==
  ASSUME TypeOK, NEW c \in Clients, NEW i \in DOMAIN Deque(c), HandOver(c, i)
  PROVE  /\ Len(given'[c]) = Len(given[c]) + 1 /\ status'[c] = "running"
         /\ \A d \in Clients : d # c => given'[d] = given[d] /\ status'[d] = status[d]
<1>1. given[c] \in Seq(Nat) /\ Deque(c)[i] \in Nat
  BY DequeType DEF TypeOK
<1>2. given'[c] = Append(given[c], Deque(c)[i])
  BY DEF HandOver, TypeOK
<1>3. /\ status'[c] = "running"
      /\ \A d \in Clients : d # c => given'[d] = given[d] /\ status'[d] = status[d]
  BY DEF HandOver, TypeOK
<1> QED BY <1>1, <1>2, <1>3, AppendSeq

LEMMA CoWaitServes ==
  ASSUME TypeOK, NEW c \in Clients, NEW cmds, CoWait(c, cmds)
  PROVE  /\ \/ given'[c] = given[c] /\ status'[c] = "waiting"
            \/ Len(given'[c]) = Len(given[c]) + 1 /\ status'[c] = "running"
         /\ \A d \in Clients : d # c => given'[d] = given[d] /\ status'[d] = status[d]
<1>1. CASE \E i \in FirstMatch(cmds, Deque(c)) : HandOver(c, i)
  <2>1. PICK i \in FirstMatch(cmds, Deque(c)) : HandOver(c, i)
    BY <1>1
  <2>2. i \in DOMAIN Deque(c)
    BY DEF FirstMatch
  <2> QED BY <2>1, <2>2, HandOverServes
<1>2. CASE AddWaiter(c, cmds) /\ given' = given
  BY <1>2 DEF AddWaiter, TypeOK
<1> QED BY <1>1, <1>2 DEF CoWait

LEMMA AllServed ==
  ASSUME IInv, [Next]_vars
  PROVE  \A c \in Clients : Served(c)
<1> SUFFICES ASSUME NEW c \in Clients PROVE Served(c)
  OBVIOUS
<1>0. TypeOK
  BY DEF IInv
<1>1. ASSUME NEW d \in Clients, NEW cmds, CoWait(d, cmds) PROVE Served(c)
  BY <1>0, <1>1, CoWaitServes DEF Served
<1>2. CASE ConnectWait
  BY <1>1, <1>2, Zero DEF ConnectWait, ConnectWaitFor
<1>3. ASSUME NEW s \in Streams, WaitAgain(s) PROVE Served(c)
  BY <1>1, <1>3, Zero DEF WaitAgain
<1>4. CASE CheckMatch
  <2>1. PICK d \in Clients : d = scanned
    BY <1>0 DEF TypeOK
  <2>2. \E i \in DOMAIN Deque(d) : HandOver(d, i)
    BY <1>4, <2>1 DEF CheckMatch, FirstMatch
  <2> QED BY <1>0, <2>2, HandOverServes DEF Served
<1>5. CASE StartConnect
  BY <1>0, <1>5, Zero DEF StartConnect, TypeOK, Served
<1>6. ASSUME NEW s \in Streams, Open(s) \/ Remove(s) \/ TimeOut(s) PROVE Served(c)
  BY <1>0, <1>6, Zero DEF Open, AddWaiter, Remove, TimeOut, TypeOK, Served
<1>7. ASSUME NEW d \in Clients, Finish(d) \/ Expire(d) PROVE Served(c)
  BY <1>0, <1>7 DEF Finish, Expire, TypeOK, Served
<1>8. CASE Receive \/ CheckExpired \/ CheckNext \/ CheckEnd \/ UNCHANGED vars
  BY <1>8 DEF Receive, CheckExpired, CheckNext, CheckEnd, vars, Served
<1> QED BY <1>2, <1>3, <1>4, <1>5, <1>6, <1>7, <1>8 DEF Next, Handler, CheckWaiters

\* Messages arrive with Answer only.
LEMMA OnlyAnswers ==
  ASSUME SessionStep \/ (\E s \in Streams : Step(s)) \/ UNCHANGED allVars
  PROVE  received' = received
<1>1. CASE SessionStep
  BY <1>1 DEF SessionStep, StartConnect, ConnectWait, ConnectWaitFor, CheckWaiters, CheckExpired,
              CheckMatch, CheckNext, CheckEnd, Expire, TimeOut, sessionVars
<1>2. CASE \E s \in Streams : Open(s) \/ WaitAgain(s) \/ Remove(s) \/ Finish(s)
  BY <1>2 DEF Open, WaitAgain, Remove, Finish, sessionVars
<1>3. ASSUME NEW s \in Streams, Step(s) PROVE received' = received
  BY <1>2, <1>3 DEF Step, Begin, BeginOpened, OpenAcked, OpenFailed, NextBlock, EndOfFile, NoFile,
              DoneAcked, GiveUp
<1>4. CASE UNCHANGED allVars
  BY <1>4 DEF allVars, vars, sessionVars
<1> QED BY <1>1, <1>3, <1>4

\* What a handler counted on it can still count on.
LEMMA StillCounted ==
  ASSUME IInv, PushTypes, NEW s \in Streams, Counted(s), Served(s), received' = received,
         sent'[s] = sent[s], at'[s] = at[s] \/ at'[s] # "finished" \/ status[s] = "running",
         TypeOK'
  PROVE  Counted(s)'
<1>1. Answerable(s)' = Answerable(s) /\ Answers(s)' = Answers(s)
  BY DEF Answerable, Answers
<1>2. /\ Cardinality(Answerable(s)) \in Nat /\ Cardinality(Answers(s)) \in Nat
      /\ Len(given[s]) \in Nat
  BY Finite DEF IInv
<1> QED BY <1>1, <1>2 DEF Counted, Served

-----------------------------------------------------------------------------
\* The steps of a push

Settled(s) == NotBegun(s) \/ Own(s) \/ Late(s)

\* What a push is does not depend on the others.
LEMMA OthersKeep ==
  ASSUME IInv, TypeOK', PInv, NEW t \in Streams, Served(t), received' = received,
         at'[t] = at[t], remote'[t] = remote[t], sent'[t] = sent[t]
  PROVE  Settled(t)' /\ Counted(t)'
<1>1. Settled(t) /\ Counted(t) /\ PushTypes
  BY DEF PInv, Course, Count, Settled
<1>2. Counted(t)'
  BY <1>1, StillCounted
<1>3. Settled(t)'
  BY <1>1 DEF Settled, NotBegun, Own, Late, Answerable
<1> QED BY <1>2, <1>3

\* Only a push with a stream of its own is ever resumed with an answer.
LEMMA RunningOwns ==
  ASSUME IInv, Ledger, PInv, NEW s \in Streams, status[s] = "running", at[s] # "start"
  PROVE  /\ Own(s) /\ Len(given[s]) > 0
         /\ Cardinality(Answerable(s)) <= Len(given[s])
<1>1. PushTypes /\ Settled(s) /\ Counted(s) /\ TypeOK
  BY DEF PInv, Course, Count, Settled, IInv
<1>2. /\ Len(given[s]) \in Nat /\ Cardinality(Answerable(s)) \in Nat
      /\ Cardinality(Answers(s)) \in Nat
  BY <1>1, Finite
<1>3. Len(given[s]) > 0 /\ Cardinality(Answerable(s)) <= Len(given[s])
  BY <1>1 DEF Counted
<1>4. Len(given[s]) <= Cardinality(Answerable(s))
  BY <1>1, <1>2, GivenAnswered DEF Counted
<1>5. Answerable(s) # {}
  BY <1>2, <1>3, <1>4, FS_EmptySet
<1>6. DeviceIds[s] # NoId
  BY DeviceIdsAssumption DEF NoId
<1>7. ~Late(s)
  BY <1>5, <1>6 DEF Late, Answerable
<1> QED BY <1>1, <1>3, <1>7 DEF Settled, NotBegun

\* The device's id is what the handler reads from the answer to OPEN.
LEMMA RemoteIdRead ==
  ASSUME IInv, NEW s \in Streams, Len(given[s]) > 0
  PROVE  RemoteIdOf(s) = DeviceIds[s]
<1>1. Len(given[s]) \in DOMAIN given[s]
  BY Zero DEF IInv, TypeOK
<1>2. received[given[s][Len(given[s])]].arg1 = s
  BY <1>1, Zero DEF IInv, GivenRight
<1> QED BY <1>2 DEF RemoteIdOf

\* A packet, and the wait for its answer.
LEMMA AskedAndWaits ==
  ASSUME IInv, TypeOK', Ledger, PInv, NEW s \in Streams, NEW p \in PacketTypes, Sends(s, <<p>>),
         at[s] # "start", WaitAgain(s), at'[s] \in {"send", "data", "done"}
  PROVE  Counted(s)'
<1>1. PushTypes /\ Counted(s) /\ TypeOK
  BY DEF PInv, Count, IInv
<1>2. /\ status[s] = "running" /\ received' = received
      /\ \/ given'[s] = given[s] /\ status'[s] = "waiting"
         \/ Len(given'[s]) = Len(given[s]) + 1
  BY <1>1, CoWaitServes, Zero DEF WaitAgain
<1>3. Answers(s)' = Answers(s)
  BY <1>2 DEF Answers
<1>4. /\ Len(given[s]) \in Nat /\ Cardinality(Answerable(s)) \in Nat
      /\ Cardinality(Answers(s)) \in Nat
  BY <1>1, Finite
<1>5. /\ Cardinality(Answerable(s)) <= Cardinality(Answerable(s)')
      /\ Cardinality(Answerable(s)') <= Cardinality(Answerable(s)) + 1
      /\ Cardinality(Answerable(s)') \in Nat
  BY <1>1, AsksOne
<1>6. Cardinality(Answerable(s)) <= Len(given[s])
  BY <1>2, RunningOwns
<1> QED BY <1>1, <1>2, <1>3, <1>4, <1>5, <1>6 DEF Counted

\* OPEN, or SEND to nowhere, and the first wait.
LEMMA BegunCounted ==
  ASSUME IInv, PInv, NEW s \in Streams, NEW p \in PacketTypes, Sends(s, <<p>>),
         NotBegun(s), Open(s), at'[s] # "finished", at'[s] # "start"
  PROVE  Counted(s)'
<1>1. PushTypes /\ Counted(s) /\ TypeOK
  BY DEF PInv, Count, IInv
<1>2. received' = received /\ given' = given /\ status'[s] = "waiting"
  BY <1>1, Zero DEF Open, AddWaiter, TypeOK
<1>3. Answers(s)' = Answers(s)
  BY <1>2 DEF Answers
<1>4. /\ Len(given[s]) \in Nat /\ Cardinality(Answerable(s)) \in Nat
      /\ Cardinality(Answers(s)) \in Nat
  BY <1>1, Finite
<1>5. Cardinality(Answerable(s)) = 0
  <2>1. Answerable(s) = {}
    BY DEF Answerable, NotBegun
  <2> QED BY <2>1, FS_EmptySet
<1>6. /\ Cardinality(Answerable(s)) <= Cardinality(Answerable(s)')
      /\ Cardinality(Answerable(s)') <= Cardinality(Answerable(s)) + 1
      /\ Cardinality(Answerable(s)') \in Nat
  BY <1>1, AsksOne
<1> QED BY <1>1, <1>2, <1>3, <1>4, <1>5, <1>6 DEF Counted

LEMMA PacketMade ==
  ASSUME NEW what \in {"OPEN", "SEND", "DATA", "DONE", "CLSE"}, NEW id \in Nat \cup {NoId}
  PROVE  /\ Packet(what, id) \in PacketTypes
         /\ Packet(what, id).what = what /\ Packet(what, id).remote = id
  BY DEF Packet, PacketTypes

LEMMA StepKeepsOwn ==
  ASSUME IInv, TypeOK', Ledger, PInv, NEW s \in Streams, Step(s)
  PROVE  PushTypes' /\ Settled(s)' /\ Counted(s)'
<1>0. PushTypes /\ Settled(s) /\ Counted(s) /\ TypeOK /\ DeviceIds[s] \in Nat
  BY DeviceIdsAssumption DEF PInv, Course, Count, Settled, IInv
<1>1. CASE Begin(s)
  <2> DEFINE p == Packet("OPEN", 0)
  <2>1. p \in PacketTypes /\ p.what = "OPEN"
    BY PacketMade
  <2> HIDE DEF p
  <2>2. Sends(s, <<p>>) /\ at'[s] = "open" /\ remote' = remote /\ Open(s)
    BY <1>0, <1>1 DEF Begin, Goes, PushTypes, p
  <2>3. NotBegun(s)
    BY <1>0, <1>1 DEF Begin, Settled, Own, Late
  <2>4. Counted(s)'
    BY <2>1, <2>2, <2>3, BegunCounted
  <2>5. PushTypes'
    BY <1>0, <1>1, <2>1, <2>2, SendsOne DEF PushTypes, Begin, Goes, At
  <2>6. Own(s)'
    <3>1. /\ DOMAIN sent'[s] = 1 .. Len(sent[s]) + 1 /\ sent'[s][Len(sent[s]) + 1] = p
      BY <1>0, <2>1, <2>2, SendsOne
    <3>2. Len(sent[s]) = 0
      BY <2>3 DEF NotBegun
    <3> QED BY <2>1, <2>2, <3>1, <3>2 DEF Own
  <2> QED BY <2>4, <2>5, <2>6 DEF Settled
<1>2. CASE BeginOpened(s)
  <2> DEFINE p == Packet("SEND", remote[s])
  <2>1. p \in PacketTypes /\ p.what = "SEND" /\ p.remote = remote[s]
    BY <1>0, PacketMade DEF PushTypes
  <2> HIDE DEF p
  <2>2. Sends(s, <<p>>) /\ at'[s] = "send" /\ remote' = remote /\ Open(s)
    BY <1>0, <1>2 DEF BeginOpened, Goes, PushTypes, p
  <2>3. NotBegun(s)
    BY <1>0, <1>2 DEF BeginOpened, Settled, Own, Late
  <2>4. Counted(s)'
    BY <2>1, <2>2, <2>3, BegunCounted
  <2>5. PushTypes'
    BY <1>0, <1>2, <2>1, <2>2, SendsOne DEF PushTypes, BeginOpened, Goes, At
  <2>6. Late(s)'
    <3>1. /\ DOMAIN sent'[s] = 1 .. Len(sent[s]) + 1 /\ sent'[s][Len(sent[s]) + 1] = p
      BY <1>0, <2>1, <2>2, SendsOne
    <3>2. Len(sent[s]) = 0 /\ remote[s] = NoId
      BY <2>3 DEF NotBegun
    <3> QED BY <2>1, <2>2, <3>1, <3>2 DEF Late
  <2> QED BY <2>4, <2>5, <2>6 DEF Settled
<1>3. CASE OpenAcked(s)
  <2>1. at[s] = "open" /\ WaitAgain(s) /\ status[s] = "running"
    BY <1>3 DEF OpenAcked, WaitAgain
  <2>2. Own(s) /\ Len(given[s]) > 0
    BY <2>1, RunningOwns
  <2>3. RemoteIdOf(s) = DeviceIds[s]
    BY <2>2, RemoteIdRead
  <2> DEFINE p == Packet("SEND", DeviceIds[s])
  <2>4. p \in PacketTypes /\ p.what = "SEND" /\ p.remote = DeviceIds[s]
    BY <1>0, PacketMade
  <2> HIDE DEF p
  <2>5. /\ Sends(s, <<p>>) /\ at'[s] = "send" /\ remote'[s] = DeviceIds[s]
        /\ at' \in [Streams -> At] /\ remote' \in [Streams -> Nat \cup {NoId}]
    BY <1>0, <1>3, <2>3 DEF OpenAcked, Goes, PushTypes, p, At
  <2>6. Counted(s)'
    BY <2>1, <2>4, <2>5, AskedAndWaits
  <2>7. PushTypes'
    BY <1>0, <2>4, <2>5, SendsOne DEF PushTypes
  <2>8. Own(s)'
    BY <1>0, <2>2, <2>4, <2>5, SendsOne DEF Own
  <2> QED BY <2>6, <2>7, <2>8 DEF Settled
<1>4. CASE NextBlock(s) \/ EndOfFile(s)
  <2>1. /\ at[s] \in {"send", "data"} /\ WaitAgain(s) /\ status[s] = "running"
        /\ remote' = remote
    BY <1>4 DEF NextBlock, EndOfFile, WaitAgain
  <2>2. Own(s) /\ remote[s] = DeviceIds[s]
    BY <2>1, RunningOwns DEF Own
  <2>3. PICK p \in PacketTypes : /\ Sends(s, <<p>>) /\ p.remote = DeviceIds[s]
                                 /\ \/ p.what = "DATA" /\ at' = [at EXCEPT ![s] = "data"]
                                    \/ p.what = "DONE" /\ at' = [at EXCEPT ![s] = "done"]
    BY <1>0, <1>4, <2>2, PacketMade DEF NextBlock, EndOfFile, Goes
  <2>4. at' \in [Streams -> At] /\ at'[s] \in {"data", "done"}
    BY <1>0, <2>3 DEF PushTypes, At
  <2>5. Counted(s)'
    BY <2>1, <2>3, <2>4, AskedAndWaits
  <2>6. PushTypes'
    BY <1>0, <2>1, <2>3, <2>4, SendsOne DEF PushTypes
  <2>7. at'[s] = "done" => \E i \in Answerable(s)' : sent'[s][i].what = "DONE"
    <3> SUFFICES ASSUME at'[s] = "done" PROVE \E i \in Answerable(s)' : sent'[s][i].what = "DONE"
      OBVIOUS
    <3>1. p.what = "DONE"
      BY <1>0, <2>3 DEF PushTypes
    <3>2. Len(sent[s]) \in Nat
      BY <1>0 DEF PushTypes
    <3>3. /\ DOMAIN sent'[s] = 1 .. Len(sent[s]) + 1 /\ sent'[s][Len(sent[s]) + 1] = p
      BY <1>0, <2>3, SendsOne
    <3>4. Len(sent[s]) + 1 \in Answerable(s)'
      BY <2>3, <3>1, <3>2, <3>3 DEF Answerable
    <3> QED BY <3>1, <3>3, <3>4
  <2>8. Own(s)'
    BY <1>0, <2>1, <2>2, <2>3, <2>4, <2>7, SendsOne DEF Own
  <2> QED BY <2>5, <2>6, <2>8 DEF Settled
<1>5. CASE DoneAcked(s)
  <2>1. /\ at[s] = "done" /\ status[s] = "running" /\ Finish(s) /\ remote' = remote
        /\ at' = [at EXCEPT ![s] = "finished"]
    BY <1>5 DEF DoneAcked, Goes
  <2>2. Own(s) /\ remote[s] = DeviceIds[s] /\ Cardinality(Answerable(s)) <= Len(given[s])
    BY <2>1, RunningOwns DEF Own
  <2> DEFINE p == Packet("CLSE", remote[s])
  <2>3. p \in PacketTypes /\ Sends(s, <<p>>) /\ p.remote = DeviceIds[s] /\ p.what = "CLSE"
    BY <1>0, <1>5, <2>2, PacketMade DEF DoneAcked
  <2> HIDE DEF p
  <2>4. at' \in [Streams -> At] /\ at'[s] = "finished"
    BY <1>0, <2>1 DEF PushTypes, At
  <2>5. received' = received /\ given' = given /\ status'[s] = "done"
    BY <1>0, <2>1, Zero DEF Finish, sessionVars, TypeOK
  <2>6. Answerable(s)' = Answerable(s) /\ Answers(s)' = Answers(s)
    BY <1>0, <2>3, <2>5, AsksOne DEF Answers
  <2>7. Counted(s)'
    BY <1>0, <2>2, <2>5, <2>6 DEF Counted
  <2>8. PushTypes'
    BY <1>0, <2>1, <2>3, <2>4, SendsOne DEF PushTypes
  <2>9. \E i \in Answerable(s)' : sent'[s][i].what = "DONE"
    <3>1. PICK i \in Answerable(s) : sent[s][i].what = "DONE"
      BY <2>1, <2>2 DEF Own
    <3>2. i \in Answerable(s)' /\ sent'[s][i] = sent[s][i]
      BY <1>0, <2>3, <2>6, SendsOne DEF Answerable
    <3> QED BY <3>1, <3>2
  <2>10. Own(s)'
    <3>1. \A i \in DOMAIN sent'[s] : sent'[s][i].what = "OPEN" \/ sent'[s][i].remote = DeviceIds[s]
      BY <1>0, <2>2, <2>3, SendsOne DEF Own
    <3>2. remote'[s] = DeviceIds[s] /\ at'[s] # "start"
      BY <2>1, <2>2, <2>4
    <3> QED BY <2>9, <3>1, <3>2 DEF Own
  <2> QED BY <2>7, <2>8, <2>10 DEF Settled
<1>6. CASE OpenFailed(s) \/ NoFile(s) \/ GiveUp(s)
  <2>1. /\ at[s] \in {"open", "send", "data", "done"} /\ remote' = remote /\ sent' = sent
        /\ at' = [at EXCEPT ![s] = "failed"] /\ (Remove(s) \/ Finish(s))
    BY <1>6 DEF OpenFailed, NoFile, GiveUp, Goes
  <2>2. at' \in [Streams -> At] /\ at'[s] = "failed"
    BY <1>0, <2>1 DEF PushTypes, At
  <2>3. received' = received /\ given' = given /\ status'[s] = "done"
    BY <1>0, <2>1, Zero DEF Finish, Remove, sessionVars, TypeOK
  <2>4. PushTypes'
    BY <1>0, <2>1, <2>2 DEF PushTypes
  <2>5. Counted(s)'
    BY <1>0, <2>1, <2>2, <2>3, StillCounted DEF Served
  <2>6. Settled(s)'
    BY <1>0, <2>1, <2>2 DEF Settled, NotBegun, Own, Late
  <2> QED BY <2>4, <2>5, <2>6
<1> QED BY <1>1, <1>2, <1>3, <1>4, <1>5, <1>6 DEF Step

\* A step of s does not touch the handler's variables of the others.
LEMMA StepOfOne ==
  ASSUME PushTypes, NEW s \in Streams, Step(s), NEW t \in Streams, t # s
  PROVE  at'[t] = at[t] /\ remote'[t] = remote[t] /\ sent'[t] = sent[t]
  BY DEF PushTypes, Step, Begin, BeginOpened, OpenAcked, OpenFailed, NextBlock, EndOfFile, NoFile,
         DoneAcked, GiveUp, Sends, Goes

\* An answer, which the device owes.
LEMMA AnswerKeeps ==
  ASSUME IInv, TypeOK', PInv, NEW s \in Streams, Answer(s), NEW t \in Streams
  PROVE  Counted(t)'
<1>1. PushTypes /\ Counted(t) /\ TypeOK
  BY DEF PInv, Count, IInv
<1>2. /\ received' = Append(received, [cmd |-> "OKAY", arg1 |-> s])
      /\ UNCHANGED <<at, remote, sent, given, status>>
  BY DEF Answer, Receive, pushVars
<1>3. Answerable(t)' = Answerable(t)
  BY <1>2 DEF Answerable
<1> DEFINE n == Len(received) + 1
<1>4. /\ DOMAIN received' = DOMAIN received \cup {n} /\ n \notin DOMAIN received
      /\ received'[n].arg1 = s
      /\ \A i \in DOMAIN received : received'[i] = received[i]
  <2>1. received \in Seq(Message) /\ Len(received) \in Nat /\ DOMAIN received = 1 .. Len(received)
    BY <1>1 DEF TypeOK
  <2>2. /\ DOMAIN received' = 1 .. Len(received) + 1
        /\ received'[n] = [cmd |-> "OKAY", arg1 |-> s]
        /\ \A i \in 1 .. Len(received) : received'[i] = received[i]
    BY <1>2, <2>1
  <2> QED BY <2>1, <2>2
<1> HIDE DEF n
<1>5. Answers(t)' = IF t = s THEN Answers(t) \cup {n} ELSE Answers(t)
  BY <1>4 DEF Answers
<1>6. /\ IsFiniteSet(Answers(t)) /\ Cardinality(Answers(t)) \in Nat
      /\ Cardinality(Answerable(t)) \in Nat /\ Len(given[t]) \in Nat
  BY <1>1, Finite
<1>7. n \notin Answers(t)
  BY <1>4 DEF Answers
<1>8. t = s => Cardinality(Answers(t)') = Cardinality(Answers(t)) + 1
  BY <1>5, <1>6, <1>7, FS_AddElement
<1>9. t = s => Cardinality(Answers(t)) < Cardinality(Answerable(t))
  BY <1>6 DEF Answer, Owed
<1> QED BY <1>1, <1>2, <1>3, <1>5, <1>6, <1>8, <1>9 DEF Counted

-----------------------------------------------------------------------------
\* The invariant

LEMMA PushInitInv == PushInit => PInv
<1> SUFFICES ASSUME PushInit PROVE PInv
  OBVIOUS
<1>1. PushTypes
  BY EmptySeq DEF PushInit, PushTypes, At
<1>2. ASSUME NEW s \in Streams PROVE NotBegun(s)
  BY DEF PushInit, NotBegun
<1>3. ASSUME NEW s \in Streams PROVE Counted(s)
  <2>1. Answerable(s) = {} /\ Answers(s) = {}
    BY EmptySeq DEF PushInit, Init, Answerable, Answers
  <2>2. Cardinality({}) = 0
    BY FS_EmptySet
  <2>3. status[s] = "unborn" /\ Len(given[s]) = 0 /\ at[s] = "start"
    BY Zero, EmptySeq DEF PushInit, Init
  <2> QED BY <2>1, <2>2, <2>3 DEF Counted
<1> QED BY <1>1, <1>2, <1>3 DEF PInv, Course, Count

LEMMA PushNextInv ==
  ASSUME IInv, IInv', Ledger, PInv, [PushNext]_allVars
  PROVE  PInv'
<1>0. TypeOK /\ TypeOK' /\ PushTypes
  BY DEF IInv, PInv
<1>1. ASSUME NEW t \in Streams PROVE Served(t)
  BY PushNextUsesSession, AllServed, Zero
<1>2. CASE SessionStep \/ UNCHANGED allVars
  <2>1. received' = received /\ at' = at /\ remote' = remote /\ sent' = sent
    BY <1>2, OnlyAnswers DEF SessionStep, pushVars, allVars
  <2>2. ASSUME NEW t \in Streams PROVE Settled(t)' /\ Counted(t)'
    BY <1>0, <1>1, <2>1, OthersKeep
  <2>3. PushTypes'
    BY <1>0, <2>1 DEF PushTypes
  <2> QED BY <2>2, <2>3 DEF PInv, Course, Count, Settled
<1>3. ASSUME NEW s \in Streams, Step(s) PROVE PInv'
  <2>1. received' = received
    BY <1>3, OnlyAnswers
  <2>2. PushTypes' /\ Settled(s)' /\ Counted(s)'
    BY <1>0, <1>3, StepKeepsOwn
  <2>3. ASSUME NEW t \in Streams, t # s PROVE Settled(t)' /\ Counted(t)'
    <3>1. at'[t] = at[t] /\ remote'[t] = remote[t] /\ sent'[t] = sent[t]
      BY <1>0, <1>3, <2>3, StepOfOne
    <3> QED BY <1>0, <1>1, <2>1, <3>1, OthersKeep
  <2> QED BY <2>2, <2>3 DEF PInv, Course, Count, Settled
<1>4. ASSUME NEW s \in Streams, Answer(s) PROVE PInv'
  <2>1. at' = at /\ remote' = remote /\ sent' = sent
    BY <1>4 DEF Answer, pushVars
  <2>2. ASSUME NEW t \in Streams PROVE Counted(t)'
    BY <1>0, <1>4, AnswerKeeps
  <2>3. PushTypes' /\ Course'
    BY <2>1 DEF PInv, PushTypes, Course, NotBegun, Own, Late, Answerable
  <2> QED BY <2>2, <2>3 DEF PInv, Count
<1> QED BY <1>2, <1>3, <1>4 DEF PushNext

LEMMA PushSafety == PushSpec => [](IInv /\ Ledger /\ PInv)
<1>1. PushSpec => [](IInv /\ Ledger)
  BY Implements, SafetyLedger, PTL DEF UsesSession
<1>2. PushSpec => PInv /\ [][PushNext]_allVars
  BY PushInitInv, PTL DEF PushSpec
<1>3. IInv /\ IInv' /\ Ledger /\ PInv /\ [PushNext]_allVars => PInv'
  BY PushNextInv
<1> QED BY <1>1, <1>2, <1>3, PTL

(* The device's answers are at least the ones handed out, and the handler  *)
(* sends on only when all of them were: never two packets on the way.      *)
LEMMA OwedAtMostOne ==
  ASSUME IInv, Ledger, PInv, NEW s \in Streams
  PROVE  /\ Owed(s) \in {0, 1}
         /\ at[s] = "finished" => Owed(s) = 0
<1>1. TypeOK /\ PushTypes /\ Counted(s)
  BY DEF IInv, PInv, Count
<1>2. /\ Len(given[s]) \in Nat /\ Cardinality(Answerable(s)) \in Nat
      /\ Cardinality(Answers(s)) \in Nat
  BY <1>1, Finite
<1>3. Len(given[s]) <= Cardinality(Answers(s))
  BY <1>1, GivenAnswered
<1> QED BY <1>1, <1>2, <1>3 DEF Owed, Counted

(* At most one packet of a push is unanswered, for any number of pushes,   *)
(* blocks and messages.                                                    *)
THEOREM StopAndWait == PushSpec => []OneInFlight
<1>1. IInv /\ Ledger /\ PInv => OneInFlight
  BY OwedAtMostOne DEF OneInFlight
<1> QED BY <1>1, PushSafety, PTL

(* A push that is reported as finished had all of its packets acknowledged *)
(* by the device, DONE among them.                                         *)
THEOREM ReportedIsStored == PushSpec => []SuccessIsAcknowledged
<1>1. ASSUME IInv, Ledger, PInv PROVE SuccessIsAcknowledged
  <2> SUFFICES ASSUME NEW s \in Streams, at[s] = "finished"
               PROVE  Owed(s) = 0 /\ \E i \in Answerable(s) : sent[s][i].what = "DONE"
    BY DEF SuccessIsAcknowledged
  <2>1. Own(s)
    BY <1>1 DEF PInv, Course, NotBegun, Late
  <2> QED BY <1>1, <2>1, OwedAtMostOne DEF Own
<1> QED BY <1>1, PushSafety, PTL

(* Every packet of a push that sent OPEN goes to the stream the device     *)
(* opened for it.                                                          *)
THEOREM AddressedRight == PushSpec => []OwnStream
<1>1. ASSUME PInv PROVE OwnStream
  <2> SUFFICES ASSUME NEW s \in Streams, NEW i \in DOMAIN sent[s],
                      NEW j \in DOMAIN sent[s], sent[s][j].what = "OPEN"
               PROVE  sent[s][i].what = "OPEN" \/ sent[s][i].remote = DeviceIds[s]
    BY DEF OwnStream, SentOpen
  <2>1. ~NotBegun(s)
    BY EmptySeq DEF NotBegun
  <2>2. Own(s)
    BY <1>1, <2>1 DEF PInv, Course, Late
  <2> QED BY <2>2 DEF Own
<1> QED BY <1>1, PushSafety, PTL

\* The bound on the blocks is NextBlock's guard.
LEMMA BlocksBounded ==
  ASSUME PushTypes, NEW s \in Streams, NEW p \in PacketTypes, Sends(s, <<p>>),
         Blocks(s) <= MaxBlocks, p.what = "DATA" => Blocks(s) < MaxBlocks
  PROVE  Blocks(s)' <= MaxBlocks
<1> DEFINE n == Len(sent[s]) + 1
           B == {i \in DOMAIN sent[s] : sent[s][i].what = "DATA"}
<1>1. /\ DOMAIN sent'[s] = DOMAIN sent[s] \cup {n} /\ sent'[s][n] = p /\ n \notin DOMAIN sent[s]
      /\ \A i \in DOMAIN sent[s] : sent'[s][i] = sent[s][i]
      /\ DOMAIN sent[s] = 1 .. Len(sent[s]) /\ Len(sent[s]) \in Nat
  <2>1. Len(sent[s]) \in Nat
    BY DEF PushTypes
  <2> QED BY <2>1, SendsOne
<1> HIDE DEF n
<1>2. IsFiniteSet(DOMAIN sent[s])
  <2>1. IsFiniteSet(1 .. Len(sent[s]))
    BY <1>1, FS_Interval
  <2> QED BY <1>1, <2>1
<1>3. IsFiniteSet(B) /\ Cardinality(B) \in Nat
  <2>1. B \in SUBSET (DOMAIN sent[s])
    OBVIOUS
  <2> QED BY <1>2, <2>1, FS_Subset, FS_CardinalityType
<1>4. {i \in DOMAIN sent'[s] : sent'[s][i].what = "DATA"} = IF p.what = "DATA" THEN B \cup {n} ELSE B
  BY <1>1
<1>5. Blocks(s) = Cardinality(B)
  BY DEF Blocks
<1>6. Blocks(s)' = Cardinality(IF p.what = "DATA" THEN B \cup {n} ELSE B)
  BY <1>4 DEF Blocks
<1>7. Cardinality(B \cup {n}) <= Cardinality(B) + 1 /\ Cardinality(B \cup {n}) \in Nat
  <2>1. /\ IsFiniteSet(B \cup {n})
        /\ Cardinality(B \cup {n}) = IF n \in B THEN Cardinality(B) ELSE Cardinality(B) + 1
    BY <1>3, FS_AddElement
  <2> QED BY <1>3, <2>1
<1> HIDE DEF B
<1> QED BY <1>3, <1>5, <1>6, <1>7, BlocksAssumption

\* opened, bound and the number of blocks.
LEMMA PushTypeNext ==
  ASSUME IInv, Ledger, PInv, PInv', PushTypeOK, [PushNext]_allVars
  PROVE  PushTypeOK'
<1>0. PushTypes /\ PushTypes' /\ TypeOK
  BY DEF PInv, IInv
<1>1. ASSUME sent' = sent, opened' = opened, bound' = bound PROVE PushTypeOK'
  BY <1>0, <1>1 DEF PushTypeOK, PushTypes, Blocks
<1>2. CASE SessionStep \/ UNCHANGED allVars \/ \E s \in Streams : Answer(s)
  BY <1>1, <1>2 DEF SessionStep, Answer, allVars, pushVars
<1>3. ASSUME NEW s \in Streams, Step(s) PROVE PushTypeOK'
  <2>1. CASE OpenFailed(s) \/ NoFile(s) \/ GiveUp(s)
    BY <1>1, <2>1 DEF OpenFailed, NoFile, GiveUp
  <2>2. CASE Begin(s) \/ BeginOpened(s) \/ OpenAcked(s) \/ NextBlock(s) \/ EndOfFile(s) \/ DoneAcked(s)
    <3>1. opened' \in BOOLEAN
      BY <2>2 DEF PushTypeOK, Begin, BeginOpened, OpenAcked, NextBlock, EndOfFile, DoneAcked
    <3>2. OpenAcked(s) => RemoteIdOf(s) \in Nat
      <4> SUFFICES ASSUME OpenAcked(s) PROVE RemoteIdOf(s) \in Nat
        OBVIOUS
      <4>1. status[s] = "running" /\ at[s] = "open"
        BY DEF OpenAcked, WaitAgain
      <4> QED BY <4>1, RunningOwns, RemoteIdRead, DeviceIdsAssumption
    <3>3. bound' \in [Streams -> Nat \cup {NoId}]
      BY <1>0, <2>2, <3>2 DEF PushTypeOK, PushTypes, Begin, BeginOpened, OpenAcked, NextBlock,
                              EndOfFile, DoneAcked
    <3>4. PICK p \in PacketTypes : /\ Sends(s, <<p>>)
                                   /\ p.what = "DATA" => Blocks(s) < MaxBlocks
      <4>1. remote[s] \in Nat \cup {NoId} /\ 0 \in Nat \cup {NoId}
        BY <1>0 DEF PushTypes
      <4>2. CASE Begin(s)
        BY <4>1, <4>2, PacketMade DEF Begin
      <4>3. CASE BeginOpened(s)
        BY <4>1, <4>3, PacketMade DEF BeginOpened
      <4>4. CASE OpenAcked(s)
        BY <3>2, <4>4, PacketMade DEF OpenAcked
      <4>5. CASE NextBlock(s)
        BY <4>1, <4>5, PacketMade DEF NextBlock
      <4>6. CASE EndOfFile(s)
        BY <4>1, <4>6, PacketMade DEF EndOfFile
      <4>7. CASE DoneAcked(s)
        BY <4>1, <4>7, PacketMade DEF DoneAcked
      <4> QED BY <2>2, <4>2, <4>3, <4>4, <4>5, <4>6, <4>7
    <3>5. Blocks(s)' <= MaxBlocks
      BY <1>0, <3>4, BlocksBounded DEF PushTypeOK
    <3>6. \A t \in Streams : t # s => Blocks(t)' = Blocks(t)
      BY <1>0, <3>4, SendsOne DEF Blocks
    <3> QED BY <1>0, <3>1, <3>3, <3>5, <3>6 DEF PushTypeOK, PushTypes
  <2> QED BY <1>3, <2>1, <2>2 DEF Step
<1> QED BY <1>2, <1>3 DEF PushNext

(* The variables keep their types and a file has no more blocks than the   *)
(* bound, whatever the ids the device chooses.                             *)
THEOREM PushTypeCorrect == PushSpec => []PushTypeOK
<1>1. ASSUME PushInit PROVE PushTypeOK
  <2>1. ASSUME NEW s \in Streams PROVE Blocks(s) <= MaxBlocks
    <3>1. {i \in DOMAIN sent[s] : sent[s][i].what = "DATA"} = {}
      BY <1>1, EmptySeq DEF PushInit
    <3>2. Blocks(s) = 0
      BY <3>1, FS_EmptySet, Zenon DEF Blocks
    <3> QED BY <3>2, BlocksAssumption
  <2> QED BY <1>1, <2>1 DEF PushInit, PushTypeOK, At
<1>2. PushSpec => PushInit /\ [][PushNext]_allVars
  BY PTL DEF PushSpec
<1>3. IInv /\ Ledger /\ PInv /\ PInv' /\ PushTypeOK /\ [PushNext]_allVars => PushTypeOK'
  BY PushTypeNext
<1> QED BY <1>1, <1>2, <1>3, PushSafety, PTL

-----------------------------------------------------------------------------
(***************************************************************************)
(* A push and the device never wait for each other.  Beside PInv: while a  *)
(* push that opened its stream waits in time, it asked for one answer more *)
(* than it was given, and nothing but OKAY ever comes.                     *)
(***************************************************************************)

OneAhead ==
  \A s \in Streams : SentOpen(s) /\ status[s] = "waiting" =>
    Cardinality(Answerable(s)) = Len(given[s]) + 1

OnlyOkays == \A n \in DOMAIN received : Cmd(n) = "OKAY"

(* The device has not answered the last packet, or the answer is in the    *)
(* queue and checkWaiters about to hand it over.                           *)
NeverBothWait ==
  \A s \in Streams : status[s] = "waiting" /\ SentOpen(s) => Owed(s) = 1 \/ AnswerFound(s)

\* A packet the device answers is one more to answer.
LEMMA AsksAnother ==
  ASSUME TypeOK, PushTypes, NEW s \in Streams, NEW p \in PacketTypes, Sends(s, <<p>>),
         p.what = "OPEN" \/ (p.what \in {"SEND", "DATA", "DONE"} /\ p.remote = DeviceIds[s])
  PROVE  Cardinality(Answerable(s)') = Cardinality(Answerable(s)) + 1
<1> DEFINE n == Len(sent[s]) + 1
<1>1. /\ DOMAIN sent'[s] = DOMAIN sent[s] \cup {n} /\ sent'[s][n] = p /\ n \notin DOMAIN sent[s]
      /\ \A i \in DOMAIN sent[s] : sent'[s][i] = sent[s][i]
  <2>1. Len(sent[s]) \in Nat
    BY DEF PushTypes
  <2> QED BY <2>1, SendsOne
<1> HIDE DEF n
<1>2. Answerable(s)' = Answerable(s) \cup {n} /\ n \notin Answerable(s)
  BY <1>1 DEF Answerable
<1>3. IsFiniteSet(Answerable(s)) /\ Cardinality(Answerable(s)) \in Nat
  BY Finite
<1> QED BY <1>2, <1>3, FS_AddElement

\* A push that runs has all its answers.
LEMMA RunningLevel ==
  ASSUME IInv, Ledger, PInv, NEW s \in Streams, status[s] = "running", at[s] # "start"
  PROVE  Cardinality(Answerable(s)) = Len(given[s])
<1>1. PushTypes /\ Counted(s) /\ TypeOK
  BY DEF PInv, Count, IInv
<1>2. /\ Len(given[s]) \in Nat /\ Cardinality(Answerable(s)) \in Nat
      /\ Cardinality(Answers(s)) \in Nat
  BY <1>1, Finite
<1>3. Cardinality(Answerable(s)) <= Len(given[s])
  BY RunningOwns
<1>4. Len(given[s]) <= Cardinality(Answerable(s))
  BY <1>1, <1>2, GivenAnswered DEF Counted
<1> QED BY <1>2, <1>3, <1>4

\* One that has not begun was given nothing.
LEMMA NotBegunLevel ==
  ASSUME IInv, Ledger, PInv, NEW s \in Streams, NotBegun(s)
  PROVE  Cardinality(Answerable(s)) = 0 /\ Len(given[s]) = 0
<1>1. PushTypes /\ Counted(s) /\ TypeOK
  BY DEF PInv, Count, IInv
<1>2. /\ Len(given[s]) \in Nat /\ Cardinality(Answers(s)) \in Nat
  BY <1>1, Finite
<1>3. Answerable(s) = {}
  BY EmptySeq DEF Answerable, NotBegun
<1>4. Cardinality(Answerable(s)) = 0
  BY <1>3, FS_EmptySet
<1> QED BY <1>1, <1>2, <1>4, GivenAnswered DEF Counted

\* A push begins to wait with a step of its own, which sends a packet.
LEMMA OwnWaits ==
  ASSUME IInv, PushTypes, [PushNext]_allVars, NEW s \in Streams, status[s] # "waiting",
         status'[s] = "waiting"
  PROVE  Begin(s) \/ BeginOpened(s) \/ OpenAcked(s) \/ NextBlock(s) \/ EndOfFile(s)
<1>0. TypeOK
  BY DEF IInv
<1>1. ASSUME NEW t \in Streams, t # s, Step(t) PROVE FALSE
  <2>1. ASSUME NEW cmds, CoWait(t, cmds) PROVE status'[s] = status[s]
    BY <1>0, <1>1, <2>1, CoWaitServes, Zero
  <2>2. CASE Begin(t) \/ BeginOpened(t)
    BY <1>0, <1>1, <2>2, Zero DEF Begin, BeginOpened, Open, AddWaiter, TypeOK
  <2>3. CASE OpenAcked(t) \/ NextBlock(t) \/ EndOfFile(t)
    BY <2>1, <2>3 DEF OpenAcked, NextBlock, EndOfFile, WaitAgain
  <2>4. CASE OpenFailed(t) \/ NoFile(t) \/ DoneAcked(t) \/ GiveUp(t)
    BY <1>0, <1>1, <2>4, Zero DEF OpenFailed, NoFile, DoneAcked, GiveUp, Remove, Finish, TypeOK
  <2> QED BY <1>1, <2>2, <2>3, <2>4 DEF Step
<1>2. ~(OpenFailed(s) \/ NoFile(s) \/ DoneAcked(s) \/ GiveUp(s))
  BY <1>0, Zero DEF OpenFailed, NoFile, DoneAcked, GiveUp, Remove, Finish, TypeOK
<1>3. ~SessionStep
  <2>1. ASSUME ConnectWait PROVE FALSE
    BY <1>0, <2>1, CoWaitServes, Zero DEF ConnectWait, ConnectWaitFor
  <2>2. ~StartConnect /\ ~CheckWaiters /\ ~\E t \in Streams : Expire(t) \/ TimeOut(t)
    BY <1>0, Zero DEF StartConnect, CheckWaiters, CheckExpired, CheckMatch, CheckNext, CheckEnd,
       HandOver, Expire, TimeOut, TypeOK
  <2> QED BY <2>1, <2>2 DEF SessionStep
<1>4. ~(\E t \in Streams : Answer(t)) /\ ~UNCHANGED allVars
  BY DEF Answer, Receive, allVars, vars
<1> QED BY <1>1, <1>2, <1>3, <1>4 DEF PushNext, Step

\* A wait that goes on leaves the push where it is.
LEMMA WaitsOn ==
  ASSUME IInv, PushTypes, [PushNext]_allVars, NEW s \in Streams, status[s] = "waiting",
         status'[s] = "waiting"
  PROVE  sent'[s] = sent[s] /\ given'[s] = given[s]
<1>1. given'[s] = given[s]
  BY PushNextUsesSession, AllServed, Zero DEF Served
<1>2. ~Step(s)
  BY DEF Step, Begin, BeginOpened, OpenAcked, OpenFailed, NextBlock, EndOfFile, NoFile, DoneAcked,
     GiveUp, Open, WaitAgain, Remove, Finish
<1>3. ASSUME NEW t \in Streams, Step(t) PROVE sent'[s] = sent[s]
  BY <1>2, <1>3, StepOfOne
<1>4. CASE SessionStep \/ (\E t \in Streams : Answer(t)) \/ UNCHANGED allVars
  BY <1>1, <1>4 DEF SessionStep, Answer, pushVars, allVars
<1> QED BY <1>1, <1>3, <1>4 DEF PushNext

\* The packet and the wait for its answer go together.
LEMMA OneAheadKept ==
  ASSUME IInv, Ledger, PInv, OneAhead, [PushNext]_allVars
  PROVE  OneAhead'
<1> SUFFICES ASSUME NEW s \in Streams, SentOpen(s)', status'[s] = "waiting"
             PROVE  Cardinality(Answerable(s)') = Len(given'[s]) + 1
  BY DEF OneAhead
<1>0. PushTypes /\ Settled(s) /\ TypeOK
  BY DEF PInv, Course, Settled, IInv
<1>1. CASE status[s] = "waiting"
  <2>1. sent'[s] = sent[s] /\ given'[s] = given[s]
    BY <1>0, <1>1, WaitsOn
  <2> QED BY <1>1, <2>1 DEF OneAhead, SentOpen, Answerable
<1>2. CASE status[s] # "waiting"
  <2>1. given'[s] = given[s]
    BY <1>2, PushNextUsesSession, AllServed, Zero DEF Served
  <2>2. CASE Begin(s)
    <3>1. NotBegun(s)
      BY <1>0, <2>2 DEF Begin, Settled, Own, Late
    <3>2. Packet("OPEN", 0) \in PacketTypes /\ Packet("OPEN", 0).what = "OPEN"
      BY PacketMade
    <3>3. Cardinality(Answerable(s)') = Cardinality(Answerable(s)) + 1
      BY <1>0, <2>2, <3>2, AsksAnother DEF Begin
    <3> QED BY <2>1, <3>1, <3>3, NotBegunLevel
  <2>3. ~BeginOpened(s)
    <3> SUFFICES ASSUME BeginOpened(s) PROVE FALSE
      OBVIOUS
    <3>1. NotBegun(s)
      BY <1>0 DEF BeginOpened, Settled, Own, Late
    <3> DEFINE p == Packet("SEND", remote[s])
    <3>2. p \in PacketTypes /\ p.what = "SEND"
      BY <1>0, PacketMade DEF PushTypes
    <3> HIDE DEF p
    <3>3. Sends(s, <<p>>)
      BY DEF BeginOpened, p
    <3>4. DOMAIN sent'[s] = 1 .. Len(sent[s]) + 1 /\ sent'[s][Len(sent[s]) + 1] = p
      BY <1>0, <3>2, <3>3, SendsOne
    <3>5. Len(sent[s]) = 0
      BY <3>1 DEF NotBegun
    <3> QED BY <3>2, <3>4, <3>5 DEF SentOpen
  <2>4. CASE OpenAcked(s) \/ NextBlock(s) \/ EndOfFile(s)
    <3>1. status[s] = "running" /\ at[s] \in {"open", "send", "data"}
      BY <2>4 DEF OpenAcked, NextBlock, EndOfFile, WaitAgain
    <3>2. Own(s) /\ RemoteIdOf(s) = DeviceIds[s] /\ DeviceIds[s] \in Nat
      BY <3>1, RunningOwns, RemoteIdRead, DeviceIdsAssumption
    <3>3. PICK p \in PacketTypes : /\ Sends(s, <<p>>) /\ p.remote = DeviceIds[s]
                                   /\ p.what \in {"SEND", "DATA", "DONE"}
      <4>0. ASSUME NEW what \in {"SEND", "DATA", "DONE"}
            PROVE  /\ Packet(what, DeviceIds[s]) \in PacketTypes
                   /\ Packet(what, DeviceIds[s]).what = what
                   /\ Packet(what, DeviceIds[s]).remote = DeviceIds[s]
        BY <3>2, PacketMade
      <4>1. CASE OpenAcked(s)
        <5>1. Sends(s, <<Packet("SEND", DeviceIds[s])>>)
          BY <3>2, <4>1 DEF OpenAcked
        <5> QED BY <4>0, <5>1
      <4>2. CASE NextBlock(s) \/ EndOfFile(s)
        <5>1. remote[s] = DeviceIds[s]
          BY <3>2, <4>2 DEF Own, NextBlock, EndOfFile
        <5>2. \/ Sends(s, <<Packet("DATA", DeviceIds[s])>>)
              \/ Sends(s, <<Packet("DONE", DeviceIds[s])>>)
          BY <4>2, <5>1 DEF NextBlock, EndOfFile
        <5> QED BY <4>0, <5>2
      <4> QED BY <2>4, <4>1, <4>2
    <3>4. Cardinality(Answerable(s)') = Cardinality(Answerable(s)) + 1
      BY <1>0, <3>3, AsksAnother
    <3> QED BY <2>1, <3>1, <3>4, RunningLevel
  <2> QED BY <1>0, <1>2, <2>2, <2>3, <2>4, OwnWaits
<1> QED BY <1>1, <1>2

LEMMA OkaysKept == ASSUME TypeOK, OnlyOkays, [PushNext]_allVars PROVE OnlyOkays'
<1>1. ASSUME NEW s \in Streams, Answer(s) PROVE OnlyOkays'
  <2>1. received \in Seq(Message) /\ Len(received) \in Nat /\ DOMAIN received = 1 .. Len(received)
    BY DEF TypeOK
  <2>2. received' = Append(received, [cmd |-> "OKAY", arg1 |-> s])
    BY <1>1 DEF Answer
  <2>3. /\ DOMAIN received' = 1 .. Len(received) + 1
        /\ received'[Len(received) + 1].cmd = "OKAY"
        /\ \A i \in 1 .. Len(received) : received'[i] = received[i]
    BY <2>1, <2>2
  <2> QED BY <2>1, <2>3 DEF OnlyOkays, Cmd
<1>2. CASE received' = received
  BY <1>2 DEF OnlyOkays, Cmd
<1> QED BY <1>1, <1>2, OnlyAnswers DEF PushNext

\* When more answers came than were handed out, one is left.
LEMMA AnswerLeft ==
  ASSUME TypeOK, PushTypes, NEW s \in Streams, Cardinality(Answers(s)) = Len(given[s]) + 1
  PROVE  \E n \in Answers(s) : \A i \in DOMAIN given[s] : given[s][i] # n
<1> SUFFICES ASSUME \A n \in Answers(s) : \E i \in DOMAIN given[s] : given[s][i] = n
             PROVE  FALSE
  OBVIOUS
<1>1. DOMAIN given[s] = 1 .. Len(given[s]) /\ Len(given[s]) \in Nat
  BY Zero DEF TypeOK
<1>2. IsFiniteSet(1 .. Len(given[s])) /\ Cardinality(1 .. Len(given[s])) = Len(given[s])
  BY <1>1, FS_Interval
<1>3. IsFiniteSet(Answers(s)) /\ Cardinality(Answers(s)) \in Nat
  BY Finite
<1> DEFINE f == [n \in Answers(s) |-> CHOOSE i \in 1 .. Len(given[s]) : given[s][i] = n]
<1>4. \A n \in Answers(s) : f[n] \in 1 .. Len(given[s]) /\ given[s][f[n]] = n
  BY <1>1
<1>5. f \in [Answers(s) -> 1 .. Len(given[s])]
  BY <1>4
<1>6. \A m, n \in Answers(s) : f[m] = f[n] => m = n
  BY <1>4
<1> HIDE DEF f
<1>7. ~(Cardinality(1 .. Len(given[s])) < Cardinality(Answers(s)))
  BY <1>2, <1>3, <1>5, <1>6, FS_PigeonHole
<1> QED BY <1>1, <1>2, <1>3, <1>7

\* It is in the queue of the stream, and whoever waits there wants it.
LEMMA AnswerQueued ==
  ASSUME IInv, Ledger, OnlyOkays, NEW s \in Streams, status[s] = "waiting", NEW n \in Answers(s),
         \A i \in DOMAIN given[s] : given[s][i] # n, NEW cmds \in DataWaits
  PROVE  FirstMatch(cmds, Deque(s)) # {}
<1>1. s \in contexts
  BY OwnQueue DEF IInv
<1>2. n \in DOMAIN received /\ received[n].arg1 = s /\ Cmd(n) = "OKAY"
  BY DEF Answers, OnlyOkays
<1>3. "OKAY" \in cmds /\ "OKAY" \in Data /\ "OKAY" \notin Control
  BY OkayAssumption, WaitsAssumption, CommandsAssumption
<1>4. \A i \in DOMAIN pending : pending[i] # n
  BY <1>1, <1>2, <1>3 DEF Ledger, PendingApart
<1>5. \A c \in Clients : \A i \in DOMAIN given[c] : given[c][i] # n
  BY <1>2, <1>3 DEF IInv, GivenRight, Wanted
<1>6. \A t \in Streams : \A i \in DOMAIN queue[t] : queue[t][i] = n => t = s
  BY <1>2 DEF IInv, QueuesHold
<1>7. PICK i \in DOMAIN queue[s] : queue[s][i] = n
  BY <1>1, <1>2, <1>4, <1>5, <1>6 DEF Ledger, Held, Somewhere
<1>8. queue[s] \in Seq(Nat) /\ DOMAIN queue[s] = 1 .. Len(queue[s]) /\ Len(queue[s]) \in Nat
  BY DEF IInv, TypeOK
<1>9. 1 \in DOMAIN queue[s] /\ \A j \in DOMAIN queue[s] : ~(j < 1)
  BY <1>7, <1>8
<1>10. Cmd(queue[s][1]) = "OKAY"
  BY <1>9 DEF IInv, QueuesHold, OnlyOkays
<1>11. Deque(s) = queue[s]
  BY <1>1 DEF Deque
<1> QED BY <1>3, <1>9, <1>10, <1>11 DEF FirstMatch

(* While a push that opened its stream waits in time, the device has yet   *)
(* to answer its last packet, or the answer is there and checkWaiters      *)
(* about to hand it over: the two never wait for each other.               *)
THEOREM NoPushStandstill == PushSpec => []NeverBothWait
<1>1. ASSUME IInv, Ledger, PInv, NoWaitForgotten, OneAhead, OnlyOkays PROVE NeverBothWait
  <2> SUFFICES ASSUME NEW s \in Streams, status[s] = "waiting", SentOpen(s), Owed(s) # 1
               PROVE  AnswerFound(s)
    BY DEF NeverBothWait
  <2>1. TypeOK /\ PushTypes
    BY <1>1 DEF IInv, PInv
  <2>2. /\ Len(given[s]) \in Nat /\ Cardinality(Answerable(s)) \in Nat
        /\ Cardinality(Answers(s)) \in Nat
    BY <2>1, Finite
  <2>3. Owed(s) = 0
    BY <1>1, OwedAtMostOne
  <2>4. Cardinality(Answers(s)) = Len(given[s]) + 1
    BY <1>1, <2>2, <2>3 DEF Owed, OneAhead
  <2>5. PICK n \in Answers(s) : \A i \in DOMAIN given[s] : given[s][i] # n
    BY <2>1, <2>4, AnswerLeft
  <2>6. PICK cmds \in DataWaits : WaiterThere(s, cmds)
    BY <1>1, Zero DEF NoWaitForgotten, WaitsOf
  <2>7. FirstMatch(cmds, Deque(s)) # {}
    BY <1>1, <2>5, AnswerQueued
  <2> QED BY <1>1, <2>6, <2>7, ScanFinds, Zero
<1>2. PushInit => OneAhead /\ OnlyOkays
  BY EmptySeq, Zero DEF PushInit, Init, OneAhead, OnlyOkays, SentOpen
<1>3. PushSpec => [](IInv /\ NoWaitForgotten)
  BY Implements, SafetyWaits, PTL DEF UsesSession
<1>4. IInv /\ Ledger /\ PInv /\ OneAhead /\ OnlyOkays /\ [PushNext]_allVars => OneAhead' /\ OnlyOkays'
  BY OneAheadKept, OkaysKept DEF IInv
<1>5. PushSpec => PushInit /\ [][PushNext]_allVars
  BY PTL DEF PushSpec
<1> QED BY <1>1, <1>2, <1>3, <1>4, <1>5, PushSafety, PTL
=============================================================================
