-------------------------- MODULE WifiAuth_proofs --------------------------
(***************************************************************************)
(* Every step of the handshake is a step DeviceSession allows client 0, so *)
(* what DeviceSession guarantees holds of the handshake too, beside any    *)
(* number of command handlers.  With it, that the handshake reads its      *)
(* answers right: the k-th message it is handed answers its k-th packet.   *)
(***************************************************************************)
EXTENDS WifiAuth, DeviceSession_proofs

LEMMA AuthNextUsesSession == [AuthNext]_allVars => [Next]_vars
<1> SUFFICES ASSUME [AuthNext]_allVars PROVE [Next]_vars
  OBVIOUS
<1>1. CASE EnterAuth
  BY <1>1 DEF EnterAuth, Next
<1>2. CASE AuthReturns \/ HandleAuthToken \/ HandleAuthRejected
  <2>1. \E cmds \in ControlWaits : ConnectWaitFor(cmds)
    BY <1>2, AuthAssumption DEF AuthReturns, HandleAuthToken, HandleAuthRejected
  <2> QED BY <2>1 DEF Next, ConnectWait
<1>3. CASE HandleAuthAccepted
  BY <1>3, Zero DEF HandleAuthAccepted, Next
<1>4. CASE DeviceReplies \/ DeviceServes
  BY <1>4 DEF DeviceReplies, DeviceServes, Next
<1>5. CASE SessionStep
  BY <1>5, Zero DEF SessionStep, Next
<1>6. CASE UNCHANGED allVars
  BY <1>6 DEF allVars
<1> QED BY <1>1, <1>2, <1>3, <1>4, <1>5, <1>6 DEF AuthNext, Callback

(* The handshake, the handlers and the device together keep to what        *)
(* DeviceSession says of its clients and its device.                       *)
THEOREM Implements == AuthSpec => UsesSession
<1>1. AuthInit => Init
  BY DEF AuthInit
<1> QED BY <1>1, AuthNextUsesSession, PTL DEF AuthSpec, UsesSession

(* No answer of the handshake is missed because a message came before its  *)
(* wait, or given to a command handler, and a CNXN whose largest payload   *)
(* equals the number of a stream still reaches the handshake.              *)
THEOREM AuthIsServed ==
  AuthSpec => [](NoMissedMatch /\ RightStream /\ ReadLoopSurvives /\ ExactlyOnce /\ OrderKept)
<1>1. AuthSpec => [](IInv /\ Ledger)
  BY Implements, SafetyLedger, PTL DEF UsesSession
<1>2. IInv /\ Ledger =>
        NoMissedMatch /\ RightStream /\ ReadLoopSurvives /\ ExactlyOnce /\ OrderKept
  BY Consequences, OnceConsequence, InOrderConsequence
<1> QED BY <1>1, <1>2, PTL

-----------------------------------------------------------------------------
\* The inductive invariant of the handshake, beside that of DeviceSession

Alphabet == {"CNXN", "SIGNATURE", "PUBLIC KEY"}
Handshake == <<"CNXN", "SIGNATURE", "PUBLIC KEY">>
InTurn == \A k \in DOMAIN outbox : outbox[k] = Handshake[k]
IsControl(n) == Cmd(n) \in Control
Heeds(packet, n) == \E m \in Reply(packet) : m.cmd = Cmd(n)

(* What is sent is one packet ahead of what was handed to the handshake    *)
(* while it waits, and level with it while a callback runs.                *)
Progress ==
  /\ at = "start" => status[0] \in {"unborn", "starting"}
  /\ at # "start" => status[0] \in {"waiting", "overdue", "running", "done"}
  /\ deviceState = "authenticating" => status[0] = "starting"
  /\ at = "accepted" <=> status[0] = "done"
  /\ status[0] = "unborn" => Len(given[0]) = 0
  /\ status[0] = "starting" => Len(outbox) = 1
  /\ Len(outbox) = IF status[0] \in {"unborn", "running", "done"}
                     THEN Len(given[0]) ELSE Len(given[0]) + 1
  /\ InTurn
  /\ at = "token" => Len(outbox) = 1
  /\ at = "verdict" => Len(outbox) = 2
  /\ at = "key" => Len(outbox) = 3

(* The k-th message of the handshake answers its k-th packet; at most one  *)
(* is on the way, and it is in pendingMessages.                            *)
Replied ==
  /\ heard \in {Len(given[0]), Len(given[0]) + 1} /\ heard <= Len(outbox)
  /\ \A k \in DOMAIN given[0] : Heeds(outbox[k], given[0][k])
  /\ \A i \in DOMAIN pending : IsControl(pending[i]) =>
       /\ heard = Len(given[0]) + 1 /\ Heeds(outbox[heard], pending[i])
       /\ \A j \in DOMAIN pending : IsControl(pending[j]) => i = j
  /\ \A n \in DOMAIN received : Cmd(n) = Connect => online

(* The device has shown what it is.                                        *)
Shown ==
  /\ \A i \in DOMAIN waiters[0] : Fresh(0, i) /\ at = "token" => waiters[0][i].cmds = {Auth}
  /\ status[0] = "running" /\ at = "token" => Cmd(given[0][1]) = Auth
  /\ at \in {"verdict", "key"} => device # "open"
  /\ at = "key" => device # "trusting"
  /\ at = "accepted" => online

HInv == AuthTypeOK /\ Progress /\ Replied /\ Shown

\* The default stream has no context: the handshake's queue is pendingMessages.
LEMMA DefaultQueue == ASSUME TypeOK PROVE Deque(0) = pending /\ 0 \notin contexts
  BY Zero DEF TypeOK, Deque

LEMMA PacketSent ==
  ASSUME AuthTypeOK, NEW p \in Alphabet, Sends(p)
  PROVE  /\ outbox' \in Seq(Alphabet)
         /\ Len(outbox) \in Nat /\ DOMAIN outbox = 1 .. Len(outbox)
         /\ Len(outbox') = Len(outbox) + 1 /\ DOMAIN outbox' = 1 .. Len(outbox) + 1
         /\ outbox'[Len(outbox) + 1] = p
         /\ \A k \in DOMAIN outbox : outbox'[k] = outbox[k]
<1>1. outbox \in Seq(Alphabet) /\ outbox' = Append(outbox, p)
  BY DEF AuthTypeOK, Sends, Alphabet
<1>2. Len(outbox) \in Nat /\ DOMAIN outbox = 1 .. Len(outbox)
  BY <1>1
<1> QED BY <1>1, <1>2, AppendSeq

-----------------------------------------------------------------------------
\* Steps the handshake does not take part in

\* Nothing of the handshake moves, and waiters of client 0 only disappear.
Aside ==
  /\ pending' = pending /\ received' = received
  /\ given'[0] = given[0] /\ status'[0] = status[0]
  /\ \A j \in DOMAIN waiters'[0] : \E k \in DOMAIN waiters[0] : waiters'[0][j] = waiters[0][k]

LEMMA AsideKeeps ==
  ASSUME HInv, UNCHANGED authVars, Aside
  PROVE  HInv'
<1>1. AuthTypeOK' /\ Progress'
  BY DEF HInv, authVars, Aside, AuthTypeOK, Progress, InTurn
<1>2. Replied'
  BY DEF HInv, authVars, Aside, Replied, Heeds, Reply, IsControl, Cmd
<1>3. Shown'
  BY DEF HInv, authVars, Aside, Shown, Fresh, Cmd
<1> QED BY <1>1, <1>2, <1>3 DEF HInv

LEMMA HandlersAside ==
  ASSUME IInv, NEW s \in Streams, Handler(s) \/ Finish(s)
  PROVE  Aside
<1>0. TypeOK /\ StreamStatus /\ s # 0 /\ s \in Clients /\ 0 \in Clients
  BY Zero DEF IInv
<1>1. CASE Open(s)
  BY <1>0, <1>1 DEF Open, AddWaiter, TypeOK, Aside
<1>2. CASE WaitAgain(s)
  <2>1. s \in contexts /\ received' = received
    BY <1>0, <1>2, OwnQueue DEF WaitAgain
  <2>2. PICK cmds \in DataWaits : CoWait(s, cmds)
    BY <1>2 DEF WaitAgain
  <2>3. CASE /\ \E i \in FirstMatch(cmds, Deque(s)) : HandOver(s, i)
             /\ UNCHANGED <<waiters, listed>>
    BY <1>0, <2>1, <2>3 DEF HandOver, TypeOK, Aside
  <2>4. CASE AddWaiter(s, cmds) /\ UNCHANGED <<given, queue, pending>>
    BY <1>0, <2>1, <2>4 DEF AddWaiter, TypeOK, Aside
  <2> QED BY <2>2, <2>3, <2>4 DEF CoWait
<1>3. CASE Remove(s) \/ TimeOut(s) \/ Finish(s)
  BY <1>0, <1>3 DEF Remove, TimeOut, Finish, sessionVars, TypeOK, Aside
<1> QED BY <1>1, <1>2, <1>3 DEF Handler

\* An expiry of the handshake's wait ends the chain of callbacks.
LEMMA ExpiryKeeps ==
  ASSUME IInv, HInv, UNCHANGED authVars, NEW c \in Clients, Expire(c)
  PROVE  HInv'
<1>0. TypeOK /\ 0 \in Clients
  BY Zero DEF IInv
<1>1. CASE c # 0
  <2>1. Aside
    BY <1>0, <1>1 DEF Expire, TypeOK, Aside
  <2> QED BY <2>1, AsideKeeps
<1>2. CASE c = 0
  <2>1. /\ status[0] = "waiting" /\ status'[0] = "overdue"
        /\ UNCHANGED <<received, pending, given>>
        /\ \A j \in DOMAIN waiters'[0] : waiters'[0][j].late
    BY <1>0, <1>2 DEF Expire, TypeOK
  <2>2. AuthTypeOK' /\ Progress'
    BY <2>1 DEF HInv, authVars, AuthTypeOK, Progress, InTurn
  <2>3. Replied'
    BY <2>1 DEF HInv, authVars, Replied, Heeds, Reply, IsControl, Cmd
  <2>4. Shown'
    BY <2>1 DEF HInv, authVars, Shown, Fresh, Cmd
  <2> QED BY <2>2, <2>3, <2>4 DEF HInv
<1> QED BY <1>1, <1>2

-----------------------------------------------------------------------------
\* The handshake is handed its message

LEMMA ReplyTaken ==
  ASSUME IInv, AuthTypeOK, Replied, NEW cmds \in SUBSET Control,
         NEW i \in FirstMatch(cmds, Deque(0)), HandOver(0, i),
         UNCHANGED <<received, outbox, heard, device, online>>
  PROVE  /\ Replied' /\ heard = Len(given[0]) + 1
         /\ Len(given[0]) \in Nat /\ Len(given'[0]) = Len(given[0]) + 1
         /\ Cmd(given'[0][Len(given[0]) + 1]) \in cmds
         /\ status'[0] = "running"
<1>1. TypeOK /\ 0 \in Clients
  BY Zero DEF IInv
<1>2. /\ Deque(0) = pending /\ 0 \notin contexts /\ pending \in Seq(Nat) /\ i \in DOMAIN pending
      /\ Cmd(pending[i]) \in cmds /\ IsControl(pending[i]) /\ pending[i] \in Nat
  <2>1. pending \in Seq(Nat) /\ i \in DOMAIN pending /\ Cmd(pending[i]) \in cmds
    BY <1>1, DefaultQueue DEF FirstMatch, TypeOK
  <2> QED BY <1>1, <2>1, DefaultQueue DEF IsControl
<1>3. /\ given' = [given EXCEPT ![0] = Append(given[0], pending[i])]
      /\ status' = [status EXCEPT ![0] = "running"] /\ pending' = Without(pending, i)
  BY <1>2 DEF HandOver
<1>4. given[0] \in Seq(Nat) /\ given'[0] = Append(given[0], pending[i]) /\ status'[0] = "running"
  BY <1>1, <1>3 DEF TypeOK
<1>5. /\ Len(given[0]) \in Nat /\ Len(given'[0]) = Len(given[0]) + 1
      /\ DOMAIN given[0] = 1 .. Len(given[0]) /\ DOMAIN given'[0] = 1 .. Len(given[0]) + 1
      /\ given'[0][Len(given[0]) + 1] = pending[i]
      /\ \A k \in DOMAIN given[0] : given'[0][k] = given[0][k]
  BY <1>2, <1>4, AppendSeq
<1>6. heard = Len(given[0]) + 1 /\ Heeds(outbox[heard], pending[i])
  BY <1>2 DEF Replied
<1>7. ASSUME NEW j \in DOMAIN pending' PROVE ~IsControl(pending'[j])
  <2>1. PICK k \in DOMAIN pending : k # i /\ pending'[j] = pending[k]
    BY <1>2, <1>3, WithoutSeq
  <2> QED BY <1>2, <2>1 DEF Replied, IsControl
<1>8. \A k \in DOMAIN given'[0] : Heeds(outbox[k], given'[0][k])
  BY <1>5, <1>6 DEF Replied
<1>9. heard' \in {Len(given'[0]), Len(given'[0]) + 1} /\ heard' <= Len(outbox')
  BY <1>5, <1>6 DEF Replied
<1>10. \A n \in DOMAIN received : Cmd(n) = Connect => online
  BY DEF Replied
<1>11. Replied'
  BY <1>7, <1>8, <1>9, <1>10 DEF Replied, Heeds, Reply, IsControl, Cmd
<1> QED BY <1>2, <1>4, <1>5, <1>6, <1>11

\* A wait of the handshake while its message is not there.
LEMMA WaitPlaced ==
  ASSUME IInv, NEW cmds \in SUBSET Control, status[0] # "waiting", AddWaiter(0, cmds)
  PROVE  /\ status'[0] = "waiting"
         /\ \A j \in DOMAIN waiters'[0] : Fresh(0, j)' => waiters'[0][j].cmds = cmds
<1>1. TypeOK /\ OneFresh /\ WaitSets /\ 0 \in Clients /\ cmds \in SUBSET Wanted(0)
  BY Zero DEF IInv, Wanted
<1>2. /\ status'[0] = "waiting"
      /\ \A j \in DOMAIN waiters'[0] : \/ j \in DOMAIN waiters[0] /\ waiters'[0][j] = waiters[0][j]
                                       \/ waiters'[0][j].cmds = cmds
      /\ \A j \in DOMAIN waiters[0] : ~Fresh(0, j)
  BY <1>1, WaiterAdded DEF TypeOK
<1> QED BY <1>2 DEF Fresh

-----------------------------------------------------------------------------
\* The states and the callbacks

LEMMA EnterKeeps == ASSUME IInv, HInv, EnterAuth PROVE HInv'
<1>1. TypeOK /\ 0 \in Clients /\ AuthTypeOK /\ Progress /\ Replied /\ Shown
  BY Zero DEF IInv, HInv
<1>2. /\ status[0] = "unborn" /\ status'[0] = "starting"
      /\ UNCHANGED <<received, pending, given, waiters, at, heard, device, online>>
      /\ deviceState' = "authenticating"
  BY <1>1 DEF EnterAuth, StartConnect, sessionVars, TypeOK
<1>3. outbox' \in Seq(Alphabet) /\ outbox'[Len(outbox) + 1] = "CNXN"
  BY <1>1, PacketSent DEF EnterAuth, Alphabet
<1>4. Len(outbox) = 0 /\ Len(given[0]) = 0 /\ heard = 0 /\ at = "start"
  <2>1. Len(outbox) = 0 /\ Len(given[0]) = 0 /\ at = "start"
    BY <1>1, <1>2 DEF Progress
  <2> QED BY <1>1, <2>1 DEF Replied
<1>5. Len(outbox') = 1 /\ DOMAIN outbox' = {1} /\ Len(outbox') <= 3 /\ 0 \in 0 .. Len(outbox')
  <2>1. Len(outbox') = Len(outbox) + 1 /\ DOMAIN outbox' = 1 .. Len(outbox) + 1
    BY <1>1, PacketSent DEF EnterAuth, Alphabet
  <2> QED BY <1>4, <2>1
<1>6. AuthTypeOK' /\ Progress'
  <2>1. AuthTypeOK'
    BY <1>1, <1>2, <1>3, <1>4, <1>5, Zenon DEF AuthTypeOK, Alphabet
  <2>2. outbox'[1] = "CNXN"
    BY <1>3, <1>4
  <2>3. Handshake[1] = "CNXN"
    BY DEF Handshake
  <2>4. InTurn'
    BY <1>5, <2>2, <2>3, Zenon DEF InTurn
  <2>5. /\ Len(outbox') = 1 /\ Len(given'[0]) = 0 /\ at' = "start" /\ status'[0] = "starting"
        /\ deviceState' = "authenticating"
    BY <1>2, <1>4, <1>5
  <2> QED BY <2>1, <2>4, <2>5 DEF Progress
<1>7. Replied'
  <2>1. DOMAIN given[0] = {}
    BY <1>1, <1>4 DEF TypeOK
  <2> QED BY <1>1, <1>2, <1>3, <1>4, <2>1 DEF Replied, Heeds, Reply, IsControl, Cmd
<1>8. Shown'
  BY <1>1, <1>2, <1>4 DEF Shown, Fresh
<1> QED BY <1>5, <1>6, <1>7, <1>8 DEF HInv

LEMMA ReturnKeeps == ASSUME IInv, HInv, AuthReturns PROVE HInv'
<1>1. TypeOK /\ 0 \in Clients /\ AuthTypeOK /\ Progress /\ Replied /\ Shown
  BY Zero DEF IInv, HInv
<1>2. /\ CoWait(0, {Auth}) /\ UNCHANGED <<received, contexts, outbox, heard, device, online>>
      /\ deviceState' = "executing" /\ at' = "token"
  BY DEF AuthReturns, ConnectWaitFor
<1>3. {Auth} \in SUBSET Control
  BY AuthAssumption
<1>4. status[0] = "starting" \/ status[0] = "running"
  BY DEF AuthReturns, ConnectWaitFor
<1>5. CASE status[0] = "starting"
  <2>1. Len(outbox) = 1 /\ Len(given[0]) = 0
    BY <1>1, <1>5 DEF Progress, TypeOK
  <2>2. AuthTypeOK'
    BY <1>1, <1>2 DEF AuthTypeOK
  <2>3. CASE \E i \in FirstMatch({Auth}, Deque(0)) : HandOver(0, i)
    <3>1. /\ Replied' /\ Len(given'[0]) = Len(given[0]) + 1
          /\ Cmd(given'[0][Len(given[0]) + 1]) \in {Auth} /\ status'[0] = "running"
      BY <1>1, <1>2, <1>3, <2>3, ReplyTaken
    <3>2. Progress'
      BY <1>1, <1>2, <2>1, <3>1 DEF Progress, InTurn
    <3>3. Shown'
      <4>1. \A j \in DOMAIN waiters[0] : ~Fresh(0, j)
        BY <1>1, <1>5 DEF IInv, OneFresh
      <4>2. waiters' = waiters
        BY <1>2, <2>3 DEF CoWait
      <4>3. received[given'[0][1]].cmd = Auth
        BY <2>1, <3>1 DEF Cmd
      <4> QED BY <1>2, <3>1, <4>1, <4>2, <4>3 DEF Shown, Fresh, Cmd
    <3> QED BY <2>2, <3>1, <3>2, <3>3 DEF HInv
  <2>4. CASE AddWaiter(0, {Auth}) /\ UNCHANGED <<given, queue, pending>>
    <3>1. /\ status'[0] = "waiting"
          /\ \A j \in DOMAIN waiters'[0] : Fresh(0, j)' => waiters'[0][j].cmds = {Auth}
      BY <1>3, <1>5, <2>4, WaitPlaced
    <3>2. Progress'
      BY <1>1, <1>2, <1>5, <2>1, <2>4, <3>1 DEF Progress, InTurn
    <3>3. Replied'
      BY <1>1, <1>2, <2>4 DEF Replied, Heeds, Reply, IsControl, Cmd
    <3>4. Shown'
      BY <1>2, <3>1 DEF Shown
    <3> QED BY <2>2, <3>2, <3>3, <3>4 DEF HInv
  <2> QED BY <1>2, <2>3, <2>4 DEF CoWait
<1>6. CASE status[0] = "running"
  <2>1. deviceState = "authenticating"
    BY DEF AuthReturns
  <2> QED BY <1>1, <1>6, <2>1 DEF Progress
<1> QED BY <1>4, <1>5, <1>6

\* While a callback runs no message of the handshake is queued: it sends and
\* its wait is placed.
LEMMA SendsAndWaits ==
  ASSUME IInv, HInv, status[0] = "running", NEW p \in Alphabet, Sends(p),
         p = Handshake[Len(outbox) + 1], Len(outbox) <= 2,
         NEW cmds \in SUBSET Control, ConnectWaitFor(cmds), UNCHANGED <<heard, device, online>>
  PROVE  /\ Replied' /\ InTurn'
         /\ outbox' \in Seq(Alphabet) /\ Len(outbox') = Len(outbox) + 1
         /\ heard' \in 0 .. Len(outbox')
         /\ given'[0] = given[0] /\ status'[0] = "waiting"
         /\ \A j \in DOMAIN waiters'[0] : Fresh(0, j)' => waiters'[0][j].cmds = cmds
<1>1. TypeOK /\ 0 \in Clients /\ AuthTypeOK /\ Progress /\ Replied
  BY Zero DEF IInv, HInv
<1>2. CoWait(0, cmds) /\ UNCHANGED <<received, contexts>>
  BY DEF ConnectWaitFor
<1>3. Len(given[0]) \in Nat /\ Len(outbox) = Len(given[0]) /\ heard = Len(given[0])
  <2>1. Len(given[0]) \in Nat
    BY <1>1 DEF TypeOK
  <2>2. Len(outbox) = Len(given[0])
    BY <1>1 DEF Progress
  <2> QED BY <1>1, <2>1, <2>2 DEF Replied
<1>4. \A i \in DOMAIN pending : ~IsControl(pending[i])
  BY <1>1, <1>3 DEF Replied
<1>5. FirstMatch(cmds, Deque(0)) = {}
  BY <1>1, <1>4, DefaultQueue DEF FirstMatch, IsControl
<1>6. AddWaiter(0, cmds) /\ UNCHANGED <<given, queue, pending>>
  BY <1>2, <1>5 DEF CoWait
<1>7. /\ status'[0] = "waiting"
      /\ \A j \in DOMAIN waiters'[0] : Fresh(0, j)' => waiters'[0][j].cmds = cmds
  BY <1>6, WaitPlaced
<1>8. /\ outbox' \in Seq(Alphabet) /\ Len(outbox) \in Nat /\ DOMAIN outbox = 1 .. Len(outbox)
      /\ Len(outbox') = Len(outbox) + 1 /\ DOMAIN outbox' = 1 .. Len(outbox) + 1
      /\ outbox'[Len(outbox) + 1] = p
      /\ \A k \in DOMAIN outbox : outbox'[k] = outbox[k]
  BY <1>1, PacketSent
<1>9. InTurn'
  <2>1. \A k \in DOMAIN outbox' : k \in DOMAIN outbox \/ k = Len(outbox) + 1
    BY <1>8
  <2>2. \A k \in DOMAIN outbox : outbox[k] = Handshake[k]
    BY <1>1 DEF Progress, InTurn
  <2> QED BY <1>8, <2>1, <2>2 DEF InTurn
<1>10. heard' \in 0 .. Len(outbox') /\ heard' <= Len(outbox')
  BY <1>3, <1>8
<1>11. Replied'
  <2>1. \A k \in DOMAIN given[0] : k \in DOMAIN outbox
    BY <1>1, <1>3, <1>8 DEF TypeOK
  <2>2. \A k \in DOMAIN given[0] : Heeds(outbox'[k], given[0][k])
    BY <1>1, <1>8, <2>1 DEF Replied
  <2>3. heard' \in {Len(given'[0]), Len(given'[0]) + 1} /\ given' = given /\ pending' = pending
    BY <1>3, <1>6
  <2>4. \A n \in DOMAIN received : Cmd(n) = Connect => online
    BY <1>1 DEF Replied
  <2> QED BY <1>2, <1>4, <1>10, <2>2, <2>3, <2>4 DEF Replied, Heeds, Reply, IsControl, Cmd
<1> QED BY <1>6, <1>7, <1>8, <1>9, <1>10, <1>11

LEMMA PacketAt ==
  ASSUME AuthTypeOK, InTurn, NEW k \in Nat, 0 < k, k <= Len(outbox)
  PROVE  outbox[k] = Handshake[k]
<1>1. outbox \in Seq(Alphabet)
  BY DEF AuthTypeOK, Alphabet
<1>2. k \in DOMAIN outbox
  BY <1>1
<1> QED BY <1>2 DEF InTurn

LEMMA AuthTyped ==
  ASSUME AuthTypeOK, outbox' \in Seq(Alphabet), Len(outbox') <= 3, heard' \in 0 .. Len(outbox'),
         at' \in {"start", "token", "verdict", "key", "accepted"},
         UNCHANGED <<deviceState, device, online>>
  PROVE  AuthTypeOK'
  BY Zenon DEF AuthTypeOK, Alphabet

\* The message a callback was called with answers the last packet sent.
LEMMA AnsweredLast ==
  ASSUME IInv, HInv, status[0] = "running"
  PROVE  /\ Len(outbox) = Len(given[0])
         /\ Len(outbox) > 0 => Heeds(outbox[Len(outbox)], given[0][Len(given[0])])
<1>1. TypeOK /\ 0 \in Clients /\ Progress /\ Replied
  BY Zero DEF IInv, HInv
<1>2. Len(outbox) = Len(given[0])
  BY <1>1 DEF Progress
<1>3. Len(given[0]) > 0 => Len(given[0]) \in DOMAIN given[0]
  BY <1>1 DEF TypeOK
<1> QED BY <1>1, <1>2, <1>3 DEF Replied

LEMMA TokenKeeps == ASSUME IInv, HInv, HandleAuthToken PROVE HInv'
<1>1. AuthTypeOK /\ Progress /\ Replied /\ Shown
  BY DEF HInv
<1>2. /\ at = "token" /\ at' = "verdict" /\ status[0] = "running" /\ Sends("SIGNATURE")
      /\ ConnectWaitFor({Auth, Connect}) /\ UNCHANGED <<deviceState, heard, device, online>>
  BY DEF HandleAuthToken
<1>3. "SIGNATURE" \in Alphabet /\ "SIGNATURE" = Handshake[2] /\ "CNXN" = Handshake[1]
  BY DEF Alphabet, Handshake
<1>4. Len(outbox) = 1 /\ deviceState # "authenticating"
  BY <1>1, <1>2 DEF Progress
<1>5. {Auth, Connect} \in SUBSET Control
  BY AuthAssumption, CommandsAssumption
<1>6. Len(outbox) <= 2 /\ Len(outbox) + 1 = 2
  BY <1>4
<1>7. /\ Replied' /\ InTurn' /\ outbox' \in Seq(Alphabet) /\ Len(outbox') = 2
      /\ heard' \in 0 .. Len(outbox')
      /\ given'[0] = given[0] /\ status'[0] = "waiting"
  BY <1>2, <1>3, <1>5, <1>6, SendsAndWaits
<1>8. AuthTypeOK'
  <2>1. Len(outbox') <= 3
    BY <1>7
  <2> QED BY <1>1, <1>2, <1>7, <2>1, AuthTyped
<1>9. Len(given[0]) = 1 /\ Heeds(outbox[1], given[0][1])
  BY <1>2, <1>4, AnsweredLast
<1>10. Progress'
  BY <1>2, <1>4, <1>7, <1>9 DEF Progress
<1>11. device # "open"
  <2>1. outbox[1] = Handshake[1]
    BY <1>1, <1>4, PacketAt DEF Progress
  <2>2. Cmd(given[0][1]) = Auth
    BY <1>1, <1>2 DEF Shown
  <2>3. Heeds("CNXN", given[0][1])
    BY <1>3, <1>9, <2>1
  <2> QED BY <2>2, <2>3, AuthAssumption DEF Heeds, Reply
<1>12. Shown'
  BY <1>2, <1>7, <1>11 DEF Shown
<1> QED BY <1>7, <1>8, <1>10, <1>12 DEF HInv

LEMMA RejectedKeeps == ASSUME IInv, HInv, HandleAuthRejected PROVE HInv'
<1>1. AuthTypeOK /\ Progress /\ Replied /\ Shown
  BY DEF HInv
<1>2. /\ at = "verdict" /\ at' = "key" /\ status[0] = "running" /\ Sends("PUBLIC KEY")
      /\ ConnectWaitFor({Connect}) /\ UNCHANGED <<deviceState, heard, device, online>> /\ Rejected
  BY DEF HandleAuthRejected
<1>3. "PUBLIC KEY" \in Alphabet /\ "PUBLIC KEY" = Handshake[3] /\ "SIGNATURE" = Handshake[2]
  BY DEF Alphabet, Handshake
<1>4. Len(outbox) = 2 /\ deviceState # "authenticating"
  BY <1>1, <1>2 DEF Progress
<1>5. {Connect} \in SUBSET Control
  BY CommandsAssumption
<1>6. Len(outbox) <= 2 /\ Len(outbox) + 1 = 3
  BY <1>4
<1>7. /\ Replied' /\ InTurn' /\ outbox' \in Seq(Alphabet) /\ Len(outbox') = 3
      /\ heard' \in 0 .. Len(outbox')
      /\ given'[0] = given[0] /\ status'[0] = "waiting"
  BY <1>2, <1>3, <1>5, <1>6, SendsAndWaits
<1>8. AuthTypeOK'
  <2>1. Len(outbox') <= 3
    BY <1>7
  <2> QED BY <1>1, <1>2, <1>7, <2>1, AuthTyped
<1>9. Len(given[0]) = 2 /\ Heeds(outbox[2], given[0][2])
  <2>1. Len(given[0]) = Len(outbox) /\ Heeds(outbox[Len(outbox)], given[0][Len(given[0])])
    <3>1. Len(outbox) > 0
      BY <1>4
    <3> QED BY <1>2, <3>1, AnsweredLast
  <2> QED BY <1>4, <2>1
<1>10. Progress'
  <2>1. /\ Len(outbox') = 3 /\ Len(given'[0]) = 2 /\ at' = "key" /\ status'[0] = "waiting"
        /\ deviceState' # "authenticating" /\ InTurn'
    BY <1>2, <1>4, <1>7, <1>9
  <2> QED BY <2>1 DEF Progress
<1>11. device # "trusting"
  <2>1. outbox[2] = Handshake[2]
    BY <1>1, <1>4, PacketAt DEF Progress
  <2>2. Cmd(given[0][2]) = Auth
    BY <1>2, <1>9 DEF Rejected, Answered
  <2>3. Heeds("SIGNATURE", given[0][2])
    BY <1>3, <1>9, <2>1
  <2> QED BY <2>2, <2>3, AuthAssumption DEF Heeds, Reply
<1>12. Shown'
  BY <1>1, <1>2, <1>7, <1>11 DEF Shown
<1> QED BY <1>7, <1>8, <1>10, <1>12 DEF HInv

LEMMA ReplyKinds ==
  ASSUME NEW p, NEW m \in Reply(p)
  PROVE  \/ m = [cmd |-> Connect, arg1 |-> DeviceMaxData]
         \/ m = [cmd |-> Auth, arg1 |-> 0]
  BY Zenon DEF Reply

LEMMA AcceptedKeeps == ASSUME IInv, HInv, HandleAuthAccepted PROVE HInv'
<1>1. AuthTypeOK /\ Progress /\ Replied /\ Shown /\ TypeOK /\ 0 \in Clients
  BY Zero DEF HInv, IInv
<1>2. /\ at = "key" \/ (at = "verdict" /\ ~Rejected)
      /\ at' = "accepted" /\ status[0] = "running" /\ status'[0] = "done"
      /\ UNCHANGED <<deviceState, outbox, heard, device, online, received, pending, waiters, given>>
  BY <1>1 DEF HandleAuthAccepted, Finish, sessionVars, TypeOK
<1>3. AuthTypeOK' /\ InTurn'
  BY <1>1, <1>2 DEF AuthTypeOK, Progress, InTurn
<1>4. Progress'
  BY <1>1, <1>2, <1>3 DEF Progress
<1>5. Replied'
  BY <1>1, <1>2 DEF Replied, Heeds, Reply, IsControl, Cmd
<1>6. /\ Len(outbox) = Len(given[0]) /\ Len(given[0]) \in DOMAIN given[0]
      /\ Heeds(outbox[Len(outbox)], given[0][Len(given[0])])
  <2>1. Len(outbox) > 0
    BY <1>1, <1>2 DEF Progress
  <2>2. Len(outbox) = Len(given[0]) /\ Heeds(outbox[Len(outbox)], given[0][Len(given[0])])
    BY <1>2, <2>1, AnsweredLast
  <2> QED BY <1>1, <2>1, <2>2 DEF TypeOK
<1>7. Answered = Connect
  <2>1. CASE at = "key"
    <3>1. Len(outbox) = 3
      BY <1>1, <2>1 DEF Progress
    <3>2. outbox[3] = Handshake[3]
      BY <1>1, <3>1, PacketAt DEF Progress
    <3>3. Heeds("PUBLIC KEY", given[0][Len(given[0])])
      BY <1>6, <3>1, <3>2 DEF Handshake
    <3> QED BY <3>3 DEF Heeds, Reply, Answered
  <2>2. CASE ~Rejected
    <3>1. PICK m \in Reply(outbox[Len(outbox)]) : m.cmd = Cmd(given[0][Len(given[0])])
      BY <1>6 DEF Heeds
    <3>2. m.cmd = Connect \/ m.cmd = Auth
      BY ReplyKinds
    <3> QED BY <2>2, <3>1, <3>2 DEF Answered, Rejected
  <2> QED BY <1>2, <2>1, <2>2
<1>8. online
  BY <1>1, <1>6, <1>7 DEF IInv, GivenRight, Replied, Answered
<1>9. Shown'
  BY <1>1, <1>2, <1>8 DEF Shown
<1> QED BY <1>3, <1>4, <1>5, <1>9 DEF HInv

-----------------------------------------------------------------------------
\* The device

LEMMA RepliesKeep == ASSUME IInv, HInv, DeviceReplies PROVE HInv'
<1>1. /\ AuthTypeOK /\ Progress /\ Replied /\ Shown /\ TypeOK /\ 0 \in Clients
      /\ QueuesHold /\ GivenRight
  BY Zero DEF HInv, IInv
<1>2. PICK m \in Reply(outbox[heard + 1]) : /\ Receive /\ received' = Append(received, m)
                                            /\ online' = (online \/ m.cmd = Connect)
  BY DEF DeviceReplies
<1>3. /\ heard < Len(outbox) /\ heard' = heard + 1
      /\ UNCHANGED <<deviceState, at, outbox, device, waiters, status, given>>
  BY DEF DeviceReplies, Receive
<1> DEFINE n == Len(received) + 1
<1>4. m \in Message /\ ToDefault(m) /\ m.cmd \in Control
  <2>1. m = [cmd |-> Connect, arg1 |-> DeviceMaxData] \/ m = [cmd |-> Auth, arg1 |-> 0]
    BY ReplyKinds
  <2> QED BY <2>1, AuthAssumption, CommandsAssumption, MessagesAssumption DEF Message, ToDefault
<1>5. /\ Len(received) \in Nat /\ DOMAIN received = 1 .. Len(received)
      /\ DOMAIN received' = 1 .. Len(received) + 1 /\ received'[n] = m
      /\ \A k \in DOMAIN received : received'[k] = received[k]
  BY <1>1, <1>2, <1>4, AppendSeq DEF TypeOK
<1>6. pending' = Append(pending, n)
  <2>1. PICK l \in FromDevice : /\ received' = Append(received, l)
                                /\ ReceiveDefault(l) \/ ReceiveKnown(l) \/ ReceiveUnknown(l)
    BY <1>2 DEF Receive
  <2>2. received'[n] = l
    BY <1>1, <2>1, MessageReceived
  <2>3. ToDefault(l)
    BY <1>4, <1>5, <2>2
  <2> QED BY <2>1, <2>3 DEF ReceiveDefault, ReceiveKnown, ReceiveUnknown
<1>7. Len(given[0]) \in Nat /\ Len(outbox) \in Nat /\ heard = Len(given[0])
      /\ \A i \in DOMAIN pending : ~IsControl(pending[i])
  <2>1. Len(given[0]) \in Nat
    BY <1>1 DEF TypeOK
  <2>2. Len(outbox) = Len(given[0]) \/ Len(outbox) = Len(given[0]) + 1
    BY <1>1 DEF Progress
  <2>3. heard \in {Len(given[0]), Len(given[0]) + 1}
    BY <1>1 DEF Replied
  <2>4. heard = Len(given[0])
    BY <1>3, <2>1, <2>2, <2>3
  <2> QED BY <1>1, <2>1, <2>2, <2>4 DEF Replied
<1>8. AuthTypeOK'
  <2>1. heard' \in 0 .. Len(outbox')
    BY <1>3, <1>7
  <2>2. online' \in BOOLEAN
    BY <1>2
  <2> QED BY <1>1, <1>3, <2>1, <2>2, Zenon DEF AuthTypeOK
<1>9. Progress'
  BY <1>1, <1>3 DEF Progress, InTurn
<1>10. Replied'
  <2>1. pending \in Seq(Nat) /\ n \in Nat /\ Len(pending) \in Nat
    BY <1>1, <1>5 DEF TypeOK
  <2>2. /\ DOMAIN pending' = DOMAIN pending \cup {Len(pending) + 1}
        /\ pending'[Len(pending) + 1] = n /\ \A i \in DOMAIN pending : pending'[i] = pending[i]
    BY <1>6, <2>1, AppendSeq
  <2>3. \A i \in DOMAIN pending : pending[i] \in DOMAIN received /\ received'[pending[i]].cmd \notin Control
    BY <1>1, <1>5, <1>7 DEF QueuesHold, IsControl, Cmd
  <2>4. heard' = Len(given'[0]) + 1 /\ heard' <= Len(outbox')
    BY <1>3, <1>7
  <2>5. ASSUME NEW k \in DOMAIN given'[0] PROVE Heeds(outbox[k], given[0][k])'
    <3>1. Heeds(outbox[k], given[0][k]) /\ given[0][k] \in DOMAIN received
      BY <1>1, <1>3, <2>5 DEF Replied, GivenRight
    <3> QED BY <1>3, <1>5, <3>1 DEF Heeds, Reply, Cmd
  <2>6. ASSUME NEW i \in DOMAIN pending', received'[pending'[i]].cmd \in Control
        PROVE  i = Len(pending) + 1
    BY <2>2, <2>3, <2>6
  <2>7. \A p : p = outbox[heard + 1] => \E l \in Reply(p)' : l.cmd = received'[n].cmd
    BY <1>2, <1>3, <1>5 DEF Reply
  <2>8. ASSUME NEW i \in DOMAIN pending', IsControl(pending[i])'
        PROVE  /\ heard' = Len(given'[0]) + 1 /\ Heeds(outbox[heard], pending[i])'
               /\ \A j \in DOMAIN pending' : IsControl(pending[j])' => i = j
    <3>1. i = Len(pending) + 1 /\ \A j \in DOMAIN pending' : IsControl(pending[j])' => i = j
      BY <2>6, <2>8 DEF IsControl, Cmd
    <3>2. Heeds(outbox[heard], pending[i])'
      BY <1>3, <2>2, <2>7, <3>1 DEF Heeds, Reply, Cmd
    <3> QED BY <2>4, <3>1, <3>2
  <2>9. \A k \in DOMAIN received' : Cmd(k)' = Connect => online'
    <3>1. (online => online') /\ (m.cmd = Connect => online')
      BY <1>2, Zenon
    <3>2. \A k \in DOMAIN received' : k \in DOMAIN received \/ k = n
      BY <1>5
    <3> QED BY <1>1, <1>5, <3>1, <3>2 DEF Replied, Cmd
  <2> QED BY <2>4, <2>5, <2>8, <2>9 DEF Replied
<1>11. Shown'
  <2>1. status[0] = "running" /\ at = "token" => received'[given[0][1]].cmd = Auth
    <3> SUFFICES ASSUME status[0] = "running", at = "token" PROVE received'[given[0][1]].cmd = Auth
      OBVIOUS
    <3>1. Len(given[0]) = 1
      BY <1>1 DEF Progress
    <3>2. 1 \in DOMAIN given[0]
      BY <1>1, <3>1 DEF TypeOK
    <3> QED BY <1>1, <1>5, <3>2 DEF GivenRight, Shown, Cmd
  <2> QED BY <1>1, <1>2, <1>3, <2>1 DEF Shown, Fresh, Cmd
<1> QED BY <1>8, <1>9, <1>10, <1>11 DEF HInv

\* An answer to a command handler is not one to the handshake.
LEMMA ServesKeep == ASSUME IInv, HInv, DeviceServes PROVE HInv'
<1>1. /\ AuthTypeOK /\ Progress /\ Replied /\ Shown /\ TypeOK /\ 0 \in Clients
      /\ QueuesHold /\ GivenRight
  BY Zero DEF HInv, IInv
<1>2. UNCHANGED <<deviceState, at, outbox, heard, device, online, waiters, status, given>>
  BY DEF DeviceServes, Receive, authVars
<1>3. PICK m \in FromDevice : /\ received' = Append(received, m)
                              /\ ReceiveDefault(m) \/ ReceiveKnown(m) \/ ReceiveUnknown(m)
  BY DEF DeviceServes, Receive
<1> DEFINE n == Len(received) + 1
<1>4. /\ Len(received) \in Nat /\ DOMAIN received = 1 .. Len(received)
      /\ Len(received') = n /\ DOMAIN received' = 1 .. n /\ received'[n] = m
      /\ \A k \in DOMAIN received : received'[k] = received[k]
  <2>1. m \in Message
    BY <1>1, <1>3, MessageReceived
  <2> QED BY <1>1, <1>3, <2>1, AppendSeq DEF TypeOK
<1>5. received'[n].cmd \in Data /\ received'[n].cmd \notin Control
  BY <1>4, CommandsAssumption DEF DeviceServes
<1>6. pending' = pending \/ pending' = Append(pending, n)
  BY <1>3 DEF ReceiveDefault, ReceiveKnown, ReceiveUnknown
<1>7. \A i \in DOMAIN pending' : \/ pending'[i] = n
                                 \/ i \in DOMAIN pending /\ pending'[i] = pending[i]
  <2>1. pending \in Seq(Nat) /\ n \in Nat
    BY <1>1, <1>4 DEF TypeOK
  <2> QED BY <1>6, <2>1, Enqueued
<1>8. AuthTypeOK' /\ Progress'
  BY <1>1, <1>2 DEF AuthTypeOK, Progress, InTurn
<1>9. Replied'
  <2>1. ASSUME NEW k \in DOMAIN given'[0] PROVE Heeds(outbox[k], given[0][k])'
    <3>1. Heeds(outbox[k], given[0][k]) /\ given[0][k] \in DOMAIN received
      BY <1>1, <1>2, <2>1 DEF Replied, GivenRight
    <3> QED BY <1>2, <1>4, <3>1 DEF Heeds, Reply, Cmd
  <2>2. ASSUME NEW i \in DOMAIN pending', IsControl(pending[i])'
        PROVE  i \in DOMAIN pending /\ pending'[i] = pending[i] /\ IsControl(pending[i])
    <3>1. pending'[i] # n
      BY <1>5, <2>2 DEF IsControl, Cmd
    <3>2. i \in DOMAIN pending /\ pending'[i] = pending[i] /\ pending[i] \in DOMAIN received
      BY <1>1, <1>7, <3>1 DEF QueuesHold
    <3> QED BY <1>4, <2>2, <3>2 DEF IsControl, Cmd
  <2>3. ASSUME NEW i \in DOMAIN pending', IsControl(pending[i])'
        PROVE  /\ heard' = Len(given'[0]) + 1 /\ Heeds(outbox[heard], pending[i])'
               /\ \A j \in DOMAIN pending' : IsControl(pending[j])' => i = j
    <3>1. i \in DOMAIN pending /\ pending'[i] = pending[i] /\ IsControl(pending[i])
      BY <2>2, <2>3
    <3>2. heard = Len(given[0]) + 1 /\ Heeds(outbox[heard], pending[i])
      BY <1>1, <3>1 DEF Replied
    <3>3. Heeds(outbox[heard], pending[i])'
      <4>1. received'[pending[i]] = received[pending[i]]
        BY <1>1, <1>4, <3>1 DEF QueuesHold
      <4> QED BY <1>2, <3>1, <3>2, <4>1 DEF Heeds, Reply, Cmd
    <3>4. \A j \in DOMAIN pending' : IsControl(pending[j])' => i = j
      BY <1>1, <2>2, <3>1 DEF Replied
    <3> QED BY <1>2, <3>2, <3>3, <3>4
  <2>4. \A k \in DOMAIN received' : Cmd(k)' = Connect => online'
    <3>1. \A k \in DOMAIN received' : k \in DOMAIN received \/ k = n
      BY <1>4
    <3> QED BY <1>1, <1>2, <1>4, <1>5, <3>1, CommandsAssumption DEF Replied, Cmd
  <2>5. heard' \in {Len(given'[0]), Len(given'[0]) + 1} /\ heard' <= Len(outbox')
    BY <1>1, <1>2 DEF Replied
  <2> QED BY <2>1, <2>3, <2>4, <2>5 DEF Replied
<1>10. Shown'
  <2>1. status[0] = "running" /\ at = "token" => received'[given[0][1]].cmd = Auth
    <3> SUFFICES ASSUME status[0] = "running", at = "token" PROVE received'[given[0][1]].cmd = Auth
      OBVIOUS
    <3>1. Len(given[0]) = 1
      BY <1>1 DEF Progress
    <3>2. 1 \in DOMAIN given[0]
      BY <1>1, <3>1 DEF TypeOK
    <3> QED BY <1>1, <1>4, <3>2 DEF GivenRight, Shown, Cmd
  <2> QED BY <1>1, <1>2, <2>1 DEF Shown, Fresh, Cmd
<1> QED BY <1>8, <1>9, <1>10 DEF HInv

-----------------------------------------------------------------------------
\* checkWaiters

LEMMA ErasedOnly ==
  ASSUME TypeOK, AtWaiter, EraseCurrent
  PROVE  \A j \in DOMAIN waiters'[0] : \E k \in DOMAIN waiters[0] : waiters'[0][j] = waiters[0][k]
<1>1. \A d \in Clients : \A j \in DOMAIN waiters'[d] :
        Before(d, j) \in DOMAIN waiters[d] /\ waiters'[d][j] = waiters[d][Before(d, j)]
  BY WaiterErased
<1> QED BY <1>1, Zero

LEMMA MatchKeeps ==
  ASSUME IInv, HInv, UNCHANGED authVars, CheckMatch
  PROVE  HInv'
<1>1. /\ AuthTypeOK /\ Progress /\ Replied /\ Shown /\ TypeOK /\ 0 \in Clients
      /\ OneFresh /\ WaitSets /\ StreamStatus /\ scanned \in Clients
  BY Zero DEF HInv, IInv, TypeOK
<1>2. /\ AtWaiter /\ EraseCurrent /\ ~Current.late /\ UNCHANGED <<received, contexts>>
      /\ \E i \in FirstMatch(Current.cmds, Deque(scanned)) : HandOver(scanned, i)
  BY DEF CheckMatch
<1>3. cursor \in DOMAIN waiters[scanned] /\ Fresh(scanned, cursor) /\ status[scanned] = "waiting"
  <2>1. cursor \in DOMAIN waiters[scanned] /\ Fresh(scanned, cursor)
    BY <1>1, <1>2, WaiterErased DEF Current, Fresh
  <2> QED BY <1>1, <2>1 DEF OneFresh
<1>4. \A j \in DOMAIN waiters'[0] : \E k \in DOMAIN waiters[0] : waiters'[0][j] = waiters[0][k]
  BY <1>1, <1>2, ErasedOnly
<1>5. CASE scanned # 0
  <2>1. scanned \in contexts
    BY <1>1, <1>3, <1>5, OwnQueue, Zero
  <2>2. Aside
    BY <1>1, <1>2, <1>4, <1>5, <2>1 DEF HandOver, TypeOK, Aside
  <2> QED BY <2>2, AsideKeeps
<1>6. CASE scanned = 0
  <2>1. Current.cmds \in SUBSET Control
    BY <1>1, <1>3, <1>6 DEF WaitSets, Wanted, Current
  <2>2. /\ Replied' /\ Len(given[0]) \in Nat /\ Len(given'[0]) = Len(given[0]) + 1
        /\ Cmd(given'[0][Len(given[0]) + 1]) \in Current.cmds /\ status'[0] = "running"
    BY <1>1, <1>2, <1>6, <2>1, ReplyTaken DEF authVars
  <2>3. AuthTypeOK' /\ InTurn'
    BY <1>1 DEF AuthTypeOK, Progress, InTurn, authVars
  <2>4. Progress'
    <3>1. Len(outbox) = Len(given[0]) + 1 /\ at \in {"token", "verdict", "key"}
      BY <1>1, <1>3, <1>6 DEF Progress, AuthTypeOK
    <3>2. /\ Len(outbox') = Len(given'[0]) /\ at' = at /\ outbox' = outbox
          /\ deviceState' # "authenticating"
      BY <1>1, <1>3, <1>6, <2>2, <3>1 DEF authVars, Progress
    <3>3. at' # "start" /\ at' # "accepted"
      BY <3>1, <3>2
    <3> QED BY <1>1, <2>2, <2>3, <3>2, <3>3 DEF Progress
  <2>5. at = "token" => Current.cmds = {Auth} /\ Len(given[0]) = 0
    BY <1>1, <1>3, <1>6 DEF Shown, Progress, Current
  <2>6. Shown'
    <3>1. at = "token" => received[given'[0][1]].cmd = Auth
      BY <2>2, <2>5 DEF Cmd
    <3> QED BY <1>1, <1>2, <1>4, <3>1 DEF Shown, Fresh, Cmd, authVars
  <2> QED BY <2>2, <2>3, <2>4, <2>6 DEF HInv
<1> QED BY <1>5, <1>6

LEMMA LoopKeeps ==
  ASSUME IInv, HInv, UNCHANGED authVars, CheckWaiters
  PROVE  HInv'
<1>0. TypeOK
  BY DEF IInv
<1>1. CASE CheckExpired
  <2>1. Aside
    BY <1>0, <1>1, ErasedOnly DEF CheckExpired, Aside
  <2> QED BY <2>1, AsideKeeps
<1>2. CASE CheckNext \/ CheckEnd
  <2>1. Aside
    BY <1>2 DEF CheckNext, CheckEnd, sessionVars, Aside
  <2> QED BY <2>1, AsideKeeps
<1> QED BY <1>1, <1>2, MatchKeeps DEF CheckWaiters

-----------------------------------------------------------------------------
\* The invariant

LEMMA AuthInitInv == AuthInit => HInv
<1> SUFFICES ASSUME AuthInit PROVE HInv
  OBVIOUS
<1>1. /\ outbox = <<>> /\ heard = 0 /\ at = "start" /\ deviceState = "disconnected"
      /\ device \in Kinds /\ online = FALSE /\ Init
  BY DEF AuthInit
<1>2. /\ DOMAIN outbox = {} /\ Len(outbox) = 0 /\ outbox \in Seq({"CNXN", "SIGNATURE", "PUBLIC KEY"})
      /\ given[0] = <<>> /\ DOMAIN given[0] = {} /\ Len(given[0]) = 0 /\ waiters[0] = <<>>
      /\ DOMAIN waiters[0] = {} /\ DOMAIN pending = {} /\ DOMAIN received = {}
      /\ status[0] = "unborn"
  BY <1>1, EmptySeq, Zero DEF Init
<1>3. Len(outbox) <= 3 /\ heard \in 0 .. Len(outbox)
  BY <1>1, <1>2
<1>4. AuthTypeOK
  BY <1>1, <1>2, <1>3, Zenon DEF AuthTypeOK
<1>5. Progress
  BY <1>1, <1>2 DEF Progress, InTurn
<1>6. Replied
  BY <1>1, <1>2 DEF Replied
<1>7. Shown
  BY <1>1, <1>2 DEF Shown
<1> QED BY <1>4, <1>5, <1>6, <1>7 DEF HInv

LEMMA AuthNextInv == ASSUME IInv, HInv, [AuthNext]_allVars PROVE HInv'
<1>1. CASE EnterAuth \/ AuthReturns \/ Callback
  BY <1>1, EnterKeeps, ReturnKeeps, TokenKeeps, RejectedKeeps, AcceptedKeeps DEF Callback
<1>2. CASE DeviceReplies \/ DeviceServes
  BY <1>2, RepliesKeep, ServesKeep
<1>3. CASE SessionStep
  <2>1. UNCHANGED authVars
    BY <1>3 DEF SessionStep
  <2>2. CASE \E s \in Streams : Handler(s) \/ Finish(s)
    BY <2>1, <2>2, HandlersAside, AsideKeeps
  <2>3. CASE \E c \in Clients : Expire(c)
    BY <2>1, <2>3, ExpiryKeeps
  <2>4. CASE CheckWaiters
    BY <2>1, <2>4, LoopKeeps
  <2> QED BY <1>3, <2>2, <2>3, <2>4 DEF SessionStep
<1>4. CASE UNCHANGED allVars
  <2>1. Aside /\ UNCHANGED authVars
    BY <1>4 DEF allVars, vars, sessionVars, Aside
  <2> QED BY <2>1, AsideKeeps
<1> QED BY <1>1, <1>2, <1>3, <1>4 DEF AuthNext

LEMMA AuthSafety == AuthSpec => [](IInv /\ HInv)
<1>1. AuthSpec => []IInv
  BY Implements, SafetyInv, PTL DEF UsesSession
<1>2. AuthSpec => AuthInit /\ [][AuthNext]_allVars
  BY PTL DEF AuthSpec
<1>3. IInv /\ HInv /\ [AuthNext]_allVars => HInv'
  BY AuthNextInv
<1> QED BY <1>1, <1>2, <1>3, AuthInitInv, PTL

(* The handshake's variables keep their types, for any number of handlers  *)
(* and messages beside it.                                                 *)
THEOREM AuthTypeCorrect == AuthSpec => []AuthTypeOK
<1>1. HInv => AuthTypeOK
  BY DEF HInv
<1> QED BY <1>1, AuthSafety, PTL

(* An acceptance and a rejection are never taken for each other: accepted  *)
(* means that the device takes commands, and the public key goes only to a *)
(* device that does not know it.                                           *)
THEOREM VerdictIsUnderstood == AuthSpec => []VerdictUnderstood
<1>1. ASSUME HInv PROVE VerdictUnderstood
  BY <1>1 DEF HInv, Shown, AuthTypeOK, Kinds, VerdictUnderstood
<1> QED BY <1>1, AuthSafety, PTL

(* When the handshake was accepted, no message of it is left in            *)
(* pendingMessages.                                                        *)
THEOREM NothingIsStale == AuthSpec => []NothingStale
<1>1. ASSUME IInv, HInv PROVE NothingStale
  <2> SUFFICES ASSUME at = "accepted", NEW i \in DOMAIN pending PROVE Cmd(pending[i]) \in Data
    BY DEF NothingStale
  <2>1. Progress /\ Replied /\ TypeOK /\ QueuesHold /\ 0 \in Clients
    BY <1>1, Zero DEF HInv, IInv
  <2>2. Len(outbox) = Len(given[0]) /\ Len(given[0]) \in Nat
    BY <2>1 DEF Progress, TypeOK
  <2>3. heard # Len(given[0]) + 1
    BY <2>1, <2>2 DEF Replied
  <2>4. Cmd(pending[i]) \notin Control
    BY <2>1, <2>3 DEF Replied, IsControl
  <2>5. received[pending[i]] \in Message
    BY <2>1 DEF QueuesHold, TypeOK
  <2> QED BY <2>4, <2>5 DEF Message, Cmd
<1> QED BY <1>1, AuthSafety, PTL

-----------------------------------------------------------------------------
(***************************************************************************)
(* The two sides never wait for each other.  Beside HInv: the wait of the  *)
(* handshake is in the list, for what its place asks for, and an answer it *)
(* was not given yet is in pendingMessages.                                *)
(***************************************************************************)
Awaited ==
  IF at = "token" THEN {Auth} ELSE IF at = "verdict" THEN {Auth, Connect} ELSE {Connect}

HandshakeWait == status[0] = "waiting" => WaiterThere(0, Awaited)
AnswerKept == heard = Len(given[0]) + 1 => \E i \in DOMAIN pending : IsControl(pending[i])

\* The device has not answered the last packet yet, and has an answer for it.
DeviceOwes == heard < Len(outbox) /\ Reply(outbox[heard + 1]) # {}

NeverBothWait ==
  status[0] = "waiting" /\ device \in {"trusting", "asking"} => DeviceOwes \/ AnswerFound(0)

\* Only a wait of the handshake makes it wait.
LEMMA OthersWait ==
  ASSUME IInv, EnterAuth \/ HandleAuthAccepted \/ DeviceReplies \/ DeviceServes \/ SessionStep
                 \/ UNCHANGED allVars
  PROVE  /\ status'[0] = "waiting" => status[0] = "waiting"
         /\ status[0] = "waiting" => at' = at
<1>0. TypeOK /\ 0 \in Clients /\ 0 \notin Streams /\ Streams \subseteq Clients
  BY Zero DEF IInv
<1>1. CASE EnterAuth
  BY <1>0, <1>1 DEF EnterAuth, StartConnect, TypeOK
<1>2. CASE HandleAuthAccepted
  BY <1>0, <1>2 DEF HandleAuthAccepted, Finish, TypeOK
<1>3. CASE DeviceReplies \/ DeviceServes \/ UNCHANGED allVars
  BY <1>3 DEF DeviceReplies, DeviceServes, Receive, allVars, vars, authVars
<1>4. CASE SessionStep
  <2>0. at' = at
    BY <1>4 DEF SessionStep, authVars
  <2>1. ASSUME NEW s \in Streams, Handler(s) \/ Finish(s) PROVE status'[0] = status[0]
    BY <2>1, HandlersAside DEF Aside
  <2>2. ASSUME NEW c \in Clients, Expire(c) PROVE status'[0] = "waiting" => status[0] = "waiting"
    BY <1>0, <2>2 DEF Expire, TypeOK
  <2>3. ASSUME CheckWaiters PROVE status'[0] = "waiting" => status[0] = "waiting"
    BY <1>0, <2>3 DEF CheckWaiters, CheckExpired, CheckMatch, CheckNext, CheckEnd, HandOver, TypeOK
  <2> QED BY <1>4, <2>0, <2>1, <2>2, <2>3 DEF SessionStep
<1> QED BY <1>1, <1>2, <1>3, <1>4

\* A step with a wait of the handshake asks for what the place it goes to asks for.
LEMMA PlacedForPlace ==
  ASSUME IInv, AuthReturns \/ HandleAuthToken \/ HandleAuthRejected, status'[0] = "waiting"
  PROVE  WaiterThere(0, Awaited)' /\ status[0] # "waiting"
<1>0. TypeOK /\ 0 \in Clients /\ {Auth, Connect} \subseteq Control
  BY Zero, AuthAssumption, CommandsAssumption DEF IInv
<1>1. ASSUME NEW cmds \in SUBSET {Auth, Connect}, ConnectWaitFor(cmds), cmds = Awaited'
      PROVE  WaiterThere(0, Awaited)' /\ status[0] # "waiting"
  <2>1. CoWait(0, cmds) /\ status[0] # "waiting" /\ cmds \in SUBSET (Control \cup Data)
    BY <1>0, <1>1 DEF ConnectWaitFor
  <2>2. WaiterThere(0, cmds)'
    BY <1>0, <2>1, CoWaitOthers
  <2> QED BY <1>1, <2>1, <2>2 DEF WaiterThere
<1>2. CASE AuthReturns
  <2>1. ConnectWaitFor({Auth}) /\ {Auth} = Awaited'
    BY <1>2 DEF AuthReturns, Awaited
  <2> QED BY <1>1, <2>1
<1>3. CASE HandleAuthToken
  <2>1. ConnectWaitFor({Auth, Connect}) /\ {Auth, Connect} = Awaited'
    BY <1>3 DEF HandleAuthToken, Awaited
  <2> QED BY <1>1, <2>1
<1>4. CASE HandleAuthRejected
  <2>1. ConnectWaitFor({Connect}) /\ {Connect} = Awaited'
    BY <1>4 DEF HandleAuthRejected, Awaited
  <2> QED BY <1>1, <2>1
<1> QED BY <1>2, <1>3, <1>4

LEMMA WaitKeeps == ASSUME IInv, HandshakeWait, [AuthNext]_allVars PROVE HandshakeWait'
<1> SUFFICES ASSUME status'[0] = "waiting" PROVE WaiterThere(0, Awaited)'
  BY DEF HandshakeWait
<1>1. CASE AuthReturns \/ HandleAuthToken \/ HandleAuthRejected
  BY <1>1, PlacedForPlace
<1>2. CASE EnterAuth \/ HandleAuthAccepted \/ DeviceReplies \/ DeviceServes \/ SessionStep
             \/ UNCHANGED allVars
  <2>1. status[0] = "waiting" /\ Awaited' = Awaited
    BY <1>2, OthersWait DEF Awaited
  <2>2. PICK cmds : cmds = Awaited
    OBVIOUS
  <2>3. WaiterThere(0, cmds)
    BY <2>1, <2>2 DEF HandshakeWait
  <2>4. WaiterThere(0, cmds)'
    BY <2>1, <2>3, AuthNextUsesSession, WaiterStays, Zero
  <2> QED BY <2>1, <2>2, <2>4 DEF WaiterThere
<1> QED BY <1>1, <1>2 DEF AuthNext, Callback

\* What the device has just answered is put into pendingMessages.
LEMMA ReplyKept ==
  ASSUME IInv, HInv, DeviceReplies
  PROVE  \E i \in DOMAIN pending' : IsControl(pending[i])'
<1>1. TypeOK /\ HInv'
  BY RepliesKeep DEF IInv
<1>2. PICK m \in Reply(outbox[heard + 1]) : Receive /\ received' = Append(received, m)
  BY DEF DeviceReplies
<1>3. m \in Message /\ ToDefault(m) /\ m.cmd \in Control
  <2>1. m = [cmd |-> Connect, arg1 |-> DeviceMaxData] \/ m = [cmd |-> Auth, arg1 |-> 0]
    BY ReplyKinds
  <2> QED BY <2>1, AuthAssumption, CommandsAssumption, MessagesAssumption DEF Message, ToDefault
<1> DEFINE n == Len(received) + 1
<1>4. n \in Nat /\ received'[n] = m
  BY <1>1, <1>2, <1>3, AppendSeq DEF TypeOK
<1>5. pending' = Append(pending, n)
  <2>1. PICK l \in FromDevice : /\ received' = Append(received, l)
                                /\ ReceiveDefault(l) \/ ReceiveKnown(l) \/ ReceiveUnknown(l)
    BY <1>2 DEF Receive
  <2>2. received'[n] = l
    BY <1>1, <2>1, MessageReceived
  <2>3. ToDefault(l)
    BY <1>3, <1>4, <2>2
  <2> QED BY <2>1, <2>3 DEF ReceiveDefault, ReceiveKnown, ReceiveUnknown
<1>6. Len(pending) + 1 \in DOMAIN pending' /\ pending'[Len(pending) + 1] = n
  <2>1. pending \in Seq(Nat) /\ Len(pending) \in Nat
    BY <1>1 DEF TypeOK
  <2> QED BY <1>4, <1>5, <2>1, AppendSeq
<1> QED BY <1>3, <1>4, <1>6 DEF IsControl, Cmd

LEMMA AnswerStays == ASSUME IInv, HInv, AnswerKept, [AuthNext]_allVars PROVE AnswerKept'
<1> SUFFICES ASSUME heard' = Len(given'[0]) + 1 PROVE \E i \in DOMAIN pending' : IsControl(pending[i])'
  BY DEF AnswerKept
<1>1. CASE DeviceReplies
  BY <1>1, ReplyKept
<1>2. CASE ~DeviceReplies
  <2>1. heard' = heard
    BY <1>2 DEF AuthNext, EnterAuth, AuthReturns, Callback, HandleAuthToken, HandleAuthRejected,
       HandleAuthAccepted, DeviceServes, SessionStep, authVars, allVars
  <2>2. [Next]_vars
    BY AuthNextUsesSession
  <2>3. heard <= Len(given[0]) + 1 /\ Len(given[0]) \in Nat /\ 0 \in Clients /\ TypeOK
    BY Zero DEF HInv, Replied, IInv, TypeOK
  <2>4. given'[0] = given[0]
    <3>1. given'[0] = given[0] \/ Len(given'[0]) = Len(given[0]) + 1
      BY <2>2, <2>3, GivenGrows
    <3> QED BY <2>1, <2>3, <3>1
  <2>5. PICK i \in DOMAIN pending : IsControl(pending[i])
    BY <2>1, <2>4 DEF AnswerKept
  <2>6. i \in DOMAIN pending' /\ pending'[i] = pending[i] /\ received'[pending[i]] = received[pending[i]]
    BY <2>2, <2>4, PendingGrows
  <2> QED BY <2>5, <2>6 DEF IsControl, Cmd
<1> QED BY <1>1, <1>2

\* What the device answers is what is waited for.
LEMMA AnswersWait ==
  ASSUME HInv, status[0] = "waiting", device \in {"trusting", "asking"}
  PROVE  /\ Len(outbox) = Len(given[0]) + 1 /\ Len(given[0]) \in Nat
         /\ Reply(outbox[Len(outbox)]) # {}
         /\ \A m \in Reply(outbox[Len(outbox)]) : m.cmd \in Awaited
<1>1. Progress /\ AuthTypeOK /\ Shown
  BY DEF HInv
<1>2. Len(outbox) = Len(given[0]) + 1 /\ at \in {"token", "verdict", "key"}
  BY <1>1 DEF Progress, AuthTypeOK
<1>3. Len(outbox) \in 1 .. 3 /\ outbox[Len(outbox)] = Handshake[Len(outbox)] /\ Len(given[0]) \in Nat
  <2>1. Len(outbox) \in 1 .. 3
    BY <1>1, <1>2 DEF Progress
  <2>2. outbox \in Seq(Alphabet)
    BY <1>1 DEF AuthTypeOK, Alphabet
  <2>3. DOMAIN outbox = 1 .. Len(outbox)
    BY <2>2
  <2>4. Len(outbox) \in DOMAIN outbox
    BY <2>1, <2>3
  <2> QED BY <1>1, <1>2, <2>1, <2>4 DEF Progress, InTurn
<1> DEFINE Suits(M) == M # {} /\ \A m \in M : m.cmd \in Awaited
           sent == outbox[Len(outbox)]
           token == [cmd |-> Auth, arg1 |-> 0]
           connection == [cmd |-> Connect, arg1 |-> DeviceMaxData]
<1>4. Handshake[1] = "CNXN" /\ Handshake[2] = "SIGNATURE" /\ Handshake[3] = "PUBLIC KEY"
  BY DEF Handshake
<1>5. token.cmd = Auth /\ connection.cmd = Connect
  OBVIOUS
<1>6. Suits(Reply(sent))
  <2> HIDE DEF token, connection
  <2>1. CASE at = "token"
    <3>1. Len(outbox) = 1
      BY <1>1, <2>1 DEF Progress
    <3>2. sent = "CNXN"
      BY <1>3, <1>4, <3>1
    <3>3. Reply(sent) = {token} /\ Auth \in Awaited
      BY <2>1, <3>2 DEF Reply, Awaited, token
    <3> QED BY <1>5, <3>3
  <2>2. CASE at = "verdict"
    <3>1. Len(outbox) = 2
      BY <1>1, <2>2 DEF Progress
    <3>2. sent = "SIGNATURE"
      BY <1>3, <1>4, <3>1
    <3>3. Reply(sent) \in {{token}, {connection}} /\ Auth \in Awaited /\ Connect \in Awaited
      BY <2>2, <3>2 DEF Reply, Awaited, token, connection
    <3> QED BY <1>5, <3>3
  <2>3. CASE at = "key"
    <3>1. Len(outbox) = 3 /\ device = "asking"
      BY <1>1, <2>3 DEF Progress, Shown
    <3>2. sent = "PUBLIC KEY"
      BY <1>3, <1>4, <3>1
    <3>3. Reply(sent) = {connection} /\ Connect \in Awaited
      BY <2>3, <3>1, <3>2 DEF Reply, Awaited, connection
    <3> QED BY <1>5, <3>3
  <2> QED BY <1>2, <2>1, <2>2, <2>3
<1> QED BY <1>2, <1>3, <1>6

(* While the handshake waits in time, with a device that has our key or    *)
(* asks its user for it, the device still has an answer to give, or the    *)
(* answer is there and checkWaiters about to hand it over.                 *)
THEOREM NoStandstill == AuthSpec => []NeverBothWait
<1>1. ASSUME IInv, HInv, HandshakeWait, AnswerKept PROVE NeverBothWait
  <2> SUFFICES ASSUME status[0] = "waiting", device \in {"trusting", "asking"}, ~DeviceOwes
               PROVE  AnswerFound(0)
    BY DEF NeverBothWait
  <2>1. /\ Len(outbox) = Len(given[0]) + 1 /\ Len(given[0]) \in Nat
        /\ Reply(outbox[Len(outbox)]) # {}
        /\ \A m \in Reply(outbox[Len(outbox)]) : m.cmd \in Awaited
    BY <1>1, AnswersWait
  <2>2. heard = Len(given[0]) + 1
    BY <1>1, <2>1 DEF HInv, Replied, DeviceOwes
  <2>3. PICK i \in DOMAIN pending : IsControl(pending[i])
    BY <1>1, <2>2 DEF AnswerKept
  <2>4. /\ Heeds(outbox[heard], pending[i])
        /\ \A j \in DOMAIN pending : IsControl(pending[j]) => i = j
    BY <1>1, <2>3 DEF HInv, Replied
  <2>5. Cmd(pending[i]) \in Awaited
    BY <2>1, <2>2, <2>4 DEF Heeds
  <2>6. Awaited \subseteq Control
    BY AuthAssumption, CommandsAssumption DEF Awaited
  <2>7. pending \in Seq(Nat) /\ TypeOK
    BY <1>1 DEF IInv, TypeOK
  <2>8. i \in FirstMatch(Awaited, pending)
    <3>1. \A j \in DOMAIN pending : j < i => Cmd(pending[j]) \notin Awaited
      <4>1. i \in Nat
        BY <2>7
      <4> QED BY <2>4, <2>6, <4>1 DEF IsControl
    <3> QED BY <2>5, <3>1 DEF FirstMatch
  <2>9. PICK cmds : cmds = Awaited
    OBVIOUS
  <2>10. WaiterThere(0, cmds)
    BY <1>1, <2>9 DEF HandshakeWait
  <2>11. FirstMatch(cmds, Deque(0)) # {}
    BY <2>7, <2>8, <2>9, DefaultQueue
  <2> QED BY <1>1, <2>10, <2>11, ScanFinds, Zero
<1>2. AuthInit => HandshakeWait /\ AnswerKept
  BY Zero DEF AuthInit, Init, HandshakeWait, AnswerKept
<1>3. IInv /\ HInv /\ HandshakeWait /\ AnswerKept /\ [AuthNext]_allVars => HandshakeWait' /\ AnswerKept'
  BY WaitKeeps, AnswerStays
<1>4. AuthSpec => AuthInit /\ [][AuthNext]_allVars
  BY PTL DEF AuthSpec
<1> QED BY <1>1, <1>2, <1>3, <1>4, AuthSafety, PTL
=============================================================================
