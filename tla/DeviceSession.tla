--------------------------- MODULE DeviceSession ---------------------------
(***************************************************************************)
(* The receiving half of a DeviceSession from handleMessage() on: every    *)
(* message is queued by its stream and handed to whoever waits for it      *)
(* (dispatchToContext, checkWaiters, the stream contexts).  Framing models *)
(* how the messages come out of the bytes, SessionSend how they go in.     *)
(*                                                                         *)
(* A command handler is a coroutine with a stream of its own; client 0 is  *)
(* the chain of callbacks of the connection handshake, which waits on the  *)
(* default stream.  All of it runs on the thread of the io_context: a      *)
(* coroutine runs from one suspension to the next without being            *)
(* interrupted, and it is resumed either inside the callback of            *)
(* checkWaiters, which then goes on with its loop, or later.               *)
(*                                                                         *)
(* WaitCommandAwaitable and waitConnectCommand have no source.  Their use  *)
(* says: they look into the queue of the stream (findMessageDeque and      *)
(* findCommandByDeque are public for nobody else), add a waiter when the   *)
(* message is not there yet, and may come back empty-handed after the      *)
(* timeout, which pushHandler tests for.  What source there is does not    *)
(* bring them back: checkWaiters erases an expired waiter without a call,  *)
(* and the comment above it says of the timer that it is to be added       *)
(* later.  So an overdue client may come back, and nothing makes it.       *)
(*                                                                         *)
(* Messages are known by their rank of arrival.                            *)
(***************************************************************************)
EXTENDS Naturals, Sequences

CONSTANTS Streams,       \* local stream ids
          Connect,       \* CMD_CNXN
          Control,       \* the commands of the handshake, Connect one of them
          Data,          \* the commands of the streams
          ControlWaits,  \* the sets of commands the handshake waits for
          DataWaits,     \* those the handlers wait for
          DeviceMaxData, \* the largest payload the device announces in its CNXN
          MaxMessages    \* bound: messages the device sends

ASSUME StreamsAssumption  == Streams \subseteq Nat \ {0}
ASSUME CommandsAssumption == Connect \in Control /\ Control \cap Data = {}
ASSUME WaitsAssumption    == ControlWaits \subseteq SUBSET Control /\ DataWaits \subseteq SUBSET Data
ASSUME MessagesAssumption == MaxMessages \in Nat /\ DeviceMaxData \in Nat

VARIABLES
  received,        \* the messages dispatched so far: [cmd, arg1]
  contexts,        \* the keys of streamContexts
  queue,           \* queue[s]: the deque of the context of s
  pending,         \* pendingMessages
  waiters,         \* streamWaiters
  listed,          \* the keys of streamWaiters
  loop,            \* where the read loop is
  scanned,         \* the stream whose waiters checkWaiters goes through
  cursor,          \* its iterator
  callback,        \* the client whose notify runs inside checkWaiters
  status,          \* status[c]: where client c is
  given            \* given[c]: the messages handed to c

sessionVars == <<received, contexts, queue, pending, waiters, listed>>
loopVars == <<loop, scanned, cursor, callback>>
vars == <<sessionVars, loopVars, status, given>>

Clients == Streams \cup {0}
Message == [cmd : Control \cup Data, arg1 : Nat]
Waiter == [cmds : SUBSET (Control \cup Data), late : BOOLEAN]

(* "unborn": not started.  "starting": CNXN is sent, on another thread.    *)
(* "running": resumed with a message, or about to be.  "waiting": its wait *)
(* has not expired.  "overdue": it has, and the client is still suspended. *)
(* "timedout": it came back without a message.  "done": it returned.       *)
Status == {"unborn", "starting", "running", "waiting", "overdue", "timedout", "done"}

Init ==
  /\ received = <<>> /\ contexts = {} /\ queue = [s \in Streams |-> <<>>]
  /\ pending = <<>> /\ waiters = [c \in Clients |-> <<>>] /\ listed = {}
  /\ loop = "reading" /\ scanned = 0 /\ cursor = 1 /\ callback = {}
  /\ status = [c \in Clients |-> "unborn"] /\ given = [c \in Clients |-> <<>>]

-----------------------------------------------------------------------------
\* The queues

\* findMessageDeque: the queue of the stream, or pendingMessages.
Deque(c) == IF c \in contexts THEN queue[c] ELSE pending

Cmd(n) == received[n].cmd

\* What-if: the newest message first.
FirstMatchLast(cmds, q) ==
  {i \in DOMAIN q : Cmd(q[i]) \in cmds /\ \A j \in DOMAIN q : j > i => Cmd(q[j]) \notin cmds}

\* What-if: any command will do.
FirstMatchAny(cmds, q) ==
  {i \in DOMAIN q : i = 1}

\* findCommandByDeque: the first message of q whose command is wanted, if any.
FirstMatch(cmds, q) ==
  {i \in DOMAIN q : Cmd(q[i]) \in cmds /\ \A j \in DOMAIN q : j < i => Cmd(q[j]) \notin cmds}

Without(q, i) == SubSeq(q, 1, i - 1) \o SubSeq(q, i + 1, Len(q))

\* What-if: the message is copied out and stays in its queue.
HandOverCopy(c, i) ==
  /\ given' = [given EXCEPT ![c] = Append(@, Deque(c)[i])]
  /\ status' = [status EXCEPT ![c] = "running"]
  /\ UNCHANGED <<queue, pending>>

\* The message at i is moved out of the queue of c and handed to c.
HandOver(c, i) ==
  /\ given' = [given EXCEPT ![c] = Append(@, Deque(c)[i])]
  /\ status' = [status EXCEPT ![c] = "running"]
  /\ IF c \in contexts
       THEN queue' = [queue EXCEPT ![c] = Without(@, i)] /\ UNCHANGED pending
       ELSE pending' = Without(pending, i) /\ UNCHANGED queue

-----------------------------------------------------------------------------
\* The clients

\* addWaiter: streamWaiters[streamId].emplace_back
AddWaiter(c, cmds) ==
  /\ waiters' = [waiters EXCEPT ![c] = Append(@, [cmds |-> cmds, late |-> FALSE])]
  /\ listed' = listed \cup {c}
  /\ status' = [status EXCEPT ![c] = "waiting"]

\* What-if: the queue is not looked into before waiting.
CoWaitBlindly(c, cmds) ==
  /\ AddWaiter(c, cmds)
  /\ UNCHANGED <<given, queue, pending>>

\* What coWaitCommand and waitConnectCommand come to, in source that is not there:
\* take the message if it is there, or wait.
CoWait(c, cmds) ==
  \/ /\ \E i \in FirstMatch(cmds, Deque(c)) : HandOver(c, i)
     /\ UNCHANGED <<waiters, listed>>
  \/ /\ FirstMatch(cmds, Deque(c)) = {}
     /\ AddWaiter(c, cmds)
     /\ UNCHANGED <<given, queue, pending>>

\* What-if: only a callback runs a client.
CanRunInCallback(c) ==
  callback = {c}

\* The thread of the io_context is free for c, or is inside the callback of c.
CanRun(c) ==
  loop = "reading" \/ callback = {c}

\* startConnect on a worker thread: CNXN goes out, the wait comes after it.
StartConnect ==
  /\ status[0] = "unborn"
  /\ status' = [status EXCEPT ![0] = "starting"]
  /\ UNCHANGED <<sessionVars, loopVars, given>>

\* A wait of the handshake: startConnect, handleAuthToken, handleAuthRejected.
ConnectWaitFor(cmds) ==
  /\ status[0] = "starting" \/ (status[0] = "running" /\ CanRun(0))
  /\ loop # "dead"
  /\ CoWait(0, cmds)
  /\ UNCHANGED <<received, contexts, loopVars>>

ConnectWait == \E cmds \in ControlWaits : ConnectWaitFor(cmds)

\* auth() returned: it does so when the first wait of the handshake is placed.
Authenticated == status[0] \notin {"unborn", "starting"}

\* What-if: the handler suspends between OPEN and its first wait.
OpenAndYield(s) ==
  /\ status[s] = "unborn" /\ loop = "reading" /\ Authenticated
  /\ contexts' = contexts \cup {s}
  /\ queue' = [queue EXCEPT ![s] = <<>>]
  /\ status' = [status EXCEPT ![s] = "running"]
  /\ UNCHANGED <<received, pending, waiters, listed, given, loopVars>>

\* A handler starts: createStreamContext, send(OPEN) and the first wait, on
\* the context's new and empty queue.
Open(s) ==
  /\ status[s] = "unborn" /\ loop = "reading" /\ Authenticated
  /\ contexts' = contexts \cup {s}
  /\ queue' = [queue EXCEPT ![s] = <<>>]
  /\ \E cmds \in DataWaits : AddWaiter(s, cmds)
  /\ UNCHANGED <<received, pending, given, loopVars>>

\* A resumed handler sends and waits again.
WaitAgain(s) ==
  /\ status[s] = "running" /\ CanRun(s)
  /\ \E cmds \in DataWaits : CoWait(s, cmds)
  /\ UNCHANGED <<received, contexts, loopVars>>

\* The handler, or the last callback of the handshake, returns: the stream's
\* context and its waiters stay.
Finish(c) ==
  /\ status[c] \in {"running", "timedout"} /\ CanRun(c)
  /\ status' = [status EXCEPT ![c] = "done"]
  /\ UNCHANGED <<sessionVars, loopVars, given>>

\* removeStreamContext, when OPEN was not answered in time.
Remove(s) ==
  /\ status[s] = "timedout" /\ CanRun(s)
  /\ contexts' = contexts \ {s}
  /\ queue' = [queue EXCEPT ![s] = <<>>]
  /\ status' = [status EXCEPT ![s] = "done"]
  /\ UNCHANGED <<received, pending, waiters, listed, given, loopVars>>

-----------------------------------------------------------------------------
\* Time

\* The clock passes the expireTime of the wait c is in.
Expire(c) ==
  /\ status[c] = "waiting"
  /\ status' = [status EXCEPT ![c] = "overdue"]
  /\ waiters' = [waiters EXCEPT ![c] = [i \in DOMAIN @ |-> [cmds |-> @[i].cmds, late |-> TRUE]]]
  /\ UNCHANGED <<received, contexts, queue, pending, listed, loopVars, given>>

\* The timer of the awaitable, if it has one, resumes the coroutine.
TimeOut(s) ==
  /\ status[s] = "overdue" /\ loop = "reading"
  /\ status' = [status EXCEPT ![s] = "timedout"]
  /\ UNCHANGED <<sessionVars, loopVars, given>>

-----------------------------------------------------------------------------
\* dispatchToContext

\* checkWaiters(waiters of c, queue of c) begins.
Scan(c) ==
  /\ loop' = "scanning" /\ scanned' = c /\ cursor' = 1
  /\ UNCHANGED callback

(* What the device may send: handshake messages to stream 0, a CNXN with   *)
(* its largest payload in arg1, and messages to the streams it was asked   *)
(* to open.                                                                *)
FromDevice ==
  [cmd : Control \ {Connect}, arg1 : {0}] \cup [cmd : {Connect}, arg1 : {DeviceMaxData}]
    \cup [cmd : Data, arg1 : {s \in Streams : status[s] # "unborn"}]

\* CNXN, or arg1 == 0: the default stream.
ToDefault(m) ==
  m.cmd = Connect \/ m.arg1 = 0

ReceiveDefault(m) ==
  /\ ToDefault(m)
  /\ pending' = Append(pending, Len(received) + 1)
  /\ Scan(0)
  /\ listed' = listed \cup {0}
  /\ UNCHANGED queue

\* A stream with a context.  findWaiters throws when nobody ever waited there:
\* the exception leaves the completion handler of doRead().
ReceiveKnown(m) ==
  /\ ~ToDefault(m) /\ m.arg1 \in contexts
  /\ queue' = [queue EXCEPT ![m.arg1] = Append(@, Len(received) + 1)]
  /\ IF m.arg1 \in listed THEN Scan(m.arg1)
     ELSE loop' = "dead" /\ UNCHANGED <<scanned, cursor, callback>>
  /\ UNCHANGED <<pending, listed>>

\* A stream without one: nobody is looked for.
ReceiveUnknown(m) ==
  /\ ~ToDefault(m) /\ m.arg1 \notin contexts
  /\ pending' = Append(pending, Len(received) + 1)
  /\ UNCHANGED <<queue, listed, loopVars>>

Receive ==
  /\ loop = "reading" /\ Len(received) < MaxMessages
  /\ status[0] # "unborn"
  /\ \E m \in FromDevice :
       /\ received' = Append(received, m)
       /\ ReceiveDefault(m) \/ ReceiveKnown(m) \/ ReceiveUnknown(m)
  /\ UNCHANGED <<contexts, waiters, status, given>>

-----------------------------------------------------------------------------
\* checkWaiters

Current == waiters[scanned][cursor]
AtWaiter == loop = "scanning" /\ cursor <= Len(waiters[scanned])
EraseCurrent == waiters' = [waiters EXCEPT ![scanned] = Without(@, cursor)]

\* What-if: the iterator steps back after the erasure, before begin().
CheckExpiredStepsBack ==
  /\ AtWaiter /\ Current.late
  /\ EraseCurrent
  /\ cursor' = cursor - 1 /\ callback' = {}
  /\ UNCHANGED <<received, contexts, queue, pending, listed, loop, scanned, status, given>>

\* An expired waiter is erased, its notify never called.
CheckExpired ==
  /\ AtWaiter /\ Current.late
  /\ EraseCurrent
  /\ callback' = {}
  /\ UNCHANGED <<received, contexts, queue, pending, listed, loop, scanned, cursor, status, given>>

\* What-if: expireTime is not looked at.
CheckMatchLate ==
  /\ AtWaiter
  /\ \E i \in FirstMatch(Current.cmds, Deque(scanned)) : HandOver(scanned, i)
  /\ EraseCurrent
  /\ callback' = {scanned}
  /\ UNCHANGED <<received, contexts, listed, loop, scanned, cursor>>

\* The waiter's message is there: erase the waiter, then call it.
CheckMatch ==
  /\ AtWaiter /\ ~Current.late
  /\ \E i \in FirstMatch(Current.cmds, Deque(scanned)) : HandOver(scanned, i)
  /\ EraseCurrent
  /\ callback' = {scanned}
  /\ UNCHANGED <<received, contexts, listed, loop, scanned, cursor>>

\* Nothing for this waiter: ++it.
CheckNext ==
  /\ AtWaiter /\ ~Current.late
  /\ FirstMatch(Current.cmds, Deque(scanned)) = {}
  /\ cursor' = cursor + 1 /\ callback' = {}
  /\ UNCHANGED <<sessionVars, loop, scanned, status, given>>

\* The end of the list: back to the read loop.
CheckEnd ==
  /\ loop = "scanning" /\ cursor > Len(waiters[scanned])
  /\ loop' = "reading" /\ scanned' = 0 /\ cursor' = 1 /\ callback' = {}
  /\ UNCHANGED <<sessionVars, status, given>>

CheckWaiters == CheckExpired \/ CheckMatch \/ CheckNext \/ CheckEnd

-----------------------------------------------------------------------------
Handler(s) == Open(s) \/ WaitAgain(s) \/ Remove(s) \/ TimeOut(s)

Next ==
  \/ StartConnect \/ ConnectWait
  \/ \E s \in Streams : Handler(s)
  \/ \E c \in Clients : Finish(c) \/ Expire(c)
  \/ Receive \/ CheckWaiters

\* checkWaiters is a loop of one thread.  Clients, device and clock are free.
Spec == Init /\ [][Next]_vars /\ WF_vars(CheckWaiters)

-----------------------------------------------------------------------------
\* Properties

RangeOf(q) == {q[i] : i \in DOMAIN q}

TypeOK ==
  /\ received \in Seq(Message) /\ contexts \in SUBSET Streams
  /\ queue \in [Streams -> Seq(Nat)] /\ pending \in Seq(Nat)
  /\ waiters \in [Clients -> Seq(Waiter)] /\ listed \in SUBSET Clients
  /\ loop \in {"reading", "scanning", "dead"} /\ scanned \in Clients
  /\ cursor \in Nat \ {0} /\ callback \in SUBSET Clients
  /\ status \in [Clients -> Status] /\ given \in [Clients -> Seq(Nat)]

(* Between two messages nobody waits for a message that is there: whatever *)
(* the order of arrival, of waits, of callbacks that wait again inside     *)
(* checkWaiters and of expiries, a waiter and its message never pass each  *)
(* other.                                                                  *)
NoMissedMatch ==
  loop = "reading" =>
    \A c \in Clients : \A i \in DOMAIN waiters[c] :
      ~waiters[c][i].late => FirstMatch(waiters[c][i].cmds, Deque(c)) = {}

(* A handler gets messages of its own stream only, and the handshake gets  *)
(* its own commands only, although both may share pendingMessages and a    *)
(* CNXN may carry any number where the others carry a stream.              *)
RightStream ==
  \A c \in Clients : \A n \in RangeOf(given[c]) :
    IF c = 0 THEN Cmd(n) \in Control ELSE Cmd(n) \in Data /\ received[n].arg1 = c

(* The read loop is never ended by findWaiters: a message never reaches a  *)
(* stream before somebody waited there.                                    *)
ReadLoopSurvives == loop # "dead"

(* Every message received is in exactly one place, once: in one queue, or  *)
(* with one client, or gone with the context of its stream, which no       *)
(* message of the handshake can be.                                        *)
Slots == {<<"pending", 0, i>> : i \in DOMAIN pending}
           \cup (UNION {{<<"queue", s, i>> : i \in DOMAIN queue[s]} : s \in contexts})
           \cup (UNION {{<<"given", c, i>> : i \in DOMAIN given[c]} : c \in Clients})
Rank(slot) == CASE slot[1] = "pending" -> pending[slot[3]]
                [] slot[1] = "queue" -> queue[slot[2]][slot[3]]
                [] slot[1] = "given" -> given[slot[2]][slot[3]]
ExactlyOnce ==
  /\ \A a, b \in Slots : Rank(a) = Rank(b) => a = b
  /\ \A n \in DOMAIN received : \/ \E a \in Slots : Rank(a) = n
                                \/ Cmd(n) \in Data /\ received[n].arg1 \in Streams \ contexts

(* Of one stream's messages with the same command, those handed out came   *)
(* before those still queued, and were handed out in the order they came.  *)
OrderKept ==
  \A c \in Clients :
    LET q == given[c] \o (IF c \in contexts \cup {0} THEN Deque(c) ELSE <<>>) IN
    \A i, j \in DOMAIN q : i < j /\ Cmd(q[i]) = Cmd(q[j]) => q[i] < q[j]

(* A client is resumed only while it waits: an answer that comes after the *)
(* timeout never runs the continuation of a wait that is over.             *)
ResumedOnce ==
  [][\A c \in Clients : status[c] \in {"overdue", "timedout", "done"} => given'[c] = given[c]]_vars

(* Whoever waits for a message that has arrived is resumed, unless its     *)
(* wait expires first.                                                     *)
WakeUp ==
  \A c \in Clients :
    (\E i \in DOMAIN waiters[c] :
       ~waiters[c][i].late /\ FirstMatch(waiters[c][i].cmds, Deque(c)) # {})
      ~> status[c] # "waiting"
=============================================================================
