---------------------------- MODULE PushHandler ----------------------------
(***************************************************************************)
(* The push handler (handlers/pushHandler) on a DeviceSession: each push   *)
(* is a coroutine with a stream of its own, which opens the sync service,  *)
(* sends SEND, the blocks of the file and DONE, each after the OKAY of the *)
(* one before, and CLSE.  Its waits, their expiry and the dispatch of the  *)
(* answers are the actions of DeviceSession: a step here is a step there,  *)
(* with the handler's own variables beside it.                             *)
(*                                                                         *)
(* The device answers OPEN, and every WRTE that names the id it gave the   *)
(* stream, with one OKAY, as late as it likes or never.  The messages of   *)
(* the handshake are left to DeviceSession.                                *)
(***************************************************************************)
EXTENDS DeviceSession, Integers, FiniteSets

CONSTANTS DeviceIds,   \* DeviceIds[s]: the id the device gives to stream s
          MaxBlocks    \* bound: blocks of a file

ASSUME DeviceIdsAssumption == DeviceIds \in [Streams -> Nat]
ASSUME BlocksAssumption == MaxBlocks \in Nat
ASSUME OkayAssumption == \A cmds \in DataWaits : "OKAY" \in cmds

VARIABLES
  at,              \* at[s]: which answer the handler of s waits for
  remote,          \* remote[s]: its local remote_id
  bound,           \* bound[s]: remoteId_ of the stream context
  opened,          \* openedServices holds "push"
  sent             \* sent[s]: the packets the handler of s sent, in order

pushVars == <<at, remote, bound, opened, sent>>
allVars == <<vars, pushVars>>

NoId == -1
At == {"start", "open", "send", "data", "done", "finished", "failed"}
Ended(s) == at[s] \in {"finished", "failed"}

PushInit ==
  /\ Init
  /\ at = [s \in Streams |-> "start"]
  /\ remote = [s \in Streams |-> NoId] /\ bound = [s \in Streams |-> 0]
  /\ opened = FALSE /\ sent = [s \in Streams |-> <<>>]

-----------------------------------------------------------------------------
\* The packets

\* sessionCtx->send(...): AdbProtocol puts the remote id into the packet.
Packet(what, id) == [what |-> what, remote |-> id]
Sends(s, packets) == sent' = [sent EXCEPT ![s] = @ \o packets]
Goes(s, there) == at' = [at EXCEPT ![s] = there]

Blocks(s) == Cardinality({i \in DOMAIN sent[s] : sent[s][i].what = "DATA"})

-----------------------------------------------------------------------------
\* CommandHandler

\* The service is not open: openSyn sends OPEN and waits.
Begin(s) ==
  /\ at[s] = "start" /\ ~opened
  /\ Open(s)
  /\ Sends(s, <<Packet("OPEN", 0)>>)
  /\ Goes(s, "open")
  /\ UNCHANGED <<remote, bound, opened>>

\* The service is marked as open: remote_id stays -1, and pushFile begins.
BeginOpened(s) ==
  /\ at[s] = "start" /\ opened
  /\ Open(s)
  /\ bound' = [bound EXCEPT ![s] = remote[s]]
  /\ Sends(s, <<Packet("SEND", remote[s])>>)
  /\ Goes(s, "send")
  /\ UNCHANGED <<remote, opened>>

\* What-if: arg1, our own id, is taken for the device's.
RemoteIdOfArg1(s) ==
  received[given[s][Len(given[s])]].arg1

\* The device's id of the stream, arg0 of the OKAY the handler got last.
RemoteIdOf(s) ==
  DeviceIds[received[given[s][Len(given[s])]].arg1]

\* openSyn got its OKAY: bind the ids, mark the service, send SEND.
OpenAcked(s) ==
  /\ at[s] = "open"
  /\ WaitAgain(s)
  /\ remote' = [remote EXCEPT ![s] = RemoteIdOf(s)]
  /\ bound' = [bound EXCEPT ![s] = RemoteIdOf(s)]
  /\ opened' = TRUE
  /\ Sends(s, <<Packet("SEND", RemoteIdOf(s))>>)
  /\ Goes(s, "send")

\* What-if: OPEN is tried again on the same stream.
OpenRetried(s) ==
  /\ at[s] = "open" /\ status[s] = "timedout" /\ CanRun(s)
  /\ contexts' = contexts \cup {s} /\ queue' = [queue EXCEPT ![s] = <<>>]
  /\ \E cmds \in DataWaits : AddWaiter(s, cmds)
  /\ Sends(s, <<Packet("OPEN", 0)>>)
  /\ UNCHANGED <<received, pending, given, loopVars, at, remote, bound, opened>>

\* openSyn did not: the context is removed.
OpenFailed(s) ==
  /\ at[s] = "open"
  /\ Remove(s)
  /\ Goes(s, "failed")
  /\ UNCHANGED <<remote, bound, opened, sent>>

-----------------------------------------------------------------------------
\* pushFile

\* What-if: two blocks are sent for one OKAY.
NextBlockTwice(s) ==
  /\ at[s] \in {"send", "data"} /\ Blocks(s) < MaxBlocks
  /\ WaitAgain(s)
  /\ Sends(s, <<Packet("DATA", remote[s]), Packet("DATA", remote[s])>>)
  /\ Goes(s, "data")
  /\ UNCHANGED <<remote, bound, opened>>

\* SEND or a block was acknowledged and the file has another block.
NextBlock(s) ==
  /\ at[s] \in {"send", "data"} /\ Blocks(s) < MaxBlocks
  /\ WaitAgain(s)
  /\ Sends(s, <<Packet("DATA", remote[s])>>)
  /\ Goes(s, "data")
  /\ UNCHANGED <<remote, bound, opened>>

\* The file has no more: DONE.
EndOfFile(s) ==
  /\ at[s] \in {"send", "data"}
  /\ WaitAgain(s)
  /\ Sends(s, <<Packet("DONE", remote[s])>>)
  /\ Goes(s, "done")
  /\ UNCHANGED <<remote, bound, opened>>

\* SEND was acknowledged and the file cannot be opened.
NoFile(s) ==
  /\ at[s] = "send" /\ status[s] = "running"
  /\ Finish(s)
  /\ Goes(s, "failed")
  /\ UNCHANGED <<remote, bound, opened, sent>>

\* DONE was acknowledged: CLSE, and the push is reported as finished.
DoneAcked(s) ==
  /\ at[s] = "done" /\ status[s] = "running"
  /\ Finish(s)
  /\ Sends(s, <<Packet("CLSE", remote[s])>>)
  /\ Goes(s, "finished")
  /\ UNCHANGED <<remote, bound, opened>>

\* What-if: the answer is not looked at: an empty one ends the push as well.
GiveUpSilently(s) ==
  /\ at[s] \in {"send", "data", "done"} /\ status[s] = "timedout"
  /\ Finish(s)
  /\ Goes(s, "finished")
  /\ UNCHANGED <<remote, bound, opened, sent>>

\* The wait came back without an OKAY.
GiveUp(s) ==
  /\ at[s] \in {"send", "data", "done"} /\ status[s] = "timedout"
  /\ Finish(s)
  /\ Goes(s, "failed")
  /\ UNCHANGED <<remote, bound, opened, sent>>

-----------------------------------------------------------------------------
\* The device and the session

\* The packets of s the device has an answer for, and its answers so far.
Answerable(s) ==
  {i \in DOMAIN sent[s] : \/ sent[s][i].what = "OPEN"
                          \/ /\ sent[s][i].what \in {"SEND", "DATA", "DONE"}
                             /\ sent[s][i].remote = DeviceIds[s]}
Answers(s) == {n \in DOMAIN received : received[n].arg1 = s}
Owed(s) == Cardinality(Answerable(s)) - Cardinality(Answers(s))

Answer(s) ==
  /\ Owed(s) > 0
  /\ Receive
  /\ received' = Append(received, [cmd |-> "OKAY", arg1 |-> s])
  /\ UNCHANGED pushVars

SessionStep ==
  /\ \/ StartConnect \/ (status[0] = "starting" /\ ConnectWait)
     \/ CheckWaiters \/ \E s \in Streams : Expire(s) \/ TimeOut(s)
  /\ UNCHANGED pushVars

Step(s) == Begin(s) \/ BeginOpened(s) \/ OpenAcked(s) \/ OpenFailed(s) \/ NextBlock(s)
             \/ EndOfFile(s) \/ NoFile(s) \/ DoneAcked(s) \/ GiveUp(s)

PushNext == SessionStep \/ \E s \in Streams : Step(s) \/ Answer(s)

(* checkWaiters goes on, the device answers what it has an answer for, and  *)
(* the io_context gets to what is in the socket and to every resumed        *)
(* handler although other messages keep coming.  The clock is free: an      *)
(* answer may be late.  Nothing brings an overdue handler back for sure.    *)
PushSpec ==
  /\ PushInit /\ [][PushNext]_allVars
  /\ WF_allVars(CheckWaiters /\ UNCHANGED pushVars)
  /\ \A s \in Streams : /\ SF_allVars(Step(s) /\ at[s] # "start")
                        /\ SF_allVars(Answer(s))

-----------------------------------------------------------------------------
\* Properties

PushTypeOK ==
  /\ at \in [Streams -> At] /\ opened \in BOOLEAN
  /\ remote \in [Streams -> Nat \cup {NoId}] /\ bound \in [Streams -> Nat \cup {NoId}]
  /\ \A s \in Streams : Blocks(s) <= MaxBlocks

(* At most one packet of a push is unanswered at any time, whatever the    *)
(* dispatch, the other push and the timeouts do.                           *)
OneInFlight == \A s \in Streams : Owed(s) \in {0, 1}

(* A push that reports success had every packet acknowledged by the device *)
(* and its DONE was one of them.                                           *)
SuccessIsAcknowledged ==
  \A s \in Streams : at[s] = "finished" =>
    /\ Owed(s) = 0
    /\ \E i \in Answerable(s) : sent[s][i].what = "DONE"

SentOpen(s) == \E i \in DOMAIN sent[s] : sent[s][i].what = "OPEN"

(* A push that opened its stream addresses the stream the device opened    *)
(* for it.                                                                 *)
OwnStream ==
  \A s \in Streams : \A i \in DOMAIN sent[s] :
    SentOpen(s) =>
      sent[s][i].what = "OPEN" \/ sent[s][i].remote = DeviceIds[s]

(* Every push of a session addresses the stream the device opened for it,  *)
(* also the ones after the first ("the push service is open: bind          *)
(* remote_id directly").                                                   *)
RemoteIdBound ==
  \A s \in Streams : \A i \in DOMAIN sent[s] :
    sent[s][i].what # "OPEN" => sent[s][i].remote # NoId

(* The handler uses the session as DeviceSession says its clients do, so   *)
(* that what holds of every client holds of it.                            *)
UsesSession == Init /\ [][Next]_vars

(* With a device that answers in time, a push that opened its stream comes *)
(* to its end, whatever the other push and the handshake do: it never      *)
(* waits on for an answer that was given.  A push whose answer is late may  *)
(* stay where it is, and does not stay if it is resumed.                   *)
PushEnds ==
  \A s \in Streams : SentOpen(s) ~> Ended(s) \/ status[s] = "overdue"
=============================================================================
