---------------------------- MODULE SessionSend ----------------------------
(***************************************************************************)
(* The sending half of a DeviceSession (adbServer/context/DeviceSession):  *)
(* send(), called by any thread that has the session (pool workers that    *)
(* start a connection, handler coroutines), and doWrite(), whose           *)
(* completion handler runs on the thread that runs the io_context.  They   *)
(* share sendQueue_ under sendMutex_.                                      *)
(*                                                                         *)
(* asio::async_write is a composed operation: it hands the buffer to the   *)
(* socket piece by piece, and two of them in flight on one socket would    *)
(* interleave their bytes.  Nothing here forbids that by construction:     *)
(* `writes' keeps every operation ever started, and each one that is in    *)
(* progress may move a byte at any time.                                   *)
(*                                                                         *)
(* Packets are known by their rank of acceptance (the order in which       *)
(* push_back ran); a byte of the stream by its packet and its offset.      *)
(***************************************************************************)
EXTENDS Naturals, Sequences, FiniteSets

CONSTANTS Senders,      \* the threads that call send()
          MaxSends,     \* bound: calls of send() per thread
          Sizes         \* the lengths of the packets they send

ASSUME SendersAssumption  == IsFiniteSet(Senders)
ASSUME MaxSendsAssumption == MaxSends \in Nat
\* Every caller in src/ passes a packet built by AdbProtocol: never empty.
ASSUME PacketAssumption   == Sizes \subseteq Nat \ {0}

VARIABLES
  mutex,        \* sendMutex_ is held
  sendQueue,    \* sendQueue_, as packet ranks
  pc,           \* pc[s]: where thread s is in send()
  writing,      \* writing[s]: the local of send()
  calls,        \* calls[s]: how often s called send()
  writes,       \* every async_write started, oldest first
  accepted,     \* accepted[k]: length of the k-th packet pushed
  wire          \* the bytes the socket took, in order

vars == <<mutex, sendQueue, pc, writing, calls, writes, accepted, wire>>

PC == {"idle", "check", "push", "start"}

(* An async_write: the packet its buffer is, how many bytes are out, and   *)
(* how far it is.  "transfer": in progress.  "complete": done without      *)
(* error, its handler waits for sendMutex_.  "pop", "next": the handler    *)
(* holds the mutex and is before pop_front / before the emptiness test.    *)
(* "over": the handler returned.  "failed": it ended with an error.        *)
Status == {"transfer", "complete", "pop", "next", "over", "failed"}
Write == [pkt : Nat, off : Nat, st : Status]

Init ==
  /\ mutex = FALSE
  /\ sendQueue = <<>>
  /\ pc = [s \in Senders |-> "idle"]
  /\ writing = [s \in Senders |-> FALSE]
  /\ calls = [s \in Senders |-> 0]
  /\ writes = <<>>
  /\ accepted = <<>>
  /\ wire = <<>>

-----------------------------------------------------------------------------
\* send()

\* What-if: no lock_guard.
CanLockAnyway ==
  TRUE

\* std::lock_guard<std::mutex> lock(sendMutex_)
CanLock ==
  ~mutex

SendLock(s) ==
  /\ pc[s] = "idle"
  /\ calls[s] < MaxSends
  /\ CanLock
  /\ mutex' = TRUE
  /\ calls' = [calls EXCEPT ![s] = @ + 1]
  /\ pc' = [pc EXCEPT ![s] = "check"]
  /\ UNCHANGED <<sendQueue, writing, writes, accepted, wire>>

\* bool writing = !sendQueue_.empty()
SendCheck(s) ==
  /\ pc[s] = "check"
  /\ writing' = [writing EXCEPT ![s] = sendQueue # <<>>]
  /\ pc' = [pc EXCEPT ![s] = "push"]
  /\ UNCHANGED <<mutex, sendQueue, calls, writes, accepted, wire>>

\* What-if: push_front, the newest packet first.
SendPushFront(s) ==
  /\ pc[s] = "push"
  /\ \E size \in Sizes : accepted' = Append(accepted, size)
  /\ sendQueue' = <<Len(accepted) + 1>> \o sendQueue
  /\ pc' = [pc EXCEPT ![s] = "start"]
  /\ UNCHANGED <<mutex, writing, calls, writes, wire>>

\* What-if: an empty packet is pushed.
SendPushEmpty(s) ==
  /\ pc[s] = "push"
  /\ accepted' = Append(accepted, 0)
  /\ sendQueue' = Append(sendQueue, Len(accepted) + 1)
  /\ pc' = [pc EXCEPT ![s] = "start"]
  /\ UNCHANGED <<mutex, writing, calls, writes, wire>>

\* sendQueue_.push_back(data)
SendPush(s) ==
  /\ pc[s] = "push"
  /\ \E size \in Sizes : accepted' = Append(accepted, size)
  /\ sendQueue' = Append(sendQueue, Len(accepted) + 1)
  /\ pc' = [pc EXCEPT ![s] = "start"]
  /\ UNCHANGED <<mutex, writing, calls, writes, wire>>

\* doWrite(): an async_write of the front of the queue.
NewWrite ==
  [pkt |-> Head(sendQueue), off |-> 0, st |-> "transfer"]

\* What-if: start a write whether or not one is in progress.
MustStartAlways(s) ==
  TRUE

\* if (!writing) doWrite()
MustStart(s) ==
  ~writing[s]

\* The end of send(): leaving the scope releases the mutex.
SendStart(s) ==
  /\ pc[s] = "start"
  /\ writes' = IF MustStart(s) THEN Append(writes, NewWrite) ELSE writes
  /\ mutex' = FALSE
  /\ pc' = [pc EXCEPT ![s] = "idle"]
  /\ UNCHANGED <<sendQueue, writing, calls, accepted, wire>>

-----------------------------------------------------------------------------
\* The socket: what an async_write does while it is in progress.

SetStatus(i, st) == [writes EXCEPT ![i].st = st]

\* One more byte of the buffer is out.
Transfer(i) ==
  /\ writes[i].st = "transfer"
  /\ writes[i].off < accepted[writes[i].pkt]
  /\ writes' = [writes EXCEPT ![i].off = @ + 1]
  /\ wire' = Append(wire, [pkt |-> writes[i].pkt, off |-> writes[i].off + 1])
  /\ UNCHANGED <<mutex, sendQueue, pc, writing, calls, accepted>>

\* The whole buffer is out: the completion handler is queued.
Complete(i) ==
  /\ writes[i].st = "transfer"
  /\ writes[i].off = accepted[writes[i].pkt]
  /\ writes' = SetStatus(i, "complete")
  /\ UNCHANGED <<mutex, sendQueue, pc, writing, calls, accepted, wire>>

\* What-if: the handler pops the packet before it looks at ec.
FailPops(i) ==
  /\ writes[i].st = "transfer"
  /\ writes[i].off < accepted[writes[i].pkt]
  /\ writes' = SetStatus(i, "failed")
  /\ sendQueue' = Tail(sendQueue)
  /\ UNCHANGED <<mutex, pc, writing, calls, accepted, wire>>

\* The connection fails, or the socket is closed: the handler only logs, and
\* the packet stays at the front of the queue for ever.
Fail(i) ==
  /\ writes[i].st = "transfer"
  /\ writes[i].off < accepted[writes[i].pkt]
  /\ writes' = SetStatus(i, "failed")
  /\ UNCHANGED <<mutex, sendQueue, pc, writing, calls, accepted, wire>>

-----------------------------------------------------------------------------
\* The completion handler of doWrite(), on the io_context's thread.

HandlerLock(i) ==
  /\ writes[i].st = "complete"
  /\ CanLock
  /\ mutex' = TRUE
  /\ writes' = SetStatus(i, "pop")
  /\ UNCHANGED <<sendQueue, pc, writing, calls, accepted, wire>>

HandlerPop(i) ==
  /\ writes[i].st = "pop"
  /\ sendQueue' = Tail(sendQueue)
  /\ writes' = SetStatus(i, "next")
  /\ UNCHANGED <<mutex, pc, writing, calls, accepted, wire>>

\* What-if: the handler does not look for the next packet.
HandlerStops(i) ==
  /\ writes[i].st = "next"
  /\ writes' = SetStatus(i, "over")
  /\ mutex' = FALSE
  /\ UNCHANGED <<sendQueue, pc, writing, calls, accepted, wire>>

\* if (!sendQueue_.empty()) doWrite(); return, releasing the mutex.
HandlerNext(i) ==
  /\ writes[i].st = "next"
  /\ writes' = IF sendQueue = <<>> THEN SetStatus(i, "over")
               ELSE Append(SetStatus(i, "over"), NewWrite)
  /\ mutex' = FALSE
  /\ UNCHANGED <<sendQueue, pc, writing, calls, accepted, wire>>

-----------------------------------------------------------------------------
Sender(s) == SendLock(s) \/ SendCheck(s) \/ SendPush(s) \/ SendStart(s)

\* The socket and the thread that runs the io_context.
IO == \E i \in DOMAIN writes :
        Transfer(i) \/ Complete(i) \/ Fail(i)
          \/ HandlerLock(i) \/ HandlerPop(i) \/ HandlerNext(i)

Next == (\E s \in Senders : Sender(s)) \/ IO

(* A thread inside send() goes on, and an asynchronous write moves on or   *)
(* fails.  Whether a thread ever calls send() is up to it.                 *)
Fairness ==
  /\ \A s \in Senders : WF_vars(SendCheck(s) \/ SendPush(s) \/ SendStart(s))
  /\ WF_vars(IO)

Spec == Init /\ [][Next]_vars /\ Fairness

-----------------------------------------------------------------------------
\* Properties

Failed == \E i \in DOMAIN writes : writes[i].st = "failed"

\* The writes whose operation or handler is still to run.
Active == {i \in DOMAIN writes : writes[i].st \notin {"over", "failed"}}

InSend(s) == pc[s] # "idle"

\* The types, with packets that are never empty.
TypeOK ==
  /\ mutex \in BOOLEAN
  /\ sendQueue \in Seq(Nat)
  /\ pc \in [Senders -> PC]
  /\ writing \in [Senders -> BOOLEAN]
  /\ calls \in [Senders -> 0..MaxSends]
  /\ writes \in Seq(Write)
  /\ accepted \in Seq(Sizes)
  /\ wire \in Seq([pkt : Nat, off : Nat])

(* At most one async_write is under way, its handler included, and none    *)
(* beside a failed one: the doWrite of send() and the doWrite of the       *)
(* completion handler never both start one for the same queue.             *)
OneWrite == \A i, j \in DOMAIN writes :
              writes[i].st # "over" /\ writes[j].st # "over" => i = j

(* The bytes of a write are those of the packet at the front of the queue: *)
(* async_write reads the vector in sendQueue_ without a copy, so it must   *)
(* stay there until the operation is over.                                 *)
BufferAlive == \A i \in DOMAIN writes :
                 writes[i].st \in {"transfer", "complete", "pop"} =>
                   /\ sendQueue # <<>>
                   /\ Head(sendQueue) = writes[i].pkt

(* The stream is the packets in the order send() accepted them, each whole *)
(* before the next: no two packets are interleaved, none is sent twice or  *)
(* left out.                                                               *)
Follows(x, y) ==
  IF x.off < accepted[x.pkt] THEN y.pkt = x.pkt /\ y.off = x.off + 1
                             ELSE y.pkt = x.pkt + 1 /\ y.off = 1
WireInOrder ==
  /\ wire # <<>> => wire[1] = [pkt |-> 1, off |-> 1]
  /\ \A n \in 1 .. Len(wire) - 1 : Follows(wire[n], wire[n + 1])

(* No lost wake-up: a packet in the queue has a write that is under way, a *)
(* thread about to start one, or a failed write before it.                 *)
QueueIsServed ==
  sendQueue # <<>> => \/ Active # {}
                      \/ \E s \in Senders : pc[s] = "start" /\ ~writing[s]
                      \/ Failed

(* After a torn packet nothing more is written: the failed write's packet  *)
(* stays at the front, so no send() finds the queue empty again.           *)
SilentAfterFailure == [][Failed => UNCHANGED wire /\ Len(writes') = Len(writes)]_vars

(* The session implements the channel its callers rely on, its liveness    *)
(* included: what send() accepted goes out unless the connection fails.    *)
Channel == INSTANCE OutboundChannel WITH broken <- Failed
ImplementsChannel == Channel!Spec
=============================================================================
