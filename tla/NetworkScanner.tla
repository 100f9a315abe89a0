--------------------------- MODULE NetworkScanner ---------------------------
(***************************************************************************)
(* The periodic scan (NetworkScanner): a timer, sweeps over all targets,   *)
(* and an attempt to connect to each, with a timer of its own that closes  *)
(* the socket.  Handlers of asio run one at a time and a sweep is one      *)
(* handler; startAll and stopAll are called by another thread, at any      *)
(* moment.  A handler that is queued can no longer be cancelled.           *)
(* Which targets a sweep visits is the subject of IpRange.                 *)
(***************************************************************************)
EXTENDS Naturals

CONSTANTS Targets,     \* the addresses and ports of a sweep
          MaxDue       \* bound: handlers of the periodic timer in the queue

ASSUME MaxDueAssumption == MaxDue \in Nat \ {0}

VARIABLES
  online,      \* updateNetworkInfo finds a network
  enabled,     \* config_->periodicEnabled
  armed,       \* the periodic timer is running
  due,         \* its handlers in the queue, without an error
  sweeping,    \* scanFromIpRangeAny is running
  todo,        \* the targets it has not come to
  conn,        \* conn[t]: the attempt to connect to t
  timer,       \* timer[t]: the timer of the attempt
  closed,      \* the targets whose socket was closed
  found,       \* found[t]: device_callback was called, before or after the timeout
  going        \* start() found a network, and no sweep ended without one since

vars == <<online, enabled, armed, due, sweeping, todo, conn, timer, closed, found, going>>
periodic == <<online, enabled, armed, due, sweeping, todo, going>>
attempts == <<conn, timer, closed, found>>

(* conn: "open" while connecting, "ok" and "err" with the handler queued.  *)
(* timer: "due" with the handler queued, "over" after it or cancelled.     *)
Init ==
  /\ online \in BOOLEAN /\ enabled \in BOOLEAN
  /\ armed = FALSE /\ due = 0 /\ sweeping = FALSE /\ todo = {}
  /\ conn = [t \in Targets |-> "none"] /\ timer = [t \in Targets |-> "none"]
  /\ closed = {} /\ found = [t \in Targets |-> "no"] /\ going = FALSE

scanned_targets == {t \in Targets : conn[t] # "none"}

-----------------------------------------------------------------------------
\* The periodic timer

(* expires_after cancels a wait that is under way.  Without a network the  *)
(* timer is left as it is.                                                 *)
StartPeriodicScan == armed' = (armed \/ online)

Start ==
  /\ StartPeriodicScan
  /\ going' = (going \/ online)
  /\ UNCHANGED <<online, enabled, due, sweeping, todo, attempts>>

Stop ==
  /\ enabled' = FALSE /\ armed' = FALSE
  /\ UNCHANGED <<online, due, sweeping, todo, going, attempts>>

Expire ==
  /\ armed /\ due < MaxDue
  /\ armed' = FALSE /\ due' = due + 1
  /\ UNCHANGED <<online, enabled, sweeping, todo, going, attempts>>

\* What-if: the handler relies on the timer having been cancelled.
TickUnchecked ==
  /\ due > 0 /\ ~sweeping
  /\ due' = due - 1
  /\ sweeping' = TRUE /\ todo' = Targets
  /\ UNCHANGED <<online, enabled, armed, going, attempts>>

Tick ==
  /\ due > 0 /\ ~sweeping
  /\ due' = due - 1
  /\ \/ enabled /\ sweeping' = TRUE /\ todo' = Targets
     \/ ~enabled /\ UNCHANGED <<sweeping, todo>>
  /\ UNCHANGED <<online, enabled, armed, going, attempts>>

-----------------------------------------------------------------------------
\* A sweep

\* What-if: a target that was scanned is scanned again.
StartScanAgain(t) ==
  /\ t \in todo /\ todo' = todo \ {t}
  /\ conn' = [conn EXCEPT ![t] = "open"] /\ timer' = [timer EXCEPT ![t] = "armed"]
  /\ found' = [found EXCEPT ![t] = "no"]
  /\ UNCHANGED <<online, enabled, armed, due, sweeping, going, closed>>

StartScan(t) ==
  /\ t \in todo /\ todo' = todo \ {t}
  /\ \/ t \in scanned_targets /\ UNCHANGED <<conn, timer>>
     \/ /\ t \notin scanned_targets
        /\ conn' = [conn EXCEPT ![t] = "open"] /\ timer' = [timer EXCEPT ![t] = "armed"]
  /\ UNCHANGED <<online, enabled, armed, due, sweeping, going, closed, found>>

\* What-if: the timer is not set again.
SweepEndsForGood ==
  /\ sweeping /\ todo = {}
  /\ sweeping' = FALSE
  /\ UNCHANGED <<online, enabled, armed, due, todo, going, attempts>>

SweepEnd ==
  /\ sweeping /\ todo = {}
  /\ sweeping' = FALSE
  /\ StartPeriodicScan
  /\ going' = (going /\ online)
  /\ UNCHANGED <<online, enabled, due, todo, attempts>>

-----------------------------------------------------------------------------
\* The attempt to connect to a target

\* The connection is made, or fails.
Connected(t) ==
  /\ conn[t] = "open"
  /\ \E outcome \in {"ok", "err"} : conn' = [conn EXCEPT ![t] = outcome]
  /\ UNCHANGED <<periodic, timer, closed, found>>

TimerExpires(t) ==
  /\ timer[t] = "armed"
  /\ timer' = [timer EXCEPT ![t] = "due"]
  /\ UNCHANGED <<periodic, conn, closed, found>>

\* What-if: the timer of the attempt does not touch the socket.
TimeoutIgnored(t) ==
  /\ ~sweeping /\ timer[t] = "due"
  /\ timer' = [timer EXCEPT ![t] = "over"]
  /\ UNCHANGED <<periodic, conn, closed, found>>

\* close() ends a connection that is being made, with an error.
Timeout(t) ==
  /\ ~sweeping /\ timer[t] = "due"
  /\ timer' = [timer EXCEPT ![t] = "over"]
  /\ closed' = closed \cup {t}
  /\ conn' = [conn EXCEPT ![t] = IF @ = "open" THEN "err" ELSE @]
  /\ UNCHANGED <<periodic, found>>

\* device_callback, told apart by whether the timer has expired.
Report(t) == found' = [found EXCEPT ![t] = IF timer[t] = "armed" THEN "early" ELSE "late"]

\* What-if: the timer of the attempt goes on.
HandleConnectOnly(t) ==
  /\ ~sweeping /\ conn[t] \in {"ok", "err"}
  /\ conn' = [conn EXCEPT ![t] = "over"]
  /\ \/ conn[t] = "ok" /\ Report(t)
     \/ conn[t] = "err" /\ UNCHANGED found
  /\ UNCHANGED <<periodic, timer, closed>>

\* timer->cancel() and handleConnect
HandleConnect(t) ==
  /\ ~sweeping /\ conn[t] \in {"ok", "err"}
  /\ conn' = [conn EXCEPT ![t] = "over"]
  /\ timer' = [timer EXCEPT ![t] = IF @ = "armed" THEN "over" ELSE @]
  /\ \/ conn[t] = "ok" /\ Report(t)
     \/ conn[t] = "err" /\ UNCHANGED found
  /\ UNCHANGED <<periodic, closed>>

Attempt(t) == TimerExpires(t) \/ Timeout(t) \/ HandleConnect(t)

Connectivity == online' = ~online /\ UNCHANGED <<enabled, armed, due, sweeping, todo, going, attempts>>

Scan == Tick \/ SweepEnd \/ \E t \in Targets : StartScan(t)

Next ==
  \/ Start \/ Stop \/ Expire \/ Connectivity \/ Scan
  \/ \E t \in Targets : Connected(t) \/ Attempt(t)

(* Queued handlers run, also between sweeps that follow each other, and    *)
(* timers expire.  A host need not answer.                                 *)
Spec == /\ Init /\ [][Next]_vars
        /\ WF_vars(Scan) /\ \A t \in Targets : SF_vars(Attempt(t))

-----------------------------------------------------------------------------
\* Properties

ScannerTypeOK ==
  /\ {online, enabled, armed, sweeping, going} \subseteq BOOLEAN
  /\ due \in 0 .. MaxDue /\ todo \subseteq Targets /\ closed \subseteq Targets
  /\ conn \in [Targets -> {"none", "open", "ok", "err", "over"}]
  /\ timer \in [Targets -> {"none", "armed", "due", "over"}]
  /\ found \in [Targets -> {"no", "early", "late"}]
  /\ \A t \in Targets : /\ conn[t] = "none" <=> timer[t] = "none"
                        /\ conn[t] = "over" => timer[t] # "armed"
                        /\ found[t] # "no" => conn[t] = "over"
  /\ todo # {} => sweeping

(* A socket that was handed over before its timeout is not closed by it,   *)
(* and nothing is handed over after it was, in this or a later sweep.      *)
FoundStays ==
  [][\A t \in Targets :
       /\ found[t] # "no" => found'[t] = found[t]
       /\ found[t] = "early" => t \notin closed']_vars

(* After stop() no sweep begins, although a handler of the timer may be    *)
(* in the queue and a sweep that is running sets the timer again.          *)
StopHolds == [][~enabled /\ ~sweeping => ~sweeping']_vars

(* The periodic scan goes on until stop(), or until a sweep ends without a *)
(* network.                                                                *)
ScanGoesOn == going /\ enabled => armed \/ due > 0 \/ sweeping

(* Every attempt comes to its end, also one nobody answers.                *)
AttemptEnds == \A t \in Targets : conn[t] = "open" ~> conn[t] = "over"
=============================================================================
