------------------------------ MODULE WifiAuth ------------------------------
(***************************************************************************)
(* The connection handshake (server/WifiServer) and the device states that *)
(* start it (states/), on a DeviceSession.  A pool thread enters the       *)
(* states one inside the other: connecting, authenticating, executing.     *)
(* auth() only queues CNXN and places the first wait; the rest of the      *)
(* handshake is a chain of callbacks, client 0 of the session.             *)
(*                                                                         *)
(* Devices differ: one knows our key, one asks its user, who accepts or    *)
(* does not, and one wants no authentication at all.                       *)
(*                                                                         *)
(* connect(), auth() and execute() of WifiServer return true whatever      *)
(* happens, so the branches of the states for false are never taken.       *)
(***************************************************************************)
EXTENDS DeviceSession

CONSTANT Auth   \* CMD_AUTH

ASSUME AuthAssumption == /\ Auth \in Control \ {Connect}
                         /\ {{Auth}, {Auth, Connect}, {Connect}} \subseteq ControlWaits

VARIABLES
  deviceState,     \* the state of the DeviceContext
  at,              \* which answer the handshake waits for
  outbox,          \* what the handshake sent, in order
  heard,           \* how much of it the device has answered
  device,          \* what kind of device it is
  online           \* the device takes commands

authVars == <<deviceState, at, outbox, heard, device, online>>
allVars == <<vars, authVars>>

Kinds == {"trusting", "asking", "refusing", "open"}

AuthInit ==
  /\ Init
  /\ deviceState = "disconnected" /\ at = "start"
  /\ outbox = <<>> /\ heard = 0
  /\ device \in Kinds /\ online = FALSE

\* The message a callback of the handshake was called with.
Answered == Cmd(given[0][Len(given[0])])

Sends(packet) == outbox' = Append(outbox, packet)

-----------------------------------------------------------------------------
\* The states

\* connect() has nothing to do and succeeds: authenticating, startConnect.
EnterAuth ==
  /\ deviceState = "disconnected"
  /\ StartConnect
  /\ deviceState' = "authenticating"
  /\ Sends("CNXN")
  /\ UNCHANGED <<at, heard, device, online>>

\* The wait is placed, auth() returns true, and executing is entered.
AuthReturns ==
  /\ deviceState = "authenticating"
  /\ ConnectWaitFor({Auth})
  /\ deviceState' = "executing" /\ at' = "token"
  /\ UNCHANGED <<outbox, heard, device, online>>

-----------------------------------------------------------------------------
\* The callbacks

\* What-if: only the acceptance is waited for.
HandleAuthTokenOnly ==
  /\ at = "token" /\ status[0] = "running"
  /\ Sends("SIGNATURE")
  /\ ConnectWaitFor({Connect})
  /\ at' = "verdict"
  /\ UNCHANGED <<deviceState, heard, device, online>>

\* What-if: the answer to the signature is handled as a token again.
HandleAuthTokenAgain ==
  /\ at = "token" /\ status[0] = "running"
  /\ Sends("SIGNATURE")
  /\ ConnectWaitFor({Auth, Connect})
  /\ UNCHANGED <<deviceState, at, heard, device, online>>

\* handleAuthToken
HandleAuthToken ==
  /\ at = "token" /\ status[0] = "running"
  /\ Sends("SIGNATURE")
  /\ ConnectWaitFor({Auth, Connect})
  /\ at' = "verdict"
  /\ UNCHANGED <<deviceState, heard, device, online>>

\* What-if: the two outcomes are mixed up.
RejectedMixedUp ==
  Answered = Connect

\* The command of the verdict: the key is not known to the device.
Rejected ==
  Answered = Auth

\* handleAuthRejected
HandleAuthRejected ==
  /\ at = "verdict" /\ status[0] = "running" /\ Rejected
  /\ Sends("PUBLIC KEY")
  /\ ConnectWaitFor({Connect})
  /\ at' = "key"
  /\ UNCHANGED <<deviceState, heard, device, online>>

\* handleAuthAccepted
HandleAuthAccepted ==
  /\ at = "key" \/ (at = "verdict" /\ ~Rejected)
  /\ status[0] = "running"
  /\ Finish(0)
  /\ at' = "accepted"
  /\ UNCHANGED <<deviceState, outbox, heard, device, online>>

Callback == HandleAuthToken \/ HandleAuthRejected \/ HandleAuthAccepted

-----------------------------------------------------------------------------
\* The device

\* Its answer to a packet of the handshake, if it has one.
Reply(packet) ==
  IF \/ packet = "CNXN" /\ device = "open"
     \/ packet = "SIGNATURE" /\ device = "trusting"
     \/ packet = "PUBLIC KEY" /\ device = "asking"
    THEN {[cmd |-> Connect, arg1 |-> DeviceMaxData]}
  ELSE IF packet = "PUBLIC KEY" THEN {} ELSE {[cmd |-> Auth, arg1 |-> 0]}

DeviceReplies ==
  /\ heard < Len(outbox)
  /\ \E m \in Reply(outbox[heard + 1]) :
       /\ Receive
       /\ received' = Append(received, m)
       /\ online' = (online \/ m.cmd = Connect)
  /\ heard' = heard + 1
  /\ UNCHANGED <<deviceState, at, outbox, device>>

\* An answer to a command handler.
DeviceServes ==
  /\ online
  /\ Receive
  /\ received'[Len(received')].cmd \in Data
  /\ UNCHANGED authVars

\* The command handlers, the clock, the loop of the session.
SessionStep ==
  /\ \/ \E s \in Streams : Handler(s) \/ Finish(s)
     \/ \E c \in Clients : Expire(c)
     \/ CheckWaiters
  /\ UNCHANGED authVars

AuthNext == EnterAuth \/ AuthReturns \/ Callback \/ DeviceReplies \/ DeviceServes \/ SessionStep

(* The worker leaves auth(), checkWaiters goes on, a callback that is due  *)
(* runs even though other messages keep coming, and the device answers     *)
(* what it has an answer for.  The clock is free.                          *)
AuthSpec ==
  /\ AuthInit /\ [][AuthNext]_allVars
  /\ WF_allVars(AuthReturns) /\ SF_allVars(Callback)
  /\ WF_allVars(CheckWaiters /\ UNCHANGED authVars) /\ SF_allVars(DeviceReplies)

-----------------------------------------------------------------------------
\* Properties

AuthTypeOK ==
  /\ deviceState \in {"disconnected", "authenticating", "executing"}
  /\ at \in {"start", "token", "verdict", "key", "accepted"}
  /\ outbox \in Seq({"CNXN", "SIGNATURE", "PUBLIC KEY"}) /\ Len(outbox) <= 3
  /\ heard \in 0..Len(outbox) /\ device \in Kinds /\ online \in BOOLEAN

(* The device's properties are filled in only for a device that let us in, *)
(* and a device that knows our key is not asked to learn it: a rejection   *)
(* and an acceptance are never taken for each other, although both may be  *)
(* waited for at once and wait in pendingMessages.                         *)
VerdictUnderstood ==
  /\ at = "accepted" => online
  /\ at = "key" => device \in {"asking", "refusing"}

(* A handshake that succeeded leaves no message of its own behind, which   *)
(* a later one on the session would take for an answer.                    *)
NothingStale ==
  at = "accepted" => \A i \in DOMAIN pending : Cmd(pending[i]) \in Data

(* With a device that answers, the handshake comes to its end, unless one  *)
(* of its waits expires: the two sides never wait for each other.          *)
HandshakeCompletes ==
  at = "token" /\ device \in {"trusting", "asking"} ~> at = "accepted" \/ status[0] = "overdue"

(* The states, the callbacks and the device use the session as             *)
(* DeviceSession says its clients and its device do.                       *)
UsesSession == Init /\ [][Next]_vars

(* Executing is entered, and "authentication succeeded" logged, only after *)
(* the device accepted.                                                    *)
ExecutesAuthenticated == deviceState = "executing" => online
=============================================================================
