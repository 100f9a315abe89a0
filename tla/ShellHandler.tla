---------------------------- MODULE ShellHandler ----------------------------
(***************************************************************************)
(* The shell handler on a blocking transport: openShell and execShell,     *)
(* called by the threads of the clients, which share the context of the    *)
(* device: shellRemoteId, and one shellLocalId for every stream.           *)
(* isOpenShell is never set, so that each command opens a stream of its    *)
(* own; none is closed.                                                    *)
(*                                                                         *)
(* The transport and the device are modelled from how the handler uses     *)
(* them.  SocketTransPort keeps bytes, not messages: what a wait does not  *)
(* expect is dropped.  A wait gives up when nothing it expects is there.   *)
(* The device answers OPEN with OKAY and a prompt, and a command with OKAY *)
(* and its output, in any number of WRTE, of which the last ends with the  *)
(* prompt or, when the prompt is cut in two, with a part of it; it writes  *)
(* again after the OKAY of the one before.  A command that never ends is   *)
(* left out.                                                               *)
(***************************************************************************)
EXTENDS Naturals, Sequences, FiniteSets

CONSTANTS Clients,
          MaxChunks      \* bound: WRTE of one output

ASSUME ChunksAssumption == MaxChunks \in Nat \ {0}

VARIABLES
  at,              \* at[c]: where the thread of client c is
  shellRemoteId,   \* of the context, assigned by reference; 0 at first
  local,           \* local[c]: the locals of openShell and execShell
  inbox,           \* messages of the device, in order
  shells,          \* the streams the device opened
  clean            \* so far no wait gave up, no two threads were in the handler
                   \* at once, and of an output the last WRTE alone looked like
                   \* one with a prompt

shellVars == <<at, shellRemoteId, local, inbox, shells, clean>>

(* got: gotOkay and gotWrte; wrtePayload: whether it has a prompt; remote:  *)
(* execShell's copy of shellRemoteId; wrtePayloads: the streams of what it *)
(* collected; result: what it returned.                                    *)
NoLocals == [got |-> {}, wrtePayload |-> FALSE, remote |-> 0, wrtePayloads |-> <<>>,
             result |-> FALSE]

InHandler == {"open", "opening", "opened", "exec", "okay", "write"}

ShellInit ==
  /\ at = [c \in Clients |-> "recv"]
  /\ shellRemoteId = 0 /\ local = [c \in Clients |-> NoLocals]
  /\ inbox = <<>> /\ shells = <<>> /\ clean = TRUE

Goes(c, there) == at' = [at EXCEPT ![c] = there]

\* Return from the handler.
Returns(c) == Goes(c, "recv") /\ local' = [local EXCEPT ![c] = NoLocals]

-----------------------------------------------------------------------------
\* The device.  okay: OKAY it owes; left: WRTE it has still to send; unacked: it
\* waits for the OKAY of the last one; size: WRTE of the last command.

DeviceOkay(k) ==
  /\ shells[k].okay > 0
  /\ shells' = [shells EXCEPT ![k].okay = @ - 1]
  /\ inbox' = Append(inbox, [cmd |-> "OKAY", arg0 |-> k, prompt |-> FALSE])
  /\ UNCHANGED <<at, shellRemoteId, local, clean>>

\* The last WRTE has the prompt, unless it is cut; another may end with a path and
\* a # or a $.
DeviceWrite(k) ==
  /\ shells[k].okay = 0 /\ shells[k].left > 0 /\ ~shells[k].unacked
  /\ shells' = [shells EXCEPT ![k].left = @ - 1, ![k].unacked = TRUE]
  /\ \E looks \in BOOLEAN :
       /\ inbox' = Append(inbox, [cmd |-> "WRTE", arg0 |-> k, prompt |-> looks])
       /\ clean' = (clean /\ (looks <=> shells[k].left = 1))
  /\ UNCHANGED <<at, shellRemoteId, local>>

\* The device gets our OKAY, our command, our OPEN.
Acks(k) == shells' = [shells EXCEPT ![k].unacked = FALSE]
Runs(k) == \E n \in 1 .. MaxChunks :
             shells' = [shells EXCEPT ![k].okay = @ + 1, ![k].left = @ + n, ![k].size = n]
Opens == shells' = Append(shells, [okay |-> 1, left |-> 1, unacked |-> FALSE, size |-> 0])

-----------------------------------------------------------------------------
\* The transport

FirstOf(cmd) == CHOOSE i \in DOMAIN inbox :
                  inbox[i].cmd = cmd /\ \A j \in 1 .. i - 1 : inbox[j].cmd # cmd
Expected(cmd) == \E i \in DOMAIN inbox : inbox[i].cmd = cmd
After(i) == SubSeq(inbox, i + 1, Len(inbox))

-----------------------------------------------------------------------------
\* openShell

OpenSend(c) ==
  /\ at[c] = "open" /\ Goes(c, "opening")
  /\ Opens
  /\ clean' = (clean /\ \A d \in Clients \ {c} : at[d] \notin InHandler)
  /\ UNCHANGED <<shellRemoteId, local, inbox>>

OpenRecv(c) ==
  /\ at[c] = "opening" /\ inbox # <<>>
  /\ inbox' = Tail(inbox)
  /\ LET m == Head(inbox)
     IN  /\ shellRemoteId' = IF m.cmd = "OKAY" THEN m.arg0 ELSE shellRemoteId
         /\ local' = [local EXCEPT ![c].got = @ \cup {m.cmd},
                                  ![c].wrtePayload = IF m.cmd = "WRTE" THEN m.prompt ELSE @]
         /\ Goes(c, IF local[c].got \cup {m.cmd} = {"OKAY", "WRTE"} THEN "opened" ELSE "opening")
  /\ UNCHANGED <<shells, clean>>

\* A prompt with a $: that of root, with a #, is none here, unlike in execShell.
Opened(c) == \/ local[c].wrtePayload /\ Goes(c, "exec") /\ UNCHANGED local
             \/ Returns(c)

\* Acknowledge the WRTE, and look for the prompt in it.
OpenAck(c) ==
  /\ at[c] = "opened" /\ Opened(c)
  /\ Acks(shellRemoteId)
  /\ UNCHANGED <<shellRemoteId, inbox, clean>>

-----------------------------------------------------------------------------
\* execShell

ExecSend(c) ==
  /\ at[c] = "exec" /\ Goes(c, "okay")
  /\ Runs(shellRemoteId)
  /\ local' = [local EXCEPT ![c].remote = shellRemoteId]
  /\ UNCHANGED <<shellRemoteId, inbox, clean>>

ExecOkay(c) ==
  /\ at[c] = "okay" /\ Expected("OKAY") /\ Goes(c, "write")
  /\ inbox' = After(FirstOf("OKAY"))
  /\ UNCHANGED <<shellRemoteId, local, shells, clean>>

\* What-if: the first WRTE is taken for the whole output.
Prompted(m) == TRUE

\* The output is over when a WRTE ends like a prompt.
Prompt(m) == m.prompt

\* What-if: the loop is left before the last WRTE is acknowledged.
AcknowledgesUnlessOver(c, m) == IF Prompt(m) THEN UNCHANGED shells ELSE Acks(local[c].remote)

\* "Every WRTE must be answered with OKAY."
Acknowledges(c, m) == Acks(local[c].remote)

ExecWrite(c) ==
  /\ at[c] = "write" /\ Expected("WRTE")
  /\ LET m == inbox[FirstOf("WRTE")]
     IN  /\ local' = [local EXCEPT ![c].wrtePayloads = Append(@, m.arg0),
                                  ![c].result = Prompt(m)]
         /\ Goes(c, IF Prompt(m) THEN "done" ELSE "write")
         /\ Acknowledges(c, m)
  /\ inbox' = After(FirstOf("WRTE"))
  /\ UNCHANGED <<shellRemoteId, clean>>

\* execShell is over, and CommandHandler returns true, whatever the result.
ExecDone(c) ==
  /\ at[c] = "done" /\ Returns(c)
  /\ UNCHANGED <<shellRemoteId, inbox, shells, clean>>

\* A wait of openShell came back with false: so does CommandHandler.
OpenGivesUp(c) ==
  /\ at[c] = "opening" /\ inbox = <<>>
  /\ clean' = FALSE /\ Returns(c)
  /\ UNCHANGED <<shellRemoteId, inbox, shells>>

\* What-if: the wait for the output has no end of its own.
ExecGivesUpNotOnOutput(c) ==
  /\ at[c] = "okay" /\ ~Expected("OKAY")
  /\ inbox' = <<>> /\ clean' = FALSE /\ Goes(c, "done")
  /\ UNCHANGED <<shellRemoteId, local, shells>>

\* One of execShell did: its result is false.
ExecGivesUp(c) ==
  /\ \/ at[c] = "okay" /\ ~Expected("OKAY")
     \/ at[c] = "write" /\ ~Expected("WRTE")
  /\ inbox' = <<>> /\ clean' = FALSE /\ Goes(c, "done")
  /\ UNCHANGED <<shellRemoteId, local, shells>>

CommandHandler(c) ==
  OpenSend(c) \/ OpenRecv(c) \/ OpenAck(c) \/ ExecSend(c) \/ ExecOkay(c) \/ ExecWrite(c)
    \/ ExecDone(c) \/ OpenGivesUp(c) \/ ExecGivesUp(c)
Device == \E k \in DOMAIN shells : DeviceOkay(k) \/ DeviceWrite(k)

-----------------------------------------------------------------------------
\* Properties

(* execShell collects all of the device's output for a command and nothing  *)
(* else, in however many WRTE it comes and whatever was run before, while  *)
(* no wait gives up, one thread at a time is in the handler, and the last   *)
(* WRTE of an output, and no other, looks like one with a prompt.          *)
OwnOutput ==
  clean => \A c \in Clients : at[c] = "done" =>
             LET k == local[c].remote
             IN  local[c].wrtePayloads = [i \in 1 .. shells[k].size |-> k]

(* A command the handler reports as executed was executed: its output came  *)
(* to its end.                                                             *)
ReportedIsExecuted == \A c \in Clients : at[c] = "done" => local[c].result

(* "Every WRTE must be answered with OKAY": between two commands no shell   *)
(* waits for one, and nothing is left for the next command to take.        *)
WritesAcked ==
  clean /\ (\A c \in Clients : at[c] \notin InHandler) =>
    inbox = <<>> /\ \A k \in DOMAIN shells : ~shells[k].unacked
=============================================================================
