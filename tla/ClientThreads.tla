---------------------------- MODULE ClientThreads ----------------------------
(***************************************************************************)
(* The threads of AdbServer that serve its clients: handleClient reads a   *)
(* command, notes it in the context of the device, which all threads       *)
(* share, and WifiServer::execute runs the handler of what is noted by     *)
(* then.  What is read may be a whole command, or a part of one or two,    *)
(* which json::parse throws at; when recv is interrupted, readMessage1     *)
(* returns true with the command of before, or the empty one of the start. *)
(* Nobody catches the exception: it ends the process, which is started     *)
(* anew.                                                                   *)
(*                                                                         *)
(* The push handler has a model of its own, PushHandler.                   *)
(***************************************************************************)
EXTENDS ShellHandler

CONSTANT MaxCommands     \* bound: commands read by all threads

ASSUME CommandsAssumption == MaxCommands \in Nat

VARIABLES
  type,         \* type[c]: the type of the command the thread of c is at
  cmd,          \* cmd.type in the context
  read,         \* how many commands were read
  terminated    \* std::terminate was called

clientVars == <<type, cmd, read, terminated>>
threadVars == <<shellVars, clientVars>>

Types == {"push", "select", "other"}

ClientInit ==
  /\ ShellInit
  /\ type = [c \in Clients |-> ""] /\ cmd = "Unknown" /\ read = 0 /\ terminated = FALSE

\* readMessage1 returned true, with a command (perhaps the last one again) or
\* with what is none.
ReadMessage(c) ==
  /\ at[c] = "recv" /\ read < MaxCommands
  /\ read' = read + 1
  /\ \/ \E t \in Types : type' = [type EXCEPT ![c] = t]
        /\ Goes(c, "parsed") /\ UNCHANGED terminated
     \/ terminated' = TRUE /\ UNCHANGED <<type, at>>
  /\ UNCHANGED <<shellRemoteId, local, inbox, shells, clean, cmd>>

\* The connection is closed, or the target is "all"; another one is accepted.
Leave(c) ==
  /\ at[c] = "recv" /\ Goes(c, "left")
  /\ UNCHANGED <<shellRemoteId, local, inbox, shells, clean, clientVars>>

Connect(c) ==
  /\ at[c] = "left" /\ Goes(c, "recv")
  /\ UNCHANGED <<shellRemoteId, local, inbox, shells, clean, clientVars>>

\* A type that is not known leaves the type of the command before.
NoteCommand(c) ==
  /\ at[c] = "parsed" /\ Goes(c, "execute")
  /\ cmd' = CASE type[c] = "push" -> "Push"
              [] type[c] = "select" -> "Shell"
              [] OTHER -> cmd
  /\ type' = [type EXCEPT ![c] = ""]
  /\ UNCHANGED <<shellRemoteId, local, inbox, shells, clean, read, terminated>>

\* execute writes its own two paths over the parameters that were noted; with
\* getHandler, which has no handler for Unknown.
Execute(c) ==
  /\ at[c] = "execute" /\ Goes(c, IF cmd = "Shell" THEN "open" ELSE "recv")
  /\ UNCHANGED <<shellRemoteId, local, inbox, shells, clean, clientVars>>

\* The process is started again; the device has closed its shells.
Restart ==
  /\ at' = [c \in Clients |-> "recv"] /\ local' = [c \in Clients |-> NoLocals]
  /\ shellRemoteId' = 0 /\ inbox' = <<>> /\ shells' = <<>> /\ clean' = TRUE
  /\ type' = [c \in Clients |-> ""] /\ cmd' = "Unknown" /\ terminated' = FALSE
  /\ UNCHANGED read

HandleClient(c) == NoteCommand(c) \/ Execute(c) \/ (CommandHandler(c) /\ UNCHANGED clientVars)

Thread(c) == ReadMessage(c) \/ Leave(c) \/ Connect(c) \/ HandleClient(c)

ClientNext ==
  \/ ~terminated /\ \E c \in Clients : Thread(c)
  \/ ~terminated /\ Device /\ UNCHANGED clientVars
  \/ terminated /\ Restart

\* A thread goes on, and its waits come to an end.
ClientSpec ==
  /\ ClientInit /\ [][ClientNext]_threadVars
  /\ \A c \in Clients : WF_threadVars(~terminated /\ HandleClient(c))

(* Every command comes to its end, whatever the other thread takes of the   *)
(* messages it waits for, unless the process does.                         *)
CommandEnds == \A c \in Clients : at[c] = "parsed" ~> at[c] = "recv" \/ terminated
=============================================================================
