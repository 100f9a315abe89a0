---------------------------- MODULE ServerSocket ----------------------------
(***************************************************************************)
(* The socket of AdbServer.  main submits a job that calls getInstance(),  *)
(* whose constructor runs start() and submits acceptSocket, and then       *)
(* start() itself.  start() makes a new socket in the member serverSocket, *)
(* binds it and makes it listen; a port takes one socket at a time.        *)
(* acceptSocket, on another worker, reads the member before every accept,  *)
(* which fails on a socket that does not listen, and waits on one that     *)
(* does, although the member may be assigned meanwhile.                    *)
(***************************************************************************)
EXTENDS Naturals

CONSTANT Clients

VARIABLES
  calls,          \* calls of start() that are over
  starting,       \* in start(): "no", "socket" and "bound" after these calls
  serverSocket,   \* the member: the sockets are numbered as they are made
  bound,          \* the sockets bound to ADB_PORT
  listening,      \* those that listen
  acceptor,       \* the socket acceptSocket waits on, 0 if none
  waiting,        \* clients whose connection the system keeps for a socket
  accepted        \* clients that have their thread

socketVars == <<calls, starting, serverSocket, bound, listening, acceptor, waiting, accepted>>

SocketInit ==
  /\ calls = 0 /\ starting = "no" /\ serverSocket = 0
  /\ bound = {} /\ listening = {} /\ acceptor = 0
  /\ waiting = [c \in Clients |-> 0] /\ accepted = {}

-----------------------------------------------------------------------------
\* start(), called by the constructor and then by main's job

Socket ==
  /\ starting = "no" /\ calls < 2
  /\ serverSocket' = serverSocket + 1 /\ starting' = "socket"
  /\ UNCHANGED <<calls, bound, listening, acceptor, waiting, accepted>>

\* bind fails, and start() returns, when the port has its socket.
Bind ==
  /\ starting = "socket"
  /\ \/ /\ bound = {}
        /\ bound' = {serverSocket} /\ starting' = "bound"
        /\ UNCHANGED calls
     \/ /\ bound # {}
        /\ calls' = calls + 1 /\ starting' = "no"
        /\ UNCHANGED bound
  /\ UNCHANGED <<serverSocket, listening, acceptor, waiting, accepted>>

Listen ==
  /\ starting = "bound"
  /\ listening' = listening \cup {serverSocket}
  /\ calls' = calls + 1 /\ starting' = "no"
  /\ UNCHANGED <<serverSocket, bound, acceptor, waiting, accepted>>

-----------------------------------------------------------------------------
\* acceptSocket(), from the end of the constructor on

\* A call on a socket that does not listen returns at once: nothing changes.
Accept ==
  /\ calls > 0 /\ acceptor = 0 /\ serverSocket \in listening
  /\ acceptor' = serverSocket
  /\ UNCHANGED <<calls, starting, serverSocket, bound, listening, waiting, accepted>>

Accepted(c) ==
  /\ acceptor # 0 /\ waiting[c] = acceptor
  /\ accepted' = accepted \cup {c}
  /\ waiting' = [waiting EXCEPT ![c] = 0]
  /\ acceptor' = 0
  /\ UNCHANGED <<calls, starting, serverSocket, bound, listening>>

\* A client connects to the port.
Connect(c) ==
  /\ waiting[c] = 0 /\ c \notin accepted
  /\ \E s \in listening : waiting' = [waiting EXCEPT ![c] = s]
  /\ UNCHANGED <<calls, starting, serverSocket, bound, listening, acceptor, accepted>>

-----------------------------------------------------------------------------
Starts == Socket \/ Bind \/ Listen
Accepts == Accept \/ \E c \in Clients : Accepted(c)

SocketNext == Starts \/ Accepts \/ \E c \in Clients : Connect(c)

\* Both jobs are on workers of the pool and go on.
SocketSpec == SocketInit /\ [][SocketNext]_socketVars
                /\ WF_socketVars(Starts) /\ WF_socketVars(Accepts)

(* A client that connected to the server is accepted in the end: "this->   *)
(* acceptSocket(); // listen", in a loop without an end.                   *)
ClientsAccepted == \A c \in Clients : waiting[c] # 0 ~> c \in accepted
=============================================================================
