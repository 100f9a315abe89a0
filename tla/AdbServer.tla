------------------------------ MODULE AdbServer ------------------------------
(***************************************************************************)
(* The registry of devices (code/AdbServer) and the jobs that connect to   *)
(* them on the threads of the pool.  A context is known by its place in    *)
(* memory, so that a pointer can outlive it: getDeviceContext hands out a  *)
(* pointer into the map, unregisterDevice destroys what it points to, and  *)
(* setState looks the device up again, with operator[], which makes an     *)
(* empty context if there is none.  Each operation on the map is one step. *)
(*                                                                         *)
(* What a thread does that follows a dead pointer, or calls through a null *)
(* one, is undefined; the model follows such a thread no further.          *)
(***************************************************************************)
EXTENDS Naturals, Sequences, FiniteSets

CONSTANTS Devices,
          Workers,       \* threads of the pool that acceptSocket leaves to jobs
          Contexts,      \* places for contexts
          MaxJobs        \* bound: jobs ever submitted

ASSUME ServerAssumption == Workers \in Nat \ {0} /\ MaxJobs \in Nat
ASSUME ContextsAssumption == "none" \notin Contexts

VARIABLES
  deviceContextMap,   \* the place of a device's context, None if it has none
  info,               \* the contexts that registerDevice filled in
  currentState,       \* currentState[c]: the state of context c
  shook,              \* contexts whose session began a handshake
  jobs                \* the jobs of asyncConnectDevice, in the order of submission

serverVars == <<deviceContextMap, info, currentState, shook, jobs>>

None == "none"
States == {"null", "connecting", "authenticating", "executing", "disconnected"}

ServerInit ==
  /\ deviceContextMap = [d \in Devices |-> None]
  /\ info = {} /\ shook = {} /\ jobs = <<>>
  /\ currentState = [c \in Contexts |-> "null"]

-----------------------------------------------------------------------------
\* The registry

getDeviceContext(d) == deviceContextMap[d]
Alive(c) == \E d \in Devices : deviceContextMap[d] = c

\* Memory that is neither in use nor pointed to by a job (see "wild").
Free == {c \in Contexts : ~Alive(c) /\ \A j \in DOMAIN jobs : jobs[j].ctx # c}

\* deviceContextMap[d]: the context of d, made if there is none.
Slot(d) == IF getDeviceContext(d) = None THEN CHOOSE c \in Contexts : c \in Free
           ELSE getDeviceContext(d)

Put(d) ==
  /\ getDeviceContext(d) # None \/ Free # {}
  /\ deviceContextMap' = [deviceContextMap EXCEPT ![d] = Slot(d)]

setState(d, s) ==
  /\ Put(d)
  /\ currentState' = [currentState EXCEPT ![Slot(d)] = s]
  /\ UNCHANGED <<info, shook>>

\* What-if: registerDevice does not look whether the device is there.
IsRegisteredNever(d) == FALSE

\* registerDevice returns at once.
IsRegistered(d) == getDeviceContext(d) # None

\* registerDevice, after it found none: a new context with a server.
Register(d) ==
  /\ Put(d)
  /\ info' = info \cup {Slot(d)}
  /\ currentState' = [currentState EXCEPT ![Slot(d)] = "null"]
  /\ UNCHANGED shook

unregisterDevice(d) ==
  /\ deviceContextMap' = [deviceContextMap EXCEPT ![d] = None]
  /\ info' = info \ {getDeviceContext(d)} /\ shook' = shook \ {getDeviceContext(d)}
  /\ currentState' = [c \in Contexts |->
                        IF c = getDeviceContext(d) THEN "null" ELSE currentState[c]]

-----------------------------------------------------------------------------
\* The states: currentState->handle(ctx), which enters the next one

Usable(c) == Alive(c) /\ c \in info /\ currentState[c] # "null"

\* executing and disconnected enter no other state by themselves.
Entered(c) == currentState[c] \in {"executing", "disconnected"}

\* connect() returns true.
ConnectingState(c) ==
  /\ currentState[c] = "connecting"
  /\ currentState' = [currentState EXCEPT ![c] = "authenticating"]
  /\ UNCHANGED shook

\* auth() begins the handshake and returns true.
AuthenticatingState(c) ==
  /\ currentState[c] = "authenticating"
  /\ currentState' = [currentState EXCEPT ![c] = "executing"]
  /\ shook' = shook \cup {c}

Enter(c) == (ConnectingState(c) \/ AuthenticatingState(c)) /\ UNCHANGED <<deviceContextMap, info>>

-----------------------------------------------------------------------------
\* Jobs

(* at: "queued", "found" with the pointer, "handle" inside the states,     *)
(* "done", "gone" if there was no context, "wild".                         *)
asyncConnectDevice(d) ==
  /\ Len(jobs) < MaxJobs
  /\ jobs' = Append(jobs, [dev |-> d, at |-> "queued", ctx |-> None])

Running == {j \in DOMAIN jobs : jobs[j].at \in {"found", "handle"}}
JobGoes(j, there) ==
  jobs' = [jobs EXCEPT ![j].at = there,
                       ![j].ctx = IF there \in {"done", "wild"} THEN None ELSE @]

\* A worker takes the oldest job: doConnectDevice looks the context up.
Lookup(j) ==
  /\ jobs[j].at = "queued" /\ \A i \in 1 .. j - 1 : jobs[i].at # "queued"
  /\ Cardinality(Running) < Workers
  /\ LET c == getDeviceContext(jobs[j].dev)
     IN  jobs' = [jobs EXCEPT ![j].ctx = c, ![j].at = IF c = None THEN "gone" ELSE "found"]
  /\ UNCHANGED <<deviceContextMap, info, currentState, shook>>

\* What-if: the state is entered without being set.
SetNothing(j) ==
  /\ jobs[j].at = "found"
  /\ JobGoes(j, "handle")
  /\ UNCHANGED <<deviceContextMap, info, currentState, shook>>

Connecting(j) ==
  /\ jobs[j].at = "found"
  /\ setState(jobs[j].dev, "connecting")
  /\ JobGoes(j, "handle")

Handle(j) ==
  /\ jobs[j].at = "handle"
  /\ LET c == jobs[j].ctx
     IN  \/ /\ ~Usable(c) /\ JobGoes(j, "wild")
            /\ UNCHANGED <<deviceContextMap, info, currentState, shook>>
         \/ /\ Usable(c) /\ Entered(c) /\ JobGoes(j, "done")
            /\ UNCHANGED <<deviceContextMap, info, currentState, shook>>
         \/ Usable(c) /\ Enter(c) /\ UNCHANGED jobs

doConnectDevice(j) == Lookup(j) \/ Connecting(j) \/ Handle(j)
=============================================================================
