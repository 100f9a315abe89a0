---------------------------- MODULE DeviceManager ----------------------------
(***************************************************************************)
(* The users of the registry: androidManager, which registers the devices  *)
(* a scan found and then connects to them, and DeviceManager, with a list  *)
(* of its own, which also removes and disconnects.  Both are QObjects of   *)
(* the GUI thread, and their slots run one at a time, beside the jobs.     *)
(* (devicemanager.cpp calls connectDevice, which AdbServer has renamed     *)
(* asyncConnectDevice.)                                                    *)
(***************************************************************************)
EXTENDS AdbServer

VARIABLES
  gui,        \* what the GUI thread does: a slot, its devices, its place in it
  listed,     \* DeviceManager's m_devices
  cut,        \* listed devices that were disconnected since they were added
  removed,    \* devices that ever were unregistered
  raced       \* those a job had looked up and not left at the time

managerVars == <<gui, listed, cut, removed, raced>>
allVars == <<serverVars, managerVars>>

(* slot: "idle", "added" (onDevicesAdded registers), "connect" (it then    *)
(* connects), "add" (addDevice), "disconnect" (disconnectDevice).  put: the *)
(* device that registerDevice has not found.                               *)
Idle == [slot |-> "idle", todo |-> {}, all |-> {}, put |-> {}]

ManagerInit ==
  /\ ServerInit
  /\ gui = Idle /\ listed = {} /\ cut = {} /\ removed = {} /\ raced = {}

Erases(d) ==
  /\ unregisterDevice(d)
  /\ removed' = removed \cup {d}
  /\ raced' = raced \cup {x \in {d} : \E j \in Running : jobs[j].dev = d}

-----------------------------------------------------------------------------
\* registerDevice, called in a slot for each device of todo

RegisterLook(d) ==
  /\ gui.slot \in {"added", "add"} /\ gui.put = {} /\ d \in gui.todo
  /\ gui' = [gui EXCEPT !.todo = @ \ {d}, !.put = IF IsRegistered(d) THEN {} ELSE {d}]
  /\ UNCHANGED <<serverVars, listed, cut, removed, raced>>

RegisterPut(d) ==
  /\ d \in gui.put
  /\ Register(d)
  /\ gui' = [gui EXCEPT !.put = {}]
  /\ UNCHANGED <<jobs, listed, cut, removed, raced>>

Registered == gui.todo = {} /\ gui.put = {}

-----------------------------------------------------------------------------
\* androidManager

\* (MaxJobs has room for the connections of the slot.)
onDevicesAdded(S) ==
  /\ gui = Idle /\ S # {} /\ Len(jobs) + Cardinality(S) <= MaxJobs
  /\ gui' = [Idle EXCEPT !.slot = "added", !.todo = S, !.all = S]
  /\ UNCHANGED <<serverVars, listed, cut, removed, raced>>

\* What-if: connections are started before the devices are registered.
ConnectLoopFirst ==
  /\ gui.slot = "added"
  /\ gui' = [Idle EXCEPT !.slot = "connect", !.todo = gui.all]
  /\ UNCHANGED <<serverVars, listed, cut, removed, raced>>

\* The first loop is over.
ConnectLoop ==
  /\ gui.slot = "added" /\ Registered
  /\ gui' = [Idle EXCEPT !.slot = "connect", !.todo = gui.all]
  /\ UNCHANGED <<serverVars, listed, cut, removed, raced>>

ConnectOne(d) ==
  /\ gui.slot = "connect" /\ d \in gui.todo
  /\ asyncConnectDevice(d)
  /\ gui' = IF gui.todo = {d} THEN Idle ELSE [gui EXCEPT !.todo = @ \ {d}]
  /\ UNCHANGED <<deviceContextMap, info, currentState, shook,
                 listed, cut, removed, raced>>

-----------------------------------------------------------------------------
\* DeviceManager

addDevice(d) ==
  /\ gui = Idle /\ d \notin listed
  /\ gui' = [Idle EXCEPT !.slot = "add", !.todo = {d}, !.all = {d}]
  /\ UNCHANGED <<serverVars, listed, cut, removed, raced>>

Added ==
  /\ gui.slot = "add" /\ Registered
  /\ listed' = listed \cup gui.all /\ gui' = Idle
  /\ UNCHANGED <<serverVars, cut, removed, raced>>

removeDevice(d) ==
  /\ gui = Idle /\ d \in listed
  /\ Erases(d)
  /\ listed' = listed \ {d} /\ cut' = cut \ {d}
  /\ UNCHANGED <<jobs, gui>>

connectDevice(d) ==
  /\ gui = Idle /\ d \in listed
  /\ asyncConnectDevice(d)
  /\ UNCHANGED <<deviceContextMap, info, currentState, shook, managerVars>>

\* disconnectDevice: nothing without a context; else setState, handle, unregister.
disconnectDevice(d) ==
  /\ gui = Idle /\ d \in listed /\ getDeviceContext(d) # None
  /\ setState(d, "disconnected")
  /\ gui' = [Idle EXCEPT !.slot = "disconnect", !.all = {d}]
  /\ UNCHANGED <<jobs, listed, cut, removed, raced>>

(* handle() is that of the state the context has by now: a job may have    *)
(* set another.                                                            *)
Disconnect(d) ==
  /\ gui.slot = "disconnect" /\ gui.all = {d} /\ getDeviceContext(d) # None
  /\ LET c == getDeviceContext(d)
     IN  \/ /\ ~Usable(c) \/ Entered(c)
            /\ Erases(d)
            /\ gui' = Idle /\ cut' = cut \cup {d}
            /\ UNCHANGED <<jobs, listed>>
         \/ Usable(c) /\ Enter(c) /\ UNCHANGED <<jobs, managerVars>>

-----------------------------------------------------------------------------

Job(j) == doConnectDevice(j) /\ UNCHANGED managerVars

Slots == \/ ConnectLoop \/ Added
         \/ \E d \in Devices : RegisterLook(d) \/ RegisterPut(d) \/ ConnectOne(d) \/ Disconnect(d)

Called == \/ \E S \in SUBSET Devices : onDevicesAdded(S)
          \/ \E d \in Devices : addDevice(d) \/ removeDevice(d) \/ connectDevice(d)
                                  \/ disconnectDevice(d)

ManagerNext == Slots \/ Called \/ \E j \in DOMAIN jobs : Job(j)

\* A slot that was entered is left, and the threads of the pool go on.
ManagerSpec ==
  /\ ManagerInit /\ [][ManagerNext]_allVars
  /\ WF_allVars(Slots) /\ \A j \in 1 .. MaxJobs : WF_allVars(j \in DOMAIN jobs /\ Job(j))

-----------------------------------------------------------------------------
\* Properties

ManagerTypeOK ==
  /\ deviceContextMap \in [Devices -> Contexts \cup {None}]
  /\ info \subseteq {c \in Contexts : Alive(c)} /\ shook \subseteq info
  /\ currentState \in [Contexts -> States]
  /\ jobs \in Seq([dev : Devices, ctx : Contexts \cup {None},
                   at : {"queued", "found", "handle", "done", "gone", "wild"}])
  /\ listed \subseteq Devices /\ cut \subseteq listed
  /\ \A d, e \in Devices : deviceContextMap[d] = deviceContextMap[e] /\ d # e =>
                             deviceContextMap[d] = None

(* A device is either registered with all it needs or not at all, what is   *)
(* listed and was not disconnected is registered, and no job follows a     *)
(* dead pointer, unless the device was unregistered under a job.           *)
RegistrySound ==
  \A d \in Devices \ raced :
    /\ getDeviceContext(d) = None \/ getDeviceContext(d) \in info
    /\ d \in listed \ cut => getDeviceContext(d) # None
    /\ \A j \in DOMAIN jobs : jobs[j].dev = d => jobs[j].at # "wild"

(* A device that is announced again while a job connects to it keeps its   *)
(* context and what the job has made of it.                                *)
ContextKept ==
  [][\A c \in info : Alive(c) /\ Alive(c)' /\ currentState[c] # "null" =>
       currentState'[c] # "null"]_allVars

(* Every connection that is asked for begins its handshake, unless the     *)
(* device is unregistered.                                                 *)
ConnectStarts ==
  \A j \in 1 .. MaxJobs :
    (j \in DOMAIN jobs /\ jobs[j].at = "queued") ~>
      /\ j \in DOMAIN jobs
      /\ jobs[j].dev \in removed \/ getDeviceContext(jobs[j].dev) \in shook
=============================================================================
