---------------------------- MODULE Server_proofs ----------------------------
(***************************************************************************)
(* What the server keeps for all its devices and clients, for every number *)
(* of them: the registry with its managers and jobs (AdbServer and         *)
(* DeviceManager), the conversation of the clients' threads with the       *)
(* shells of the device (ShellHandler and ClientThreads), the pair of keys *)
(* (KeyStore), and the grid of the device window (ShowLayout).  The four   *)
(* share no variable; each part of this module states the inductive        *)
(* invariant of one, proves it an action at a time, and ends with its      *)
(* theorems.                                                               *)
(***************************************************************************)
EXTENDS DeviceManager, ClientThreads, KeyStore, ShowLayout, SequenceTheorems, WellFoundedInduction,
        TLAPS

-----------------------------------------------------------------------------
(***************************************************************************)
(* The registry                                                            *)
(***************************************************************************)
\* The inductive invariant of the registry

(* Everyone has a place of his own, and what is filled in is in the map.   *)
MapInv ==
  /\ deviceContextMap \in [Devices -> Contexts \cup {None}]
  /\ info \subseteq {c \in Contexts : Alive(c)} /\ shook \subseteq info
  /\ currentState \in [Contexts -> States]
  /\ \A d, e \in Devices : deviceContextMap[d] = deviceContextMap[e] /\ d # e =>
                             deviceContextMap[d] = None

JobPlaces == {"queued", "found", "handle", "done", "gone", "wild"}
JobSet == [dev : Devices, ctx : Contexts \cup {None}, at : JobPlaces]

GuiSet == [slot : {"idle", "added", "connect", "add", "disconnect"},
           todo : SUBSET Devices, all : SUBSET Devices, put : SUBSET Devices]

(* The GUI thread registers one device at a time.  A device it is about to *)
(* register had no context when it looked; if a job has made one since, it *)
(* is an empty one.  What addDevice will list is registered when it is     *)
(* done, and what disconnectDevice works on is listed.                     *)
SlotInv ==
  /\ gui \in GuiSet
  /\ \A d, e \in gui.put : d = e
  /\ \A d \in gui.put : getDeviceContext(d) \notin info
  /\ gui.slot = "add" =>
       \A d \in gui.all : d \in gui.todo \cup gui.put \/ getDeviceContext(d) # None
  /\ gui.slot = "disconnect" => gui.all \subseteq listed

(* A listed device that was not disconnected is registered, and what is    *)
(* registered was filled in, unless the device was unregistered under a    *)
(* job.                                                                    *)
ListedInv ==
  /\ \A d \in listed \ cut : getDeviceContext(d) # None
  /\ \A d \in Devices \ raced : getDeviceContext(d) = None \/ getDeviceContext(d) \in info

(* The pointer a job holds is the one in the map, to a context that is     *)
(* filled in, and whose state was set when the job enters it, unless the   *)
(* device was unregistered under the job.                                  *)
JobSound(j) ==
  /\ jobs[j].at # "wild"
  /\ jobs[j].at \in {"found", "handle"} =>
       /\ jobs[j].ctx # None /\ jobs[j].ctx = getDeviceContext(jobs[j].dev)
       /\ jobs[j].ctx \in info
  /\ jobs[j].at = "handle" => currentState[jobs[j].ctx] # "null"

JobsSound == \A j \in DOMAIN jobs : jobs[j].dev \notin raced => JobSound(j)

ManagerInv ==
  /\ MapInv /\ jobs \in Seq(JobSet) /\ listed \subseteq Devices /\ cut \subseteq listed
  /\ SlotInv /\ ListedInv /\ JobsSound

-----------------------------------------------------------------------------
\* What the operations of the registry do to it

(* A step that takes away nothing from the devices outside X: a context    *)
(* stays where it is, filled in, and with a state if it had one.           *)
Spares(X) ==
  \A e \in Devices \ X :
    /\ getDeviceContext(e) # None => getDeviceContext(e)' = getDeviceContext(e)
    /\ getDeviceContext(e) \in info =>
         /\ getDeviceContext(e) \in info'
         /\ currentState[getDeviceContext(e)] # "null" =>
              currentState'[getDeviceContext(e)] # "null"

LEMMA NoneIsNoContext == None \notin Contexts
  BY ContextsAssumption DEF None

LEMMA StatesAre ==
  /\ "null" \in States /\ "connecting" \in States /\ "authenticating" \in States
  /\ "executing" \in States /\ "disconnected" \in States
  /\ "connecting" # "null" /\ "authenticating" # "null" /\ "executing" # "null"
  /\ "disconnected" # "null"
  BY DEF States

LEMMA SlotIs ==
  ASSUME MapInv, NEW d \in Devices, Put(d)
  PROVE  /\ Slot(d) \in Contexts
         /\ getDeviceContext(d) # None => Slot(d) = getDeviceContext(d)
         /\ getDeviceContext(d) = None => /\ ~Alive(Slot(d))
                                          /\ \A j \in DOMAIN jobs : jobs[j].ctx # Slot(d)
  <1>1. CASE getDeviceContext(d) # None
    BY <1>1 DEF Slot, MapInv, getDeviceContext
  <1>2. CASE getDeviceContext(d) = None
    <2>1. \E c \in Contexts : c \in Free
      BY <1>2 DEF Put, Free
    <2>2. Slot(d) \in Contexts /\ Slot(d) \in Free
      BY <1>2, <2>1 DEF Slot
    <2> QED  BY <1>2, <2>2 DEF Free
  <1> QED  BY <1>1, <1>2

LEMMA PutDoes ==
  ASSUME MapInv, NEW d \in Devices, Put(d)
  PROVE  /\ deviceContextMap' \in [Devices -> Contexts \cup {None}]
         /\ deviceContextMap'[d] = Slot(d)
         /\ \A e \in Devices \ {d} : /\ deviceContextMap'[e] = deviceContextMap[e]
                                     /\ deviceContextMap[e] # Slot(d)
         /\ \A c : Alive(c) => Alive(c)' \/ c = None
         /\ \A x, y \in Devices : deviceContextMap'[x] = deviceContextMap'[y] /\ x # y =>
                                    deviceContextMap'[x] = None
  <1>1. deviceContextMap' = [deviceContextMap EXCEPT ![d] = Slot(d)] /\ Slot(d) \in Contexts
    BY SlotIs DEF Put
  <1>2. deviceContextMap \in [Devices -> Contexts \cup {None}]
    BY DEF MapInv
  <1>3. /\ deviceContextMap' \in [Devices -> Contexts \cup {None}]
        /\ deviceContextMap'[d] = Slot(d)
        /\ \A e \in Devices \ {d} : deviceContextMap'[e] = deviceContextMap[e]
    BY <1>1, <1>2
  <1>4. \A e \in Devices \ {d} : deviceContextMap[e] # Slot(d)
    <2> SUFFICES ASSUME NEW e \in Devices \ {d}, deviceContextMap[e] = Slot(d) PROVE FALSE
      OBVIOUS
    <2>1. CASE getDeviceContext(d) = None
      BY <2>1, SlotIs DEF Alive
    <2>2. CASE getDeviceContext(d) # None
      BY <2>2, SlotIs DEF MapInv, getDeviceContext
    <2> QED  BY <2>1, <2>2
  <1>5. \A c : Alive(c) => Alive(c)' \/ c = None
    <2> SUFFICES ASSUME NEW c, NEW e \in Devices, deviceContextMap[e] = c, c # None
                 PROVE  deviceContextMap'[e] = c
      BY DEF Alive
    <2>1. CASE e = d
      BY <1>3, <2>1, SlotIs DEF getDeviceContext
    <2>2. CASE e # d
      BY <1>3, <2>2
    <2> QED  BY <2>1, <2>2
  <1>6. \A x, y \in Devices : deviceContextMap'[x] = deviceContextMap'[y] /\ x # y =>
                                deviceContextMap'[x] = None
    BY <1>3, <1>4 DEF MapInv
  <1> QED  BY <1>3, <1>4, <1>5, <1>6

LEMMA StateSet ==
  ASSUME MapInv, NEW d \in Devices, NEW s \in States, s # "null", setState(d, s)
  PROVE  /\ MapInv' /\ Spares({}) /\ info' = info
         /\ \A e \in Devices \ {d} : getDeviceContext(e)' = getDeviceContext(e)
         /\ getDeviceContext(d)' \in info => getDeviceContext(d) \in info
         /\ getDeviceContext(d) # None => currentState'[getDeviceContext(d)] = s
  <1>1. Put(d) /\ currentState' = [currentState EXCEPT ![Slot(d)] = s] /\ UNCHANGED <<info, shook>>
    BY DEF setState
  <1>2. Slot(d) \in Contexts /\ (getDeviceContext(d) # None => Slot(d) = getDeviceContext(d))
    BY <1>1, SlotIs
  <1>3. currentState' \in [Contexts -> States]
    BY <1>1, <1>2 DEF MapInv
  <1>4. info' \subseteq {c \in Contexts : Alive(c)'}
    BY <1>1, PutDoes, NoneIsNoContext DEF MapInv
  <1>5. MapInv'
    BY <1>1, <1>3, <1>4, PutDoes DEF MapInv
  <1>6. \A e \in Devices : getDeviceContext(e) # None => getDeviceContext(e)' = getDeviceContext(e)
    BY <1>1, <1>2, PutDoes DEF getDeviceContext
  <1>7. \A c \in info : currentState[c] # "null" => currentState'[c] # "null"
    BY <1>1, <1>2 DEF MapInv
  <1>8. Spares({})
    BY <1>1, <1>6, <1>7 DEF Spares
  <1>9. getDeviceContext(d)' \in info => getDeviceContext(d) \in info
    BY <1>1, <1>2, SlotIs, PutDoes DEF MapInv, getDeviceContext
  <1> QED  BY <1>1, <1>2, <1>5, <1>8, <1>9, PutDoes DEF MapInv, getDeviceContext

LEMMA Registers ==
  ASSUME MapInv, NEW d \in Devices, getDeviceContext(d) \notin info, Register(d)
  PROVE  /\ MapInv' /\ Spares({})
         /\ getDeviceContext(d)' \in info' /\ getDeviceContext(d)' # None
         /\ \A e \in Devices \ {d} : getDeviceContext(e)' = getDeviceContext(e)
  <1>1. /\ Put(d) /\ currentState' = [currentState EXCEPT ![Slot(d)] = "null"]
        /\ info' = info \cup {Slot(d)} /\ UNCHANGED shook
    BY DEF Register
  <1>2. Slot(d) \in Contexts /\ (getDeviceContext(d) # None => Slot(d) = getDeviceContext(d))
    BY <1>1, SlotIs
  <1>3. currentState' \in [Contexts -> States]
    BY <1>1, <1>2, StatesAre DEF MapInv
  <1>4. info' \subseteq {c \in Contexts : Alive(c)'}
    <2>1. \A c : c = Slot(d) => Alive(c)'
      BY <1>1, PutDoes DEF Alive
    <2>2. \A c \in info : c \in Contexts /\ Alive(c)'
      BY <1>1, PutDoes, NoneIsNoContext DEF MapInv
    <2> QED  BY <1>1, <1>2, <2>1, <2>2
  <1>5. MapInv'
    BY <1>1, <1>3, <1>4, PutDoes DEF MapInv
  <1>6. \A e \in Devices : getDeviceContext(e) # None => getDeviceContext(e)' = getDeviceContext(e)
    BY <1>1, <1>2, PutDoes DEF getDeviceContext
  <1>7. Slot(d) \notin info
    BY <1>1, <1>2, SlotIs DEF MapInv
  <1>8. \A c \in info : currentState[c] # "null" => currentState'[c] # "null"
    BY <1>1, <1>7 DEF MapInv
  <1>9. Spares({})
    BY <1>1, <1>6, <1>8 DEF Spares
  <1> QED  BY <1>1, <1>2, <1>5, <1>9, PutDoes, NoneIsNoContext DEF getDeviceContext

LEMMA Unregisters ==
  ASSUME MapInv, NEW d \in Devices, unregisterDevice(d)
  PROVE  /\ MapInv' /\ Spares({d}) /\ getDeviceContext(d)' = None
         /\ \A e \in Devices \ {d} : getDeviceContext(e)' = getDeviceContext(e)
         /\ info' = info \ {getDeviceContext(d)}
  <1> DEFINE gone == getDeviceContext(d)
  <1>1. /\ deviceContextMap' = [deviceContextMap EXCEPT ![d] = None]
        /\ info' = info \ {gone} /\ shook' = shook \ {gone}
        /\ currentState' = [c \in Contexts |-> IF c = gone THEN "null" ELSE currentState[c]]
    BY DEF unregisterDevice
  <1>2. /\ deviceContextMap' \in [Devices -> Contexts \cup {None}] /\ deviceContextMap'[d] = None
        /\ \A e \in Devices \ {d} : deviceContextMap'[e] = deviceContextMap[e]
    BY <1>1 DEF MapInv
  <1>3. info' \subseteq {c \in Contexts : Alive(c)'}
    <2> SUFFICES ASSUME NEW c \in info, c # gone PROVE c \in Contexts /\ Alive(c)'
      BY <1>1
    <2>1. c \in Contexts /\ Alive(c)
      BY DEF MapInv
    <2>2. PICK e \in Devices : deviceContextMap[e] = c
      BY <2>1 DEF Alive
    <2>3. deviceContextMap'[e] = c
      BY <1>2, <2>2 DEF getDeviceContext
    <2> QED  BY <2>1, <2>3 DEF Alive
  <1>4. currentState' \in [Contexts -> States]
    BY <1>1, StatesAre DEF MapInv
  <1>5. \A x, y \in Devices : deviceContextMap'[x] = deviceContextMap'[y] /\ x # y =>
                                deviceContextMap'[x] = None
    BY <1>2 DEF MapInv
  <1>6. MapInv'
    BY <1>1, <1>2, <1>3, <1>4, <1>5 DEF MapInv
  <1>7. \A e \in Devices \ {d} : getDeviceContext(e) # None => getDeviceContext(e) # gone
    BY DEF MapInv, getDeviceContext
  <1>8. Spares({d})
    <2> SUFFICES ASSUME NEW e \in Devices \ {d}, getDeviceContext(e) \in info
                 PROVE  /\ getDeviceContext(e) \in info'
                        /\ currentState[getDeviceContext(e)] # "null" =>
                             currentState'[getDeviceContext(e)] # "null"
      BY <1>2 DEF Spares, getDeviceContext
    <2>1. getDeviceContext(e) \in Contexts /\ getDeviceContext(e) # gone
      BY <1>7, NoneIsNoContext DEF MapInv
    <2> QED  BY <1>1, <2>1
  <1> QED  BY <1>1, <1>2, <1>6, <1>8 DEF getDeviceContext

LEMMA Enters ==
  ASSUME MapInv, NEW c, Usable(c), Enter(c)
  PROVE  MapInv' /\ Spares({}) /\ info' = info
  <1>1. c \in info /\ c \in Contexts /\ UNCHANGED <<deviceContextMap, info>>
    BY DEF Usable, Enter, MapInv
  <1>2. PICK s \in States \ {"null"} : currentState' = [currentState EXCEPT ![c] = s]
    BY StatesAre DEF Enter, ConnectingState, AuthenticatingState
  <1>3. shook' \subseteq info
    BY <1>1 DEF Enter, ConnectingState, AuthenticatingState, MapInv
  <1>4. currentState' \in [Contexts -> States]
    BY <1>1, <1>2 DEF MapInv
  <1>5. MapInv'
    BY <1>1, <1>3, <1>4 DEF MapInv, Alive
  <1>6. \A x \in info : currentState[x] # "null" => currentState'[x] # "null"
    BY <1>1, <1>2 DEF MapInv
  <1> QED  BY <1>1, <1>5, <1>6 DEF Spares, getDeviceContext

-----------------------------------------------------------------------------
\* The jobs

LEMMA JobIs ==
  ASSUME jobs \in Seq(JobSet), NEW j \in DOMAIN jobs
  PROVE  /\ jobs[j] \in JobSet /\ jobs[j].dev \in Devices
         /\ jobs[j].ctx \in Contexts \cup {None} /\ jobs[j].at \in JobPlaces
  <1>1. jobs[j] \in JobSet
    OBVIOUS
  <1> QED  BY <1>1 DEF JobSet

LEMMA JobGoesTo ==
  ASSUME jobs \in Seq(JobSet), NEW j \in DOMAIN jobs, NEW there \in JobPlaces, JobGoes(j, there)
  PROVE  /\ jobs' \in Seq(JobSet) /\ DOMAIN jobs' = DOMAIN jobs
         /\ \A i \in DOMAIN jobs \ {j} : jobs'[i] = jobs[i]
         /\ jobs'[j].dev = jobs[j].dev /\ jobs'[j].at = there
         /\ there = "handle" => jobs'[j].ctx = jobs[j].ctx
  <1> DEFINE r == [jobs[j] EXCEPT !.at = there,
                                  !.ctx = IF there \in {"done", "wild"} THEN None ELSE @]
  <1>1. jobs' = [jobs EXCEPT ![j] = r]
    BY DEF JobGoes
  <1>2. /\ r \in JobSet /\ r.dev = jobs[j].dev /\ r.at = there
        /\ there = "handle" => r.ctx = jobs[j].ctx
    BY JobIs DEF JobSet
  <1> HIDE DEF r
  <1>3. /\ jobs' \in Seq(JobSet) /\ DOMAIN jobs' = DOMAIN jobs
        /\ \A i \in DOMAIN jobs \ {j} : jobs'[i] = jobs[i]
    BY <1>1, <1>2
  <1>4. jobs'[j] = r
    BY <1>1
  <1> QED  BY <1>2, <1>3, <1>4

(* A job keeps what it has as long as its device is spared.                *)
LEMMA JobStays ==
  ASSUME MapInv, jobs \in Seq(JobSet), NEW X, Spares(X), NEW j \in DOMAIN jobs, JobSound(j),
         jobs[j].dev \notin X \/ jobs[j].at \notin {"found", "handle"},
         j \in DOMAIN jobs', jobs'[j] = jobs[j]
  PROVE  JobSound(j)'
  <1>1. CASE jobs[j].at \notin {"found", "handle"}
    BY <1>1 DEF JobSound
  <1>2. CASE jobs[j].at \in {"found", "handle"}
    <2>1. jobs[j].dev \in Devices \ X
      BY <1>2, JobIs
    <2>2. jobs[j].ctx # None /\ jobs[j].ctx = getDeviceContext(jobs[j].dev) /\ jobs[j].ctx \in info
      BY <1>2 DEF JobSound
    <2>3. /\ getDeviceContext(jobs[j].dev)' = jobs[j].ctx /\ jobs[j].ctx \in info'
          /\ currentState[jobs[j].ctx] # "null" => currentState'[jobs[j].ctx] # "null"
      BY <2>1, <2>2 DEF Spares, getDeviceContext
    <2> QED  BY <1>2, <2>2, <2>3 DEF JobSound, getDeviceContext
  <1> QED  BY <1>1, <1>2

LEMMA JobsStay ==
  ASSUME ManagerInv, Spares({}), UNCHANGED <<jobs, raced>>
  PROVE  JobsSound'
  <1>1. MapInv /\ jobs \in Seq(JobSet) /\ JobsSound
    BY DEF ManagerInv
  <1> SUFFICES ASSUME NEW j \in DOMAIN jobs, jobs[j].dev \notin raced PROVE JobSound(j)'
    BY DEF JobsSound
  <1> QED  BY <1>1, JobStays DEF JobsSound

(* What a slot does that touches neither the registry nor the jobs.        *)
LEMMA OnlySlots ==
  ASSUME ManagerInv, UNCHANGED <<serverVars, raced>>
  PROVE  /\ MapInv' /\ jobs' \in Seq(JobSet) /\ Spares({}) /\ JobsSound'
         /\ \A d \in Devices \ raced' :
              getDeviceContext(d)' = None \/ getDeviceContext(d)' \in info'
  <1>1. /\ UNCHANGED <<deviceContextMap, info, currentState, shook, jobs, raced>>
        /\ MapInv /\ jobs \in Seq(JobSet) /\ ListedInv
    BY DEF ManagerInv, serverVars
  <1>2. MapInv'
    BY <1>1 DEF MapInv, Alive
  <1>3. Spares({})
    BY <1>1 DEF Spares, getDeviceContext
  <1>4. JobsSound'
    BY <1>1, <1>3, JobsStay
  <1>5. \A d \in Devices \ raced' :
          getDeviceContext(d)' = None \/ getDeviceContext(d)' \in info'
    BY <1>1 DEF ListedInv, getDeviceContext
  <1> QED  BY <1>1, <1>2, <1>3, <1>4, <1>5

-----------------------------------------------------------------------------
\* The slots of androidManager and of DeviceManager

LEMMA RegisterLookInv ==
  ASSUME ManagerInv, NEW d \in Devices, RegisterLook(d)
  PROVE  ManagerInv' /\ Spares({})
  <1>1. /\ UNCHANGED <<serverVars, raced, listed, cut>> /\ gui.put = {} /\ d \in gui.todo
        /\ gui' = [gui EXCEPT !.todo = @ \ {d}, !.put = IF IsRegistered(d) THEN {} ELSE {d}]
    BY DEF RegisterLook
  <1>2. /\ gui'.slot = gui.slot /\ gui'.todo = gui.todo \ {d} /\ gui'.all = gui.all
        /\ gui'.put = (IF IsRegistered(d) THEN {} ELSE {d}) /\ gui' \in GuiSet
    BY <1>1 DEF ManagerInv, SlotInv, GuiSet
  <1>3. UNCHANGED <<deviceContextMap, info>>
    BY <1>1 DEF serverVars
  <1>4. \A e \in gui'.put : e = d /\ getDeviceContext(e) = None
    BY <1>2 DEF IsRegistered
  <1>5. None \notin info
    BY NoneIsNoContext DEF ManagerInv, MapInv
  <1>6. SlotInv'
    <2>1. \A e \in gui'.put : getDeviceContext(e)' \notin info'
      BY <1>3, <1>4, <1>5 DEF getDeviceContext
    <2>2. gui'.slot = "add" =>
            \A e \in gui'.all : e \in gui'.todo \cup gui'.put \/ getDeviceContext(e)' # None
      BY <1>1, <1>2, <1>3 DEF ManagerInv, SlotInv, getDeviceContext, IsRegistered
    <2>3. gui'.slot = "disconnect" => gui'.all \subseteq listed'
      BY <1>1, <1>2 DEF ManagerInv, SlotInv
    <2> QED  BY <1>2, <1>4, <2>1, <2>2, <2>3 DEF SlotInv, GuiSet
  <1>7. ListedInv'
    BY <1>1, <1>3, OnlySlots DEF ManagerInv, ListedInv, getDeviceContext
  <1> QED  BY <1>1, <1>6, <1>7, OnlySlots DEF ManagerInv

LEMMA RegisterPutInv ==
  ASSUME ManagerInv, NEW d \in Devices, RegisterPut(d)
  PROVE  ManagerInv' /\ Spares({})
  <1>1. /\ UNCHANGED <<jobs, raced, listed, cut>> /\ d \in gui.put /\ Register(d)
        /\ gui' = [gui EXCEPT !.put = {}]
    BY DEF RegisterPut
  <1>2. /\ gui'.slot = gui.slot /\ gui'.todo = gui.todo /\ gui'.all = gui.all
        /\ gui'.put = {} /\ gui' \in GuiSet
    BY <1>1 DEF ManagerInv, SlotInv, GuiSet
  <1>3. MapInv /\ getDeviceContext(d) \notin info /\ gui.put = {d}
    BY <1>1 DEF ManagerInv, SlotInv
  <1>4. /\ MapInv' /\ Spares({}) /\ getDeviceContext(d)' \in info' /\ getDeviceContext(d)' # None
        /\ \A e \in Devices \ {d} : getDeviceContext(e)' = getDeviceContext(e)
    BY <1>1, <1>3, Registers
  <1>5. \A e \in Devices : getDeviceContext(e) # None => getDeviceContext(e)' # None
    BY <1>4
  <1>6. SlotInv'
    <2>1. gui'.slot = "add" =>
            \A e \in gui'.all : e \in gui'.todo \cup gui'.put \/ getDeviceContext(e)' # None
      BY <1>2, <1>3, <1>4 DEF ManagerInv, SlotInv, GuiSet
    <2>2. gui'.slot = "disconnect" => gui'.all \subseteq listed'
      BY <1>1, <1>2 DEF ManagerInv, SlotInv
    <2> QED  BY <1>2, <2>1, <2>2 DEF SlotInv, GuiSet
  <1>7. ListedInv'
    <2>1. \A e \in listed' \ cut' : getDeviceContext(e)' # None
      BY <1>1, <1>5 DEF ManagerInv, ListedInv
    <2>2. \A e \in Devices \ raced' :
            getDeviceContext(e)' = None \/ getDeviceContext(e)' \in info'
      BY <1>1, <1>4 DEF ManagerInv, ListedInv, Spares
    <2> QED  BY <2>1, <2>2 DEF ListedInv
  <1>8. JobsSound'
    BY <1>1, <1>4, JobsStay
  <1> QED  BY <1>1, <1>4, <1>6, <1>7, <1>8 DEF ManagerInv

(* A slot that begins or ends with nothing left to put.                    *)
LEMMA GuiQuiet ==
  ASSUME ManagerInv, UNCHANGED <<serverVars, raced, cut>>, listed' \subseteq Devices,
         listed \subseteq listed', \A d \in listed' \ listed : getDeviceContext(d) # None,
         gui' \in GuiSet, gui'.put = {}, gui'.slot # "disconnect",
         gui'.slot = "add" => gui'.todo = gui'.all
  PROVE  ManagerInv' /\ Spares({})
  <1>1. UNCHANGED <<deviceContextMap, info>>
    BY DEF serverVars
  <1>2. SlotInv'
    BY DEF SlotInv, GuiSet
  <1>3. ListedInv'
    BY <1>1, OnlySlots DEF ManagerInv, ListedInv, getDeviceContext
  <1> QED  BY <1>2, <1>3, OnlySlots DEF ManagerInv

LEMMA IdleIs == /\ Idle.slot = "idle" /\ Idle.todo = {} /\ Idle.all = {} /\ Idle.put = {}
                /\ Idle \in GuiSet
  BY DEF Idle, GuiSet

LEMMA BeginInv ==
  ASSUME ManagerInv,
         \/ \E S \in SUBSET Devices : onDevicesAdded(S)
         \/ ConnectLoop
         \/ \E d \in Devices : addDevice(d)
         \/ Added
  PROVE  ManagerInv' /\ Spares({})
  <1>0. gui \in GuiSet /\ listed \subseteq Devices
    BY DEF ManagerInv, SlotInv, GuiSet
  <1>1. CASE \E S \in SUBSET Devices : onDevicesAdded(S)
    <2>1. /\ UNCHANGED <<serverVars, raced, cut, listed>> /\ gui'.put = {} /\ gui'.slot = "added"
          /\ gui' \in GuiSet
      BY <1>1 DEF onDevicesAdded, Idle, GuiSet
    <2> QED  BY <1>0, <2>1, GuiQuiet
  <1>2. CASE ConnectLoop
    <2>1. /\ UNCHANGED <<serverVars, raced, cut, listed>> /\ gui'.put = {} /\ gui'.slot = "connect"
          /\ gui' \in GuiSet
      BY <1>0, <1>2 DEF ConnectLoop, Idle, GuiSet
    <2> QED  BY <1>0, <2>1, GuiQuiet
  <1>3. CASE \E d \in Devices : addDevice(d)
    <2>1. /\ UNCHANGED <<serverVars, raced, cut, listed>> /\ gui'.put = {}
          /\ gui'.todo = gui'.all /\ gui' \in GuiSet /\ gui'.slot = "add"
      <3>1. PICK d \in Devices : addDevice(d)
        BY <1>3
      <3>2. gui' = [slot |-> "add", todo |-> {d}, all |-> {d}, put |-> {}]
        BY <3>1 DEF addDevice, Idle
      <3>3. gui' \in GuiSet
        BY <3>2 DEF GuiSet
      <3>4. UNCHANGED <<serverVars, raced, cut, listed>>
        BY <3>1 DEF addDevice
      <3> QED  BY <3>2, <3>3, <3>4
    <2> QED  BY <1>0, <2>1, GuiQuiet
  <1>4. CASE Added
    <2>1. /\ UNCHANGED <<serverVars, raced, cut>> /\ gui' = Idle /\ listed' = listed \cup gui.all
          /\ gui.slot = "add" /\ gui.todo = {} /\ gui.put = {}
      BY <1>4 DEF Added, Registered
    <2>2. \A d \in gui.all : getDeviceContext(d) # None
      BY <2>1 DEF ManagerInv, SlotInv
    <2>3. gui' \in GuiSet /\ gui.all \subseteq Devices /\ gui'.put = {} /\ gui'.slot = "idle"
      BY <1>0, <2>1, IdleIs DEF GuiSet
    <2> QED  BY <1>0, <2>1, <2>2, <2>3, GuiQuiet
  <1> QED  BY <1>1, <1>2, <1>3, <1>4

-----------------------------------------------------------------------------
\* Connections that are asked for, and devices that are removed

(* A job that was submitted holds nothing yet.                             *)
LEMMA Submits ==
  ASSUME ManagerInv, NEW d \in Devices, asyncConnectDevice(d),
         UNCHANGED <<deviceContextMap, info, currentState, shook, listed, cut, removed, raced>>
  PROVE  MapInv' /\ Spares({}) /\ jobs' \in Seq(JobSet) /\ JobsSound' /\ ListedInv'
  <1> DEFINE r == [dev |-> d, at |-> "queued", ctx |-> None]
  <1>1. jobs' = Append(jobs, r) /\ jobs \in Seq(JobSet)
    BY DEF asyncConnectDevice, ManagerInv
  <1>2. r \in JobSet /\ r.at = "queued"
    BY DEF JobSet, JobPlaces
  <1> HIDE DEF r
  <1>3. jobs' \in Seq(JobSet)
    BY <1>1, <1>2
  <1>4. \A j \in DOMAIN jobs' : (j \in DOMAIN jobs /\ jobs'[j] = jobs[j]) \/ jobs'[j] = r
    BY <1>1, <1>2
  <1>5. MapInv' /\ Spares({}) /\ ListedInv'
    BY DEF ManagerInv, MapInv, Alive, Spares, ListedInv, getDeviceContext
  <1>6. JobsSound'
    <2> SUFFICES ASSUME NEW j \in DOMAIN jobs', jobs'[j].dev \notin raced PROVE JobSound(j)'
      BY DEF JobsSound
    <2>1. CASE j \in DOMAIN jobs /\ jobs'[j] = jobs[j]
      BY <1>1, <1>5, <2>1, JobStays DEF ManagerInv, JobsSound
    <2>2. CASE jobs'[j] = r
      BY <1>2, <2>2 DEF JobSound
    <2> QED  BY <1>4, <2>1, <2>2
  <1> QED  BY <1>3, <1>5, <1>6

LEMMA ConnectInv ==
  ASSUME ManagerInv, NEW d \in Devices, ConnectOne(d) \/ connectDevice(d)
  PROVE  ManagerInv' /\ Spares({})
  <1>0. gui \in GuiSet
    BY DEF ManagerInv, SlotInv, GuiSet
  <1>1. /\ asyncConnectDevice(d)
        /\ UNCHANGED <<deviceContextMap, info, currentState, shook, listed, cut, removed, raced>>
    BY DEF ConnectOne, connectDevice, managerVars
  <1>2. SlotInv'
    <2>1. CASE gui' = gui
      BY <1>1, <2>1 DEF ManagerInv, SlotInv, getDeviceContext
    <2>2. CASE gui' = Idle
      BY <2>2, IdleIs DEF SlotInv
    <2>3. CASE gui.slot = "connect" /\ gui' = [gui EXCEPT !.todo = @ \ {d}]
      <3>1. gui'.slot = "connect" /\ gui'.put = gui.put /\ gui' \in GuiSet
        BY <1>0, <2>3 DEF GuiSet
      <3> QED  BY <1>1, <3>1 DEF ManagerInv, SlotInv, GuiSet, getDeviceContext
    <2> QED  BY <2>1, <2>2, <2>3 DEF ConnectOne, connectDevice, managerVars
  <1> QED  BY <1>1, <1>2, Submits DEF ManagerInv

(* What a device leaves behind when it is unregistered: the others have    *)
(* what they had, and it is raced if a job was in the middle of it.        *)
LEMMA ErasesDoes ==
  ASSUME ManagerInv, NEW d \in Devices, Erases(d), UNCHANGED jobs
  PROVE  /\ MapInv' /\ unregisterDevice(d) /\ JobsSound' /\ raced \subseteq raced'
         /\ \A e \in Devices \ {d} : getDeviceContext(e)' = getDeviceContext(e)
         /\ \A e \in Devices \ raced' :
              getDeviceContext(e)' = None \/ getDeviceContext(e)' \in info'
  <1>1. /\ unregisterDevice(d)
        /\ raced' = raced \cup {x \in {d} : \E j \in Running : jobs[j].dev = d}
        /\ MapInv /\ jobs \in Seq(JobSet)
    BY DEF Erases, ManagerInv
  <1>2. /\ MapInv' /\ Spares({d}) /\ getDeviceContext(d)' = None
        /\ \A e \in Devices \ {d} : getDeviceContext(e)' = getDeviceContext(e)
    BY <1>1, Unregisters
  <1>3. JobsSound'
    <2> SUFFICES ASSUME NEW j \in DOMAIN jobs, jobs[j].dev \notin raced' PROVE JobSound(j)'
      BY DEF JobsSound
    <2>1. JobSound(j)
      BY <1>1 DEF ManagerInv, JobsSound
    <2>2. jobs[j].dev \notin {d} \/ jobs[j].at \notin {"found", "handle"}
      BY <1>1 DEF Running
    <2> QED  BY <1>1, <1>2, <2>1, <2>2, JobStays
  <1>4. \A e \in Devices \ raced' :
          getDeviceContext(e)' = None \/ getDeviceContext(e)' \in info'
    BY <1>1, <1>2 DEF ManagerInv, ListedInv, Spares
  <1> QED  BY <1>1, <1>2, <1>3, <1>4

LEMMA RemoveInv ==
  ASSUME ManagerInv, NEW d \in Devices, removeDevice(d)
  PROVE  ManagerInv' /\ unregisterDevice(d)
  <1>1. /\ gui = Idle /\ gui' = gui /\ UNCHANGED jobs /\ Erases(d)
        /\ listed' = listed \ {d} /\ cut' = cut \ {d}
    BY DEF removeDevice
  <1>2. SlotInv'
    BY <1>1, IdleIs DEF SlotInv
  <1>3. ListedInv'
    BY <1>1, ErasesDoes DEF ManagerInv, ListedInv
  <1> QED  BY <1>1, <1>2, <1>3, ErasesDoes DEF ManagerInv

(* setState, for a device that is in the map already.                      *)
LEMMA SetsIt ==
  ASSUME ManagerInv, NEW d \in Devices, NEW s \in States, s # "null", setState(d, s),
         getDeviceContext(d) # None, UNCHANGED <<listed, cut, raced>>
  PROVE  /\ MapInv' /\ Spares({}) /\ ListedInv'
         /\ UNCHANGED info /\ UNCHANGED deviceContextMap
  <1>1. MapInv' /\ Spares({}) /\ UNCHANGED info
    BY StateSet DEF ManagerInv
  <1>2. UNCHANGED deviceContextMap
    BY DEF setState, Put, Slot, getDeviceContext, ManagerInv, MapInv
  <1> QED  BY <1>1, <1>2 DEF ManagerInv, ListedInv, getDeviceContext

LEMMA DisconnectDeviceInv ==
  ASSUME ManagerInv, NEW d \in Devices, disconnectDevice(d)
  PROVE  ManagerInv' /\ Spares({})
  <1>1. /\ d \in listed /\ getDeviceContext(d) # None /\ setState(d, "disconnected")
        /\ UNCHANGED <<jobs, listed, cut, raced>>
        /\ gui' = [Idle EXCEPT !.slot = "disconnect", !.all = {d}]
    BY DEF disconnectDevice
  <1>2. MapInv' /\ Spares({}) /\ ListedInv'
    BY <1>1, SetsIt, StatesAre
  <1>3. gui'.slot = "disconnect" /\ gui'.put = {} /\ gui'.all = {d} /\ gui' \in GuiSet
    <2>1. gui' = [slot |-> "disconnect", todo |-> {}, all |-> {d}, put |-> {}]
      BY <1>1 DEF Idle
    <2> QED  BY <2>1 DEF GuiSet
  <1>4. SlotInv'
    BY <1>1, <1>3 DEF SlotInv, GuiSet
  <1> QED  BY <1>1, <1>2, <1>4, JobsStay DEF ManagerInv

LEMMA DisconnectInv ==
  ASSUME ManagerInv, NEW d \in Devices, Disconnect(d)
  PROVE  ManagerInv' /\ (Spares({}) \/ unregisterDevice(d))
  <1> DEFINE c == getDeviceContext(d)
  <1>1. CASE Erases(d) /\ gui' = Idle /\ cut' = cut \cup {d} /\ UNCHANGED <<jobs, listed>>
    <2>1. d \in listed
      BY DEF Disconnect, ManagerInv, SlotInv
    <2>2. SlotInv'
      BY <1>1, IdleIs DEF SlotInv
    <2>3. ListedInv'
      BY <1>1, ErasesDoes DEF ManagerInv, ListedInv
    <2> QED  BY <1>1, <2>1, <2>2, <2>3, ErasesDoes DEF ManagerInv
  <1>2. CASE Usable(c) /\ Enter(c) /\ UNCHANGED <<jobs, managerVars>>
    <2>1. MapInv' /\ Spares({}) /\ UNCHANGED <<info, deviceContextMap>>
      BY <1>2, Enters DEF ManagerInv, Enter
    <2>2. SlotInv' /\ ListedInv'
      BY <1>2, <2>1 DEF managerVars, ManagerInv, SlotInv, ListedInv, getDeviceContext
    <2>3. UNCHANGED <<jobs, raced, listed, cut>>
      BY <1>2 DEF managerVars
    <2> QED  BY <2>1, <2>2, <2>3, JobsStay DEF ManagerInv
  <1> QED  BY <1>1, <1>2 DEF Disconnect

-----------------------------------------------------------------------------
\* The jobs

(* The invariant after a step of job j that leaves the slots alone.        *)
LEMMA JobStepKeeps ==
  ASSUME ManagerInv, NEW j \in DOMAIN jobs, UNCHANGED managerVars,
         MapInv', Spares({}), UNCHANGED info,
         \A e \in Devices : getDeviceContext(e)' \in info => getDeviceContext(e) \in info,
         \A e \in Devices \ raced :
           getDeviceContext(e)' = None \/ getDeviceContext(e)' \in info,
         jobs' \in Seq(JobSet), DOMAIN jobs' = DOMAIN jobs,
         \A i \in DOMAIN jobs \ {j} : jobs'[i] = jobs[i],
         jobs'[j].dev \notin raced => JobSound(j)'
  PROVE  ManagerInv' /\ Spares({})
  <1>1. UNCHANGED <<gui, listed, cut, raced>>
    BY DEF managerVars
  <1>2. \A e \in Devices : getDeviceContext(e) # None => getDeviceContext(e)' # None
    BY DEF Spares
  <1>3. SlotInv'
    <2>1. \A e \in gui.put : getDeviceContext(e)' \notin info
      BY DEF ManagerInv, SlotInv, GuiSet
    <2>2. gui.slot = "add" =>
            \A e \in gui.all : e \in gui.todo \cup gui.put \/ getDeviceContext(e)' # None
      BY <1>2 DEF ManagerInv, SlotInv, GuiSet
    <2> QED  BY <1>1, <2>1, <2>2 DEF ManagerInv, SlotInv
  <1>4. ListedInv'
    BY <1>1, <1>2 DEF ManagerInv, ListedInv
  <1>5. JobsSound'
    <2> SUFFICES ASSUME NEW i \in DOMAIN jobs, jobs'[i].dev \notin raced, i # j
                 PROVE  JobSound(i)'
      BY <1>1 DEF JobsSound
    <2> QED  BY JobStays DEF ManagerInv, JobsSound
  <1> QED  BY <1>1, <1>3, <1>4, <1>5 DEF ManagerInv

LEMMA LookupInv ==
  ASSUME ManagerInv, NEW j \in DOMAIN jobs, Lookup(j), UNCHANGED managerVars
  PROVE  ManagerInv' /\ Spares({})
  <1> DEFINE c == getDeviceContext(jobs[j].dev)
             r == [jobs[j] EXCEPT !.ctx = c, !.at = IF c = None THEN "gone" ELSE "found"]
  <1>1. /\ jobs' = [jobs EXCEPT ![j] = r]
        /\ UNCHANGED <<deviceContextMap, info, currentState, shook>>
        /\ jobs \in Seq(JobSet) /\ MapInv
    BY DEF Lookup, ManagerInv
  <1>2. jobs[j] \in JobSet /\ jobs[j].dev \in Devices
    BY <1>1, JobIs
  <1>3. c \in Contexts \cup {None}
    BY <1>1, <1>2 DEF MapInv, getDeviceContext
  <1>4. /\ r \in JobSet /\ r.dev = jobs[j].dev /\ r.ctx = c
        /\ r.at = (IF c = None THEN "gone" ELSE "found")
    BY <1>2, <1>3 DEF JobSet, JobPlaces
  <1> HIDE DEF r
  <1>5. /\ jobs' \in Seq(JobSet) /\ DOMAIN jobs' = DOMAIN jobs
        /\ \A i \in DOMAIN jobs \ {j} : jobs'[i] = jobs[i]
    BY <1>1, <1>4
  <1>6. jobs'[j] = r
    BY <1>1
  <1>7. MapInv' /\ Spares({}) /\ UNCHANGED info
    BY <1>1 DEF MapInv, Alive, Spares, getDeviceContext
  <1>8. jobs'[j].dev \notin raced => JobSound(j)'
    <2>1. jobs[j].dev \notin raced => c = None \/ c \in info
      BY <1>2 DEF ManagerInv, ListedInv
    <2> QED  BY <1>1, <1>4, <1>6, <2>1 DEF JobSound, getDeviceContext
  <1>9. /\ \A e \in Devices : getDeviceContext(e)' = getDeviceContext(e)
        /\ \A e \in Devices \ raced : getDeviceContext(e) = None \/ getDeviceContext(e) \in info
    BY <1>1 DEF getDeviceContext, ManagerInv, ListedInv
  <1> QED  BY <1>5, <1>7, <1>8, <1>9, JobStepKeeps

LEMMA ConnectingInv ==
  ASSUME ManagerInv, NEW j \in DOMAIN jobs, Connecting(j), UNCHANGED managerVars
  PROVE  ManagerInv' /\ Spares({})
  <1>1. PICK d \in Devices : d = jobs[j].dev
    BY JobIs DEF ManagerInv
  <1>2. /\ setState(d, "connecting") /\ JobGoes(j, "handle") /\ jobs[j].at = "found"
        /\ jobs \in Seq(JobSet) /\ MapInv
    BY <1>1 DEF Connecting, ManagerInv
  <1>3. /\ jobs' \in Seq(JobSet) /\ DOMAIN jobs' = DOMAIN jobs
        /\ \A i \in DOMAIN jobs \ {j} : jobs'[i] = jobs[i]
        /\ jobs'[j].dev = d /\ jobs'[j].at = "handle" /\ jobs'[j].ctx = jobs[j].ctx
    BY <1>1, <1>2, JobGoesTo DEF JobPlaces
  <1>4. /\ MapInv' /\ Spares({}) /\ UNCHANGED info
        /\ \A e \in Devices \ {d} : getDeviceContext(e)' = getDeviceContext(e)
        /\ getDeviceContext(d)' \in info => getDeviceContext(d) \in info
        /\ getDeviceContext(d) # None => currentState'[getDeviceContext(d)] = "connecting"
    BY <1>1, <1>2, StateSet, StatesAre
  <1>5. d \notin raced => /\ jobs[j].ctx # None /\ jobs[j].ctx = getDeviceContext(d)
                          /\ jobs[j].ctx \in info
    BY <1>1, <1>2 DEF ManagerInv, JobsSound, JobSound
  <1>6. d \notin raced => getDeviceContext(d)' = getDeviceContext(d)
    BY <1>1, <1>4, <1>5 DEF Spares
  <1>7. d \notin raced => JobSound(j)'
    <2>1. jobs'[j].dev = d
      BY <1>3
    <2>2. d \notin raced => deviceContextMap'[d] = jobs[j].ctx
      BY <1>5, <1>6 DEF getDeviceContext
    <2> QED  BY <1>3, <1>4, <1>5, <2>2, StatesAre DEF JobSound, getDeviceContext
  <1>8. \A e \in Devices \ raced : getDeviceContext(e)' = None \/ getDeviceContext(e)' \in info
    BY <1>4, <1>5, <1>6 DEF ManagerInv, ListedInv
  <1>9. \A e \in Devices : getDeviceContext(e)' \in info => getDeviceContext(e) \in info
    BY <1>4
  <1> QED  BY <1>3, <1>4, <1>7, <1>8, <1>9, JobStepKeeps

LEMMA HandleInv ==
  ASSUME ManagerInv, NEW j \in DOMAIN jobs, Handle(j), UNCHANGED managerVars
  PROVE  ManagerInv' /\ Spares({})
  <1> DEFINE c == jobs[j].ctx
  <1>1. jobs[j].at = "handle" /\ jobs \in Seq(JobSet) /\ MapInv
    BY DEF Handle, ManagerInv
  <1>2. jobs[j].dev \notin raced => Usable(c)
    BY <1>1 DEF ManagerInv, JobsSound, JobSound, Usable, MapInv
  <1>3. \A e \in Devices \ raced : getDeviceContext(e) = None \/ getDeviceContext(e) \in info
    BY DEF ManagerInv, ListedInv
  <1>4. ASSUME NEW there \in {"wild", "done"}, JobGoes(j, there),
               there = "wild" => jobs[j].dev \in raced,
               UNCHANGED <<deviceContextMap, info, currentState, shook>>
        PROVE  ManagerInv' /\ Spares({})
    <2>1. /\ jobs' \in Seq(JobSet) /\ DOMAIN jobs' = DOMAIN jobs
          /\ \A i \in DOMAIN jobs \ {j} : jobs'[i] = jobs[i]
          /\ jobs'[j].dev = jobs[j].dev /\ jobs'[j].at = there
      BY <1>1, <1>4, JobGoesTo DEF JobPlaces
    <2>2. MapInv' /\ Spares({}) /\ UNCHANGED info
      BY <1>1, <1>4 DEF MapInv, Alive, Spares, getDeviceContext
    <2>3. jobs'[j].dev \notin raced => JobSound(j)'
      BY <1>4, <2>1 DEF JobSound
    <2>4. \A e \in Devices : getDeviceContext(e)' = getDeviceContext(e)
      BY <1>4 DEF getDeviceContext
    <2> QED  BY <1>3, <2>1, <2>2, <2>3, <2>4, JobStepKeeps
  <1>5. CASE ~Usable(c) /\ JobGoes(j, "wild")
             /\ UNCHANGED <<deviceContextMap, info, currentState, shook>>
    BY <1>2, <1>4, <1>5
  <1>6. CASE JobGoes(j, "done") /\ UNCHANGED <<deviceContextMap, info, currentState, shook>>
    BY <1>4, <1>6
  <1>7. CASE Usable(c) /\ Enter(c) /\ UNCHANGED jobs
    <2>1. MapInv' /\ Spares({}) /\ UNCHANGED <<info, deviceContextMap>>
      BY <1>1, <1>7, Enters DEF Enter
    <2>2. jobs[j].dev \notin raced => JobSound(j)
      BY DEF ManagerInv, JobsSound
    <2>3. jobs'[j].dev \notin raced => JobSound(j)'
      BY <1>1, <1>7, <2>1, <2>2, JobStays
    <2>4. \A e \in Devices : getDeviceContext(e)' = getDeviceContext(e)
      BY <2>1 DEF getDeviceContext
    <2> QED  BY <1>1, <1>3, <1>7, <2>1, <2>3, <2>4, JobStepKeeps
  <1> QED  BY <1>5, <1>6, <1>7 DEF Handle

-----------------------------------------------------------------------------
\* The theorems

LEMMA ManagerInvInit == ManagerInit => ManagerInv
  <1> SUFFICES ASSUME ManagerInit PROVE ManagerInv
    OBVIOUS
  <1>1. MapInv
    BY StatesAre DEF ManagerInit, ServerInit, MapInv
  <1>2. SlotInv /\ ListedInv
    BY IdleIs DEF ManagerInit, ServerInit, SlotInv, ListedInv, getDeviceContext
  <1>3. jobs \in Seq(JobSet) /\ JobsSound
    BY DEF ManagerInit, ServerInit, JobsSound
  <1> QED  BY <1>1, <1>2, <1>3 DEF ManagerInv, ManagerInit

LEMMA ManagerInvStep ==
  ASSUME ManagerInv, [ManagerNext]_allVars
  PROVE  ManagerInv' /\ (Spares({}) \/ \E d \in Devices : unregisterDevice(d))
  <1>1. CASE Slots
    BY <1>1, RegisterLookInv, RegisterPutInv, BeginInv, ConnectInv, DisconnectInv DEF Slots
  <1>2. CASE Called
    BY <1>2, BeginInv, ConnectInv, RemoveInv, DisconnectDeviceInv DEF Called
  <1>3. CASE \E j \in DOMAIN jobs : Job(j)
    BY <1>3, LookupInv, ConnectingInv, HandleInv DEF Job, doConnectDevice
  <1>4. CASE UNCHANGED allVars
    <2>1. UNCHANGED <<serverVars, gui, listed, cut, raced>>
      BY <1>4 DEF allVars, managerVars
    <2>2. UNCHANGED <<deviceContextMap, info>>
      BY <2>1 DEF serverVars
    <2>3. SlotInv' /\ ListedInv'
      BY <2>1, <2>2 DEF ManagerInv, SlotInv, ListedInv, getDeviceContext
    <2> QED  BY <2>1, <2>3, OnlySlots DEF ManagerInv
  <1> QED  BY <1>1, <1>2, <1>3, <1>4 DEF ManagerNext

LEMMA ManagerInvAlways == ManagerSpec => []ManagerInv
  BY ManagerInvInit, ManagerInvStep, PTL DEF ManagerSpec

(* The variables of the registry, the jobs and the managers keep their     *)
(* types, and no two devices share a context.                              *)
THEOREM ManagerTypeCorrect == ManagerSpec => []ManagerTypeOK
  <1>1. ManagerInv => ManagerTypeOK
    BY DEF ManagerInv, MapInv, ManagerTypeOK, JobSet, JobPlaces
  <1> QED  BY <1>1, ManagerInvAlways, PTL

(* Whatever the order of scans, of the slots of the two managers and of    *)
(* the jobs, for every number of devices, workers and jobs: a device is    *)
(* registered with all it needs or not at all, unless it was unregistered  *)
(* while a job was connecting to it.                                       *)
THEOREM RegistryHolds == ManagerSpec => []RegistrySound
  <1>1. ManagerInv => RegistrySound
    BY DEF ManagerInv, ListedInv, JobsSound, JobSound, RegistrySound
  <1> QED  BY <1>1, ManagerInvAlways, PTL

(* registerDevice never takes away the state of a context that a job is    *)
(* working with.                                                           *)
THEOREM ContextsAreKept == ManagerSpec => ContextKept
  <1> DEFINE Kept == \A c \in info : Alive(c) /\ Alive(c)' /\ currentState[c] # "null" =>
                                       currentState'[c] # "null"
  <1>1. ManagerInv /\ [ManagerNext]_allVars => [Kept]_allVars
    <2> SUFFICES ASSUME ManagerInv, [ManagerNext]_allVars,
                        NEW c \in info, Alive(c), Alive(c)', currentState[c] # "null"
                 PROVE  currentState'[c] # "null"
      OBVIOUS
    <2>1. CASE Spares({})
      BY <2>1 DEF Alive, Spares, getDeviceContext
    <2>2. CASE \E d \in Devices : unregisterDevice(d)
      <3>1. PICK d \in Devices : unregisterDevice(d)
        BY <2>2
      <3>2. /\ Spares({d}) /\ getDeviceContext(d)' = None
            /\ \A e \in Devices \ {d} : getDeviceContext(e)' = getDeviceContext(e)
        BY <3>1, Unregisters DEF ManagerInv
      <3>3. c # None
        BY NoneIsNoContext DEF ManagerInv, MapInv
      <3>4. PICK e \in Devices : deviceContextMap'[e] = c
        BY DEF Alive
      <3>5. e \in Devices \ {d} /\ getDeviceContext(e) = c
        BY <3>2, <3>3, <3>4 DEF getDeviceContext
      <3> QED  BY <3>2, <3>5 DEF Spares
    <2> QED  BY <2>1, <2>2, ManagerInvStep
  <1> QED  BY <1>1, ManagerInvAlways, PTL DEF ManagerSpec, ContextKept

-----------------------------------------------------------------------------
(***************************************************************************)
(* The shell handler and the threads of the clients                        *)
(***************************************************************************)
\* The inductive invariant of the shell handler

Busy == {"opening", "opened", "exec", "okay", "write"}
NobodyBusy == \A c \in Clients : at[c] \notin Busy

Okay(k) == [cmd |-> "OKAY", arg0 |-> k, prompt |-> FALSE]
Wrte(k, last) == [cmd |-> "WRTE", arg0 |-> k, prompt |-> last]

Quiet(k) == shells[k].okay = 0 /\ shells[k].left = 0 /\ ~shells[k].unacked

(* Shell k has an OKAY and then n WRTE for the thread that waits.          *)
Answering(k, n) ==
  \/ shells[k].okay = 1 /\ shells[k].left = n /\ ~shells[k].unacked /\ inbox = <<>>
  \/ shells[k].okay = 0 /\ shells[k].left = n /\ ~shells[k].unacked /\ inbox = <<Okay(k)>>
  \/ /\ shells[k].okay = 0 /\ shells[k].left = n - 1 /\ shells[k].unacked
     /\ inbox = <<Okay(k), Wrte(k, n = 1)>>

(* Shell k has n WRTE for the thread that waits, at most one on the way.   *)
Writing(k, n) ==
  \/ shells[k].okay = 0 /\ shells[k].left = n /\ ~shells[k].unacked /\ inbox = <<>>
  \/ /\ shells[k].okay = 0 /\ shells[k].left = n - 1 /\ shells[k].unacked
     /\ inbox = <<Wrte(k, n = 1)>>

Outputs(k, n) == [i \in 1 .. n |-> k]

(* The thread in the handler and the last shell that was opened are at the *)
(* same place of their conversation.                                       *)
BusyInv(c, k) ==
  /\ at[c] # "write" => local[c].wrtePayloads = <<>>
  /\ at[c] = "opening" =>
       \/ local[c].got = {} /\ Answering(k, 1)
       \/ local[c].got = {"OKAY"} /\ shellRemoteId = k /\ Writing(k, 1)
  /\ at[c] = "opened" =>
       shellRemoteId = k /\ shells[k].okay = 0 /\ shells[k].left = 0 /\ inbox = <<>>
  /\ at[c] = "exec" => shellRemoteId = k /\ Quiet(k) /\ inbox = <<>>
  /\ at[c] = "okay" =>
       local[c].remote = k /\ shells[k].size > 0 /\ Answering(k, shells[k].size)
  /\ at[c] = "write" =>
       /\ local[c].remote = k
       /\ \E n \in Nat : /\ n < shells[k].size /\ local[c].wrtePayloads = Outputs(k, n)
                         /\ Writing(k, shells[k].size - n)

(* What a thread has collected when its command is done, of a shell that   *)
(* nobody uses any more.                                                   *)
DoneInv(c) ==
  LET k == local[c].remote
  IN  /\ k \in DOMAIN shells /\ Quiet(k)
      /\ k = Len(shells) => NobodyBusy
      /\ local[c].wrtePayloads = Outputs(k, shells[k].size)

IdlePlaces == {"recv", "left", "parsed", "execute", "open"}
Places == IdlePlaces \cup {"done"} \cup Busy
LocalSet == [got : SUBSET {"OKAY", "WRTE"}, wrtePayload : BOOLEAN, remote : Nat,
             wrtePayloads : Seq(Nat), result : BOOLEAN]
ShellSet == [okay : Nat, left : Nat, unacked : BOOLEAN, size : Nat]

ShellTypes ==
  /\ at \in [Clients -> Places] /\ local \in [Clients -> LocalSet]
  /\ shells \in Seq(ShellSet)

Conversation ==
  /\ \A c, d \in Clients : at[c] \in Busy /\ at[d] \in Busy => c = d
  /\ NobodyBusy => inbox = <<>>
  /\ \A k \in DOMAIN shells : k < Len(shells) \/ NobodyBusy => Quiet(k)
  /\ \A c \in Clients :
       /\ at[c] \in Busy => shells # <<>> /\ BusyInv(c, Len(shells))
       /\ at[c] \in IdlePlaces => local[c] = NoLocals
       /\ at[c] = "done" => DoneInv(c)

ShellInv == clean \in BOOLEAN /\ (clean => ShellTypes /\ Conversation)

-----------------------------------------------------------------------------
\* The frame of a step

LEMMA PlacesAre ==
  /\ IdlePlaces \subseteq Places /\ Busy \subseteq Places /\ "done" \in Places
  /\ Places = IdlePlaces \cup {"done"} \cup Busy
  /\ \A p \in Busy : p \notin IdlePlaces /\ p # "done"
  /\ "done" \notin IdlePlaces
  BY DEF Places, Busy, IdlePlaces

LEMMA NoLocalsAre ==
  /\ NoLocals \in LocalSet /\ NoLocals.got = {} /\ NoLocals.wrtePayloads = <<>>
  BY DEF NoLocals, LocalSet

(* A step of the thread in the handler or of its shell: nobody else has to *)
(* do with what it changes.                                                *)
LEMMA BusyStep ==
  ASSUME ShellTypes, Conversation, NEW c \in Clients, NEW k, k = Len(shells),
         NEW p \in Busy \cup {"recv", "done"}, NEW l \in LocalSet, NEW s \in ShellSet,
         at[c] \in Busy, at' = [at EXCEPT ![c] = p], local' = [local EXCEPT ![c] = l],
         shells' = [shells EXCEPT ![k] = s],
         p \in Busy => BusyInv(c, k)',
         p \notin Busy => inbox' = <<>> /\ Quiet(k)',
         p = "recv" => l = NoLocals,
         p = "done" => l.remote = k /\ l.wrtePayloads = Outputs(k, s.size)
  PROVE  ShellTypes' /\ Conversation'
  <1>1. /\ at \in [Clients -> Places] /\ local \in [Clients -> LocalSet]
        /\ shells \in Seq(ShellSet) /\ k \in Nat /\ k \in DOMAIN shells
    <2>1. shells # <<>> /\ shells \in Seq(ShellSet)
      BY DEF Conversation, ShellTypes
    <2> QED  BY <2>1 DEF ShellTypes
  <1>2. p \in Places
    BY DEF Places, IdlePlaces
  <1>3. /\ at'[c] = p /\ local'[c] = l
        /\ \A d \in Clients \ {c} : at'[d] = at[d] /\ local'[d] = local[d]
    BY <1>1
  <1>4. /\ DOMAIN shells' = DOMAIN shells /\ Len(shells') = k /\ shells'[k] = s
        /\ \A i \in DOMAIN shells \ {k} : shells'[i] = shells[i]
        /\ shells' \in Seq(ShellSet)
    BY <1>1
  <1>5. ShellTypes'
    BY <1>1, <1>2, <1>4 DEF ShellTypes
  <1>6. \A d \in Clients \ {c} : at[d] \notin Busy
    BY DEF Conversation
  <1>7. ~NobodyBusy
    BY DEF NobodyBusy
  <1>8. NobodyBusy' <=> p \notin Busy
    BY <1>3, <1>6 DEF NobodyBusy
  <1>9. \A x, y \in Clients : at'[x] \in Busy /\ at'[y] \in Busy => x = y
    BY <1>3, <1>6
  <1>10. NobodyBusy' => inbox' = <<>>
    BY <1>8
  <1>11. \A i \in DOMAIN shells' : i < Len(shells') \/ NobodyBusy' => Quiet(i)'
    <2> SUFFICES ASSUME NEW i \in DOMAIN shells, i < k \/ NobodyBusy' PROVE Quiet(i)'
      BY <1>4
    <2>1. CASE i = k
      BY <1>1, <1>8, <2>1
    <2>2. CASE i # k
      <3>1. i < k
        BY <1>1, <2>2
      <3> QED  BY <1>4, <2>2, <3>1 DEF Conversation, Quiet
    <2> QED  BY <2>1, <2>2
  <1>12. at'[c] \in Busy => shells' # <<>> /\ BusyInv(c, Len(shells))'
    <2>1. shells' # <<>>
      BY <1>1, <1>4
    <2>2. BusyInv(c, k)' <=> BusyInv(c, Len(shells))'
      BY <1>4
    <2> QED  BY <1>3, <2>1, <2>2
  <1>13. at'[c] = "done" => DoneInv(c)'
    BY <1>1, <1>3, <1>4, <1>8, PlacesAre DEF DoneInv
  <1>14. \A d \in Clients \ {c} : at'[d] = "done" => DoneInv(d)'
    <2> SUFFICES ASSUME NEW d \in Clients \ {c}, at[d] = "done" PROVE DoneInv(d)'
      BY <1>3
    <2>1. PICK i : i = local[d].remote
      OBVIOUS
    <2>2. /\ i \in DOMAIN shells /\ Quiet(i) /\ i # k
          /\ local[d].wrtePayloads = Outputs(i, shells[i].size)
      BY <1>7, <2>1 DEF Conversation, DoneInv
    <2>3. local'[d] = local[d] /\ shells'[i] = shells[i]
      BY <1>3, <1>4, <2>2
    <2> QED  BY <1>4, <2>1, <2>2, <2>3 DEF DoneInv, Quiet, Outputs
  <1>15. \A d \in Clients :
           /\ at'[d] \in Busy => shells' # <<>> /\ BusyInv(d, Len(shells))'
           /\ at'[d] \in IdlePlaces => local'[d] = NoLocals
           /\ at'[d] = "done" => DoneInv(d)'
    <2>1. \A d \in Clients \ {c} : at'[d] \in IdlePlaces => local'[d] = NoLocals
      BY <1>3 DEF Conversation, IdlePlaces
    <2>2. at'[c] \in IdlePlaces => local'[c] = NoLocals
      BY <1>3, PlacesAre
    <2> QED  BY <1>3, <1>6, <1>12, <1>13, <1>14, <2>1, <2>2
  <1> QED  BY <1>5, <1>9, <1>10, <1>11, <1>15 DEF Conversation, IdlePlaces

(* A step of a thread that is not in the handler and has not left it.      *)
LEMMA IdleStep ==
  ASSUME ShellTypes, Conversation, NEW c \in Clients, NEW p \in IdlePlaces,
         at[c] \in IdlePlaces \/ at[c] = "done", at' = [at EXCEPT ![c] = p],
         local' = [local EXCEPT ![c] = NoLocals], UNCHANGED <<shellRemoteId, inbox, shells>>
  PROVE  ShellTypes' /\ Conversation'
  <1>1. at \in [Clients -> Places] /\ local \in [Clients -> LocalSet]
    BY DEF ShellTypes
  <1>2. /\ at'[c] = p /\ local'[c] = NoLocals
        /\ \A d \in Clients \ {c} : at'[d] = at[d] /\ local'[d] = local[d]
    BY <1>1
  <1>3. ShellTypes'
    BY <1>1, PlacesAre, NoLocalsAre DEF ShellTypes
  <1>4. at[c] \notin Busy /\ at'[c] \notin Busy /\ at'[c] # "done"
    BY <1>2, PlacesAre
  <1>5. NobodyBusy' <=> NobodyBusy
    BY <1>2, <1>4 DEF NobodyBusy
  <1>6. \A d \in Clients : at'[d] \in Busy => d # c /\ at[d] \in Busy
    BY <1>2, <1>4
  <1>7. \A d \in Clients : at'[d] \in Busy => shells' # <<>> /\ BusyInv(d, Len(shells))'
    <2> SUFFICES ASSUME NEW d \in Clients, at'[d] \in Busy
                 PROVE  shells' # <<>> /\ BusyInv(d, Len(shells))'
      OBVIOUS
    <2>1. /\ shells # <<>> /\ BusyInv(d, Len(shells)) /\ at'[d] = at[d]
          /\ local'[d] = local[d]
      BY <1>2, <1>6 DEF Conversation
    <2> QED  BY <2>1 DEF BusyInv, Answering, Writing, Quiet
  <1>8. \A d \in Clients : at'[d] = "done" => DoneInv(d)'
    <2> SUFFICES ASSUME NEW d \in Clients, at'[d] = "done" PROVE DoneInv(d)'
      OBVIOUS
    <2>1. d # c /\ at[d] = "done" /\ local'[d] = local[d] /\ DoneInv(d)
      BY <1>2, <1>4 DEF Conversation
    <2> QED  BY <1>5, <2>1 DEF DoneInv, Quiet
  <1>9. \A d \in Clients : at'[d] \in IdlePlaces => local'[d] = NoLocals
    BY <1>2 DEF Conversation, IdlePlaces
  <1>10. \A x, y \in Clients : at'[x] \in Busy /\ at'[y] \in Busy => x = y
    BY <1>6 DEF Conversation
  <1> QED
    BY <1>3, <1>5, <1>7, <1>8, <1>9, <1>10 DEF Conversation, IdlePlaces, Quiet

-----------------------------------------------------------------------------
\* The device

LEMMA Messages ==
  \A k, b : /\ Okay(k).cmd = "OKAY" /\ Okay(k).arg0 = k
            /\ Wrte(k, b).cmd = "WRTE" /\ Wrte(k, b).arg0 = k /\ Wrte(k, b).prompt = b
  BY DEF Okay, Wrte

LEMMA Tuples ==
  \A o, w : /\ Append(<<o>>, w) = <<o, w>>
            /\ Head(<<o>>) = o /\ Tail(<<o>>) = <<>>
            /\ Head(<<o, w>>) = o /\ Tail(<<o, w>>) = <<w>>
  <1>1. ASSUME NEW o, NEW w PROVE Append(<<o>>, w) = <<o, w>>
    <2>1. PICK S : o \in S /\ w \in S
      <3> WITNESS {o, w}
      <3> QED  OBVIOUS
    <2>2. Append(<<o>>, w) \in Seq(S) /\ Len(Append(<<o>>, w)) = 2
      BY <2>1
    <2>3. Append(<<o>>, w)[1] = o /\ Append(<<o>>, w)[2] = w
      BY <2>1
    <2>4. <<o, w>> \in Seq(S) /\ Len(<<o, w>>) = 2 /\ <<o, w>>[1] = o /\ <<o, w>>[2] = w
      BY <2>1
    <2>5. PICK x \in Seq(S) : x = Append(<<o>>, w)
      BY <2>2
    <2>6. PICK y \in Seq(S) : y = <<o, w>>
      BY <2>4
    <2>7. Len(x) = Len(y) /\ \A i \in 1 .. Len(x) : x[i] = y[i]
      BY <2>2, <2>3, <2>4, <2>5, <2>6
    <2> QED  BY <2>5, <2>6, <2>7, SeqEqual
  <1>2. \A o, w : /\ Head(<<o>>) = o /\ Tail(<<o>>) = <<>>
                  /\ Head(<<o, w>>) = o /\ Tail(<<o, w>>) = <<w>>
    OBVIOUS
  <1> QED  BY <1>1, <1>2

LEMMA LastShell ==
  ASSUME ShellTypes, shells # <<>>
  PROVE  /\ Len(shells) \in DOMAIN shells /\ shells \in Seq(ShellSet)
         /\ shells[Len(shells)] \in ShellSet
         /\ shells[Len(shells)].okay \in Nat /\ shells[Len(shells)].left \in Nat
         /\ shells[Len(shells)].unacked \in BOOLEAN /\ shells[Len(shells)].size \in Nat
  <1>1. shells \in Seq(ShellSet) /\ Len(shells) \in DOMAIN shells
    BY DEF ShellTypes
  <1>2. shells[Len(shells)] \in ShellSet
    BY <1>1
  <1> QED  BY <1>1, <1>2 DEF ShellSet

(* Only the last shell has something to say, to the thread in the handler. *)
LEMMA WhoIsServed ==
  ASSUME ShellTypes, Conversation, NEW k \in DOMAIN shells, ~Quiet(k)
  PROVE  k = Len(shells) /\ \E c \in Clients : at[c] \in Busy
  <1>1. \A i \in DOMAIN shells : i < Len(shells) \/ i = Len(shells)
    BY DEF ShellTypes
  <1> QED  BY <1>1 DEF Conversation, NobodyBusy

(* What a step of the device must show: the thread it serves is still at   *)
(* the same place of the conversation.                                     *)
LEMMA DeviceStep ==
  ASSUME ShellTypes, Conversation, NEW c \in Clients, at[c] \in Busy, NEW k, k = Len(shells),
         NEW s \in ShellSet, shells' = [shells EXCEPT ![k] = s],
         UNCHANGED <<at, local>>, BusyInv(c, k)'
  PROVE  ShellTypes' /\ Conversation'
  <1>1. /\ at[c] \in Busy /\ local[c] \in LocalSet
        /\ at' = [at EXCEPT ![c] = at[c]] /\ local' = [local EXCEPT ![c] = local[c]]
    BY DEF ShellTypes
  <1>2. at[c] # "recv" /\ at[c] # "done"
    BY DEF Busy
  <1> QED  BY <1>1, <1>2, BusyStep

LEMMA DeviceOkayInv ==
  ASSUME ShellTypes, Conversation, NEW k \in DOMAIN shells, DeviceOkay(k)
  PROVE  ShellTypes' /\ Conversation'
  <1>1. /\ shells[k].okay > 0 /\ shells' = [shells EXCEPT ![k].okay = @ - 1]
        /\ inbox' = Append(inbox, Okay(k)) /\ UNCHANGED <<at, shellRemoteId, local, clean>>
    BY DEF DeviceOkay, Okay
  <1>2. ~Quiet(k)
    BY <1>1 DEF Quiet
  <1>3. PICK c \in Clients : at[c] \in Busy /\ k = Len(shells)
    BY <1>2, WhoIsServed
  <1>4. shells # <<>> /\ BusyInv(c, k)
    BY <1>3 DEF Conversation
  <1>5. shells[k] \in ShellSet
    BY <1>3, <1>4, LastShell
  <1> DEFINE s == [shells[k] EXCEPT !.okay = @ - 1]
  <1>6. /\ s \in ShellSet /\ s.okay = shells[k].okay - 1 /\ s.left = shells[k].left
        /\ s.unacked = shells[k].unacked /\ s.size = shells[k].size
    BY <1>1, <1>5 DEF ShellSet
  <1>7. shells' = [shells EXCEPT ![k] = s]
    BY <1>1
  <1>8. shells'[k] = s
    BY <1>1
  <1> HIDE DEF s
  <1>9. shells[k].okay # 0
    BY <1>1
  <1>10. \A n : Answering(k, n) => Answering(k, n)'
    <2> SUFFICES ASSUME NEW n, Answering(k, n) PROVE Answering(k, n)'
      OBVIOUS
    <2>1. shells[k].okay = 1 /\ shells[k].left = n /\ ~shells[k].unacked /\ inbox = <<>>
      BY <1>9 DEF Answering
    <2>2. inbox' = <<Okay(k)>>
      BY <1>1, <2>1
    <2>3. shells'[k].okay = 0 /\ shells'[k].left = n /\ ~shells'[k].unacked
      BY <1>6, <1>8, <2>1
    <2> QED  BY <2>2, <2>3 DEF Answering
  <1>11. \A n : ~Writing(k, n)
    BY <1>9 DEF Writing
  <1>12. BusyInv(c, k)'
    BY <1>1, <1>2, <1>3, <1>4, <1>6, <1>8, <1>9, <1>10, <1>11 DEF BusyInv, Busy
  <1> QED  BY <1>1, <1>3, <1>6, <1>7, <1>12, DeviceStep

LEMMA DeviceWriteInv ==
  ASSUME ShellTypes, Conversation, clean, NEW k \in DOMAIN shells, DeviceWrite(k), clean'
  PROVE  ShellTypes' /\ Conversation'
  <1>1. /\ shells[k].okay = 0 /\ shells[k].left > 0 /\ ~shells[k].unacked
        /\ shells' = [shells EXCEPT ![k].left = @ - 1, ![k].unacked = TRUE]
        /\ UNCHANGED <<at, shellRemoteId, local>>
    BY DEF DeviceWrite
  <1>2. ~Quiet(k)
    BY <1>1 DEF Quiet
  <1>3. PICK c \in Clients : at[c] \in Busy /\ k = Len(shells)
    BY <1>2, WhoIsServed
  <1>4. shells # <<>> /\ BusyInv(c, k)
    BY <1>3 DEF Conversation
  <1>5. shells[k] \in ShellSet
    BY <1>3, <1>4, LastShell
  <1> DEFINE s == [shells[k] EXCEPT !.left = @ - 1, !.unacked = TRUE]
  <1>6. /\ s \in ShellSet /\ s.okay = shells[k].okay /\ s.left = shells[k].left - 1
        /\ s.unacked /\ s.size = shells[k].size
    BY <1>1, <1>5 DEF ShellSet
  <1>7. shells' = [shells EXCEPT ![k] = s] /\ shells'[k] = s
    BY <1>1
  <1> HIDE DEF s
  <1>8. inbox' = Append(inbox, Wrte(k, shells[k].left = 1))
    <2>1. PICK looks \in BOOLEAN :
            /\ inbox' = Append(inbox, Wrte(k, looks))
            /\ looks <=> shells[k].left = 1
      BY DEF DeviceWrite, Wrte
    <2>2. looks = (shells[k].left = 1)
      BY <2>1, Zenon
    <2> QED  BY <2>1, <2>2
  <1>9. \A n : Answering(k, n) => Answering(k, n)'
    <2> SUFFICES ASSUME NEW n, Answering(k, n) PROVE Answering(k, n)'
      OBVIOUS
    <2>1. shells[k].left = n /\ inbox = <<Okay(k)>>
      BY <1>1 DEF Answering
    <2>2. inbox' = <<Okay(k), Wrte(k, n = 1)>>
      <3>1. inbox' = Append(<<Okay(k)>>, Wrte(k, n = 1))
        BY <1>8, <2>1, Zenon
      <3> QED  BY <3>1, Tuples
    <2>3. shells'[k].okay = 0 /\ shells'[k].left = n - 1 /\ shells'[k].unacked
      BY <1>1, <1>6, <1>7, <2>1
    <2> QED  BY <2>2, <2>3 DEF Answering
  <1>10. \A n : Writing(k, n) => Writing(k, n)'
    <2> SUFFICES ASSUME NEW n, Writing(k, n) PROVE Writing(k, n)'
      OBVIOUS
    <2>1. shells[k].left = n /\ inbox = <<>>
      BY <1>1 DEF Writing
    <2>2. inbox' = <<Wrte(k, n = 1)>>
      BY <1>8, <2>1
    <2>3. shells'[k].okay = 0 /\ shells'[k].left = n - 1 /\ shells'[k].unacked
      BY <1>1, <1>6, <1>7, <2>1
    <2> QED  BY <2>2, <2>3 DEF Writing
  <1>11. shells[k].left # 0 /\ shells'[k].size = shells[k].size
    BY <1>1, <1>6, <1>7
  <1>12. BusyInv(c, k)'
    BY <1>1, <1>2, <1>3, <1>4, <1>9, <1>10, <1>11 DEF BusyInv, Busy
  <1> QED  BY <1>1, <1>3, <1>6, <1>7, <1>12, DeviceStep

-----------------------------------------------------------------------------
\* openShell

\* The locals are not part of what the lemmas on the conversation read.
LEMMA FirstOne ==
  ASSUME NEW x, 1 \in DOMAIN inbox, DOMAIN inbox \subseteq Nat \ {0}, inbox[1].cmd = x
  PROVE  FirstOf(x) = 1 /\ Expected(x)
  <1>1. \A j \in 1 .. 1 - 1 : inbox[j].cmd # x
    OBVIOUS
  <1>2. \A i \in DOMAIN inbox : i # 1 => 1 \in 1 .. i - 1
    OBVIOUS
  <1>3. \A i \in DOMAIN inbox :
          inbox[i].cmd = x /\ (\A j \in 1 .. i - 1 : inbox[j].cmd # x) => i = 1
    BY <1>2
  <1> QED  BY <1>1, <1>3 DEF FirstOf, Expected

LEMMA OpenSendInv ==
  ASSUME ShellTypes, Conversation, NEW c \in Clients, OpenSend(c), clean'
  PROVE  ShellTypes' /\ Conversation'
  <1> DEFINE s == [okay |-> 1, left |-> 1, unacked |-> FALSE, size |-> 0]
  <1>1. /\ at[c] = "open" /\ at' = [at EXCEPT ![c] = "opening"]
        /\ shells' = Append(shells, s)
        /\ \A d \in Clients \ {c} : at[d] \notin InHandler
        /\ UNCHANGED <<shellRemoteId, local, inbox>>
    BY DEF OpenSend, Goes, Opens
  <1>2. s \in ShellSet /\ s.okay = 1 /\ s.left = 1 /\ s.unacked = FALSE
    BY DEF ShellSet
  <1> HIDE DEF s
  <1>3. NobodyBusy /\ inbox = <<>> /\ local[c] = NoLocals
    <2>1. \A d \in Clients \ {c} : at[d] \notin Busy
      BY <1>1 DEF InHandler, Busy
    <2>2. at[c] \notin Busy
      BY <1>1 DEF Busy
    <2> QED  BY <1>1, <2>1, <2>2 DEF NobodyBusy, Conversation, IdlePlaces
  <1>4. /\ at \in [Clients -> Places] /\ shells \in Seq(ShellSet)
    BY DEF ShellTypes
  <1>5. PICK k \in Nat : k = Len(shells) + 1
    BY <1>4
  <1>6. /\ shells' \in Seq(ShellSet) /\ Len(shells') = k /\ shells'[k] = s /\ shells' # <<>>
        /\ DOMAIN shells' = DOMAIN shells \cup {k} /\ k \notin DOMAIN shells
        /\ \A i \in DOMAIN shells : shells'[i] = shells[i]
    BY <1>1, <1>2, <1>4, <1>5
  <1>7. at'[c] = "opening" /\ \A d \in Clients \ {c} : at'[d] = at[d]
    BY <1>1, <1>4
  <1>8. ShellTypes'
    BY <1>1, <1>4, <1>6 DEF ShellTypes, Places, Busy
  <1>9. "opening" \in Busy /\ "opening" \notin IdlePlaces /\ "opening" # "done"
    BY DEF Busy, IdlePlaces
  <1>10. ~NobodyBusy' /\ \A d \in Clients : at'[d] \in Busy => d = c
    BY <1>3, <1>7, <1>9 DEF NobodyBusy
  <1>11. \A i \in DOMAIN shells' : i < Len(shells') => Quiet(i)'
    <2> SUFFICES ASSUME NEW i \in DOMAIN shells PROVE Quiet(i)'
      BY <1>5, <1>6
    <2> QED  BY <1>3, <1>6 DEF Conversation, Quiet
  <1>12. BusyInv(c, Len(shells))'
    <2>1. Answering(k, 1)'
      BY <1>1, <1>2, <1>3, <1>6 DEF Answering
    <2>2. BusyInv(c, k)'
      BY <1>1, <1>3, <1>7, <2>1, NoLocalsAre DEF BusyInv
    <2> QED  BY <1>6, <2>2
  <1>13. \A d \in Clients : at'[d] = "done" => DoneInv(d)'
    <2> SUFFICES ASSUME NEW d \in Clients \ {c}, at[d] = "done" PROVE DoneInv(d)'
      BY <1>7, <1>9
    <2>1. PICK i : i = local[d].remote
      OBVIOUS
    <2>2. /\ i \in DOMAIN shells /\ Quiet(i) /\ i # k
          /\ local[d].wrtePayloads = Outputs(i, shells[i].size)
      BY <1>6, <2>1 DEF Conversation, DoneInv
    <2>3. local' = local /\ shells'[i] = shells[i] /\ i \in DOMAIN shells' /\ i # Len(shells')
      BY <1>1, <1>6, <2>2
    <2> QED  BY <2>1, <2>2, <2>3 DEF DoneInv, Quiet, Outputs
  <1>14. \A d \in Clients : at'[d] \in IdlePlaces => local'[d] = NoLocals
    BY <1>1, <1>3, <1>7 DEF Conversation, IdlePlaces
  <1> QED
    BY <1>6, <1>8, <1>10, <1>11, <1>12, <1>13, <1>14 DEF Conversation, IdlePlaces

LEMMA OpenRecvInv ==
  ASSUME ShellTypes, Conversation, NEW c \in Clients, OpenRecv(c)
  PROVE  ShellTypes' /\ Conversation'
  <1>1. PICK m : m = Head(inbox)
    OBVIOUS
  <1>2. PICK p : p = IF local[c].got \cup {m.cmd} = {"OKAY", "WRTE"} THEN "opened" ELSE "opening"
    OBVIOUS
  <1>3. /\ at[c] = "opening" /\ inbox' = Tail(inbox) /\ inbox # <<>> /\ UNCHANGED shells
        /\ shellRemoteId' = IF m.cmd = "OKAY" THEN m.arg0 ELSE shellRemoteId
        /\ local' = [local EXCEPT ![c].got = @ \cup {m.cmd},
                                  ![c].wrtePayload = IF m.cmd = "WRTE" THEN m.prompt ELSE @]
        /\ at' = [at EXCEPT ![c] = p]
    BY <1>1, <1>2 DEF OpenRecv, Goes
  <1>4. at[c] \in Busy /\ shells # <<>>
    BY <1>3 DEF Busy, Conversation
  <1>5. PICK k : k = Len(shells)
    OBVIOUS
  <1>6. BusyInv(c, k)
    BY <1>4, <1>5 DEF Conversation
  <1>7. /\ shells[k] \in ShellSet /\ shells' = [shells EXCEPT ![k] = shells[k]]
        /\ shells' = shells
    BY <1>3, <1>4, <1>5, LastShell
  <1> DEFINE l == [local[c] EXCEPT !.got = @ \cup {m.cmd},
                                   !.wrtePayload = IF m.cmd = "WRTE" THEN m.prompt ELSE @]
  <1>8. local[c] \in LocalSet /\ at \in [Clients -> Places] /\ local \in [Clients -> LocalSet]
    BY DEF ShellTypes
  <1>9. /\ local' = [local EXCEPT ![c] = l] /\ l.got = local[c].got \cup {m.cmd}
        /\ l.wrtePayloads = local[c].wrtePayloads
        /\ m.cmd \in {"OKAY", "WRTE"} /\ m.prompt \in BOOLEAN => l \in LocalSet
    BY <1>3, <1>8 DEF LocalSet
  <1> HIDE DEF l
  <1>10. at'[c] = p /\ local'[c] = l
    BY <1>3, <1>8, <1>9
  <1>11. local[c].wrtePayloads = <<>>
    BY <1>3, <1>6 DEF BusyInv
  <1>12. CASE local[c].got = {} /\ Answering(k, 1)
    <2>1. \/ inbox = <<Okay(k)>> /\ shells[k].okay = 0 /\ shells[k].left = 1 /\ ~shells[k].unacked
          \/ /\ inbox = <<Okay(k), Wrte(k, 1 = 1)>> /\ shells[k].okay = 0
             /\ shells[k].left = 1 - 1 /\ shells[k].unacked
      BY <1>3, <1>12 DEF Answering
    <2>3. m = Okay(k)
      BY <1>1, <2>1, Tuples
    <2>4. Writing(k, 1)'
      <3>1. CASE inbox = <<Okay(k)>>
        BY <1>3, <1>7, <2>1, <3>1, Tuples DEF Writing
      <3>2. CASE inbox = <<Okay(k), Wrte(k, 1 = 1)>>
        <4>1. inbox' = <<Wrte(k, 1 = 1)>>
          BY <1>3, <3>2, Tuples
        <4>2. inbox # <<Okay(k)>>
          BY <3>2
        <4> QED  BY <1>7, <2>1, <4>1, <4>2 DEF Writing
      <3> QED  BY <2>1, <3>1, <3>2
    <2>5. l.got = {"OKAY"} /\ p = "opening" /\ shellRemoteId' = k /\ l \in LocalSet
      BY <1>2, <1>3, <1>9, <1>12, <2>3, Messages DEF Okay
    <2>6. BusyInv(c, k)'
      BY <1>9, <1>10, <1>11, <2>4, <2>5 DEF BusyInv
    <2>7. p \in Busy /\ p # "recv" /\ p # "done"
      BY <2>5 DEF Busy
    <2>8. l \in LocalSet /\ at' = [at EXCEPT ![c] = p] /\ local' = [local EXCEPT ![c] = l]
      BY <1>3, <1>9, <2>5
    <2> QED  BY <1>4, <1>5, <1>7, <2>6, <2>7, <2>8, BusyStep
  <1>13. CASE local[c].got = {"OKAY"} /\ shellRemoteId = k /\ Writing(k, 1)
    <2>1. /\ inbox = <<Wrte(k, 1 = 1)>> /\ shells[k].okay = 0 /\ shells[k].left = 1 - 1
      BY <1>3, <1>13 DEF Writing
    <2>3. m = Wrte(k, 1 = 1) /\ inbox' = <<>>
      BY <1>1, <1>3, <2>1, Tuples
    <2>4. m.cmd = "WRTE" /\ m.prompt \in BOOLEAN
      BY <2>3, Messages
    <2>5. p = "opened" /\ shellRemoteId' = k /\ l \in LocalSet
      BY <1>2, <1>3, <1>9, <1>13, <2>4
    <2>6. BusyInv(c, k)'
      BY <1>7, <1>9, <1>10, <1>11, <2>1, <2>3, <2>5 DEF BusyInv
    <2>7. p \in Busy /\ p # "recv" /\ p # "done"
      BY <2>5 DEF Busy
    <2>8. l \in LocalSet /\ at' = [at EXCEPT ![c] = p] /\ local' = [local EXCEPT ![c] = l]
      BY <1>3, <1>9, <2>5
    <2> QED  BY <1>4, <1>5, <1>7, <2>6, <2>7, <2>8, BusyStep
  <1> QED  BY <1>3, <1>6, <1>12, <1>13 DEF BusyInv

(* The shell of a thread in the handler that leaves it or goes on in it,   *)
(* with nothing else to do for the device.                                 *)
LEMMA OpenAckInv ==
  ASSUME ShellTypes, Conversation, NEW c \in Clients, OpenAck(c)
  PROVE  ShellTypes' /\ Conversation'
  <1>1. /\ at[c] = "opened" /\ Opened(c) /\ UNCHANGED <<shellRemoteId, inbox>>
        /\ shells' = [shells EXCEPT ![shellRemoteId].unacked = FALSE]
    BY DEF OpenAck, Acks
  <1>2. at[c] \in Busy /\ shells # <<>>
    BY <1>1 DEF Busy, Conversation
  <1>3. PICK k : k = Len(shells)
    OBVIOUS
  <1>4. /\ shellRemoteId = k /\ shells[k].okay = 0 /\ shells[k].left = 0 /\ inbox = <<>>
        /\ local[c].wrtePayloads = <<>>
    BY <1>1, <1>2, <1>3 DEF Conversation, BusyInv
  <1>5. shells[k] \in ShellSet /\ k \in DOMAIN shells
    BY <1>2, <1>3, LastShell
  <1>6. PICK s : s = [shells[k] EXCEPT !.unacked = FALSE]
    OBVIOUS
  <1>7. s \in ShellSet /\ s.okay = 0 /\ s.left = 0 /\ ~s.unacked
    BY <1>4, <1>5, <1>6 DEF ShellSet
  <1>8. shells' = [shells EXCEPT ![k] = s] /\ shells'[k] = s
    BY <1>1, <1>4, <1>5, <1>6
  <1>9. Quiet(k)'
    BY <1>7, <1>8 DEF Quiet
  <1>10. at \in [Clients -> Places] /\ local \in [Clients -> LocalSet] /\ local[c] \in LocalSet
    BY DEF ShellTypes
  <1>11. CASE Goes(c, "exec") /\ UNCHANGED local
    <2>1. /\ at' = [at EXCEPT ![c] = "exec"] /\ at'[c] = "exec"
          /\ local' = [local EXCEPT ![c] = local[c]] /\ local'[c] = local[c]
      BY <1>10, <1>11 DEF Goes
    <2>2. BusyInv(c, k)'
      BY <1>1, <1>4, <1>9, <2>1 DEF BusyInv
    <2> QED  BY <1>2, <1>3, <1>7, <1>8, <1>10, <2>1, <2>2, BusyStep DEF Busy
  <1>12. CASE Returns(c)
    <2>1. at' = [at EXCEPT ![c] = "recv"] /\ local' = [local EXCEPT ![c] = NoLocals]
      BY <1>12 DEF Returns, Goes
    <2>2. inbox' = <<>> /\ "recv" \notin Busy /\ "recv" # "done"
      BY <1>1, <1>4 DEF Busy
    <2> QED  BY <1>2, <1>3, <1>7, <1>8, <1>9, <2>1, <2>2, NoLocalsAre, BusyStep
  <1> QED  BY <1>1, <1>11, <1>12 DEF Opened

-----------------------------------------------------------------------------
\* execShell

LEMMA AfterFirst ==
  \A o, w : /\ SubSeq(<<o>>, 1 + 1, Len(<<o>>)) = <<>>
            /\ SubSeq(<<o, w>>, 1 + 1, Len(<<o, w>>)) = <<w>>
  <1>1. ASSUME NEW o, NEW w PROVE SubSeq(<<o, w>>, 1 + 1, Len(<<o, w>>)) = <<w>>
    <2>1. PICK S : o \in S /\ w \in S
      <3> WITNESS {o, w}
      <3> QED  OBVIOUS
    <2>2. <<o, w>> \in Seq(S) /\ Len(<<o, w>>) = 2 /\ <<o, w>>[2] = w
      BY <2>1
    <2>3. /\ SubSeq(<<o, w>>, 2, 2) \in Seq(S) /\ Len(SubSeq(<<o, w>>, 2, 2)) = 1
          /\ SubSeq(<<o, w>>, 2, 2)[1] = w
      BY <2>1, <2>2
    <2>4. <<w>> \in Seq(S) /\ Len(<<w>>) = 1 /\ <<w>>[1] = w
      BY <2>1
    <2>5. PICK x \in Seq(S) : x = SubSeq(<<o, w>>, 2, 2)
      BY <2>3
    <2>6. PICK y \in Seq(S) : y = <<w>>
      BY <2>4
    <2>7. Len(x) = Len(y) /\ \A i \in 1 .. Len(x) : x[i] = y[i]
      BY <2>3, <2>4, <2>5, <2>6
    <2>8. x = y
      BY <2>7, SeqEqual
    <2>9. 1 + 1 = 2
      OBVIOUS
    <2> QED  BY <2>2, <2>5, <2>6, <2>8, <2>9
  <1>2. ASSUME NEW o PROVE SubSeq(<<o>>, 1 + 1, Len(<<o>>)) = <<>>
    OBVIOUS
  <1> QED  BY <1>1, <1>2

LEMMA OutputsGrow ==
  ASSUME NEW k \in Nat, NEW n \in Nat
  PROVE  /\ Outputs(k, n) \in Seq(Nat) /\ Outputs(k, 0) = <<>>
         /\ Append(Outputs(k, n), k) = Outputs(k, n + 1)
  <1>1. \A m \in Nat : /\ Outputs(k, m) \in Seq(Nat) /\ Len(Outputs(k, m)) = m
                       /\ \A i \in 1 .. m : Outputs(k, m)[i] = k
    BY DEF Outputs
  <1>2. Outputs(k, 0) = <<>>
    BY DEF Outputs
  <1>3. /\ Append(Outputs(k, n), k) \in Seq(Nat) /\ Len(Append(Outputs(k, n), k)) = n + 1
        /\ \A i \in 1 .. n + 1 : Append(Outputs(k, n), k)[i] = k
    BY <1>1
  <1>4. Append(Outputs(k, n), k) = Outputs(k, n + 1)
    BY <1>1, <1>3, SeqEqual
  <1> QED  BY <1>1, <1>2, <1>4

LEMMA ExecSendInv ==
  ASSUME ShellTypes, Conversation, NEW c \in Clients, ExecSend(c)
  PROVE  ShellTypes' /\ Conversation'
  <1>1. /\ at[c] = "exec" /\ at' = [at EXCEPT ![c] = "okay"] /\ Runs(shellRemoteId)
        /\ local' = [local EXCEPT ![c].remote = shellRemoteId] /\ UNCHANGED inbox
    BY DEF ExecSend, Goes
  <1>2. at[c] \in Busy /\ shells # <<>>
    BY <1>1 DEF Busy, Conversation
  <1>3. PICK k : k = Len(shells)
    OBVIOUS
  <1>4. shellRemoteId = k /\ Quiet(k) /\ inbox = <<>> /\ local[c].wrtePayloads = <<>>
    BY <1>1, <1>2, <1>3 DEF Conversation, BusyInv
  <1>5. shells[k] \in ShellSet /\ k \in DOMAIN shells /\ k \in Nat
    BY <1>2, <1>3, LastShell DEF ShellTypes
  <1>6. PICK n \in 1 .. MaxChunks :
          shells' = [shells EXCEPT ![k].okay = @ + 1, ![k].left = @ + n, ![k].size = n]
    BY <1>1, <1>4 DEF Runs
  <1>7. PICK s : s = [shells[k] EXCEPT !.okay = @ + 1, !.left = @ + n, !.size = n]
    OBVIOUS
  <1>8. s \in ShellSet /\ s.okay = 1 /\ s.left = n /\ ~s.unacked /\ s.size = n
    <2>1. n \in Nat
      BY ChunksAssumption
    <2>2. /\ shells[k].okay = 0 /\ shells[k].left = 0 /\ ~shells[k].unacked
      BY <1>4 DEF Quiet
    <2>3. s.unacked = shells[k].unacked /\ s.size = n
      BY <1>5, <1>7 DEF ShellSet
    <2>4. s.okay = shells[k].okay + 1 /\ s.left = shells[k].left + n
      BY <1>5, <1>7 DEF ShellSet
    <2>5. s.okay = 1 /\ s.left = n
      BY <2>1, <2>2, <2>4
    <2>6. s \in ShellSet
      <3>1. s.okay \in Nat /\ s.left \in Nat
        BY <2>1, <2>5
      <3> QED  BY <1>5, <1>7, <2>1, <2>4, <3>1 DEF ShellSet
    <2> QED  BY <2>2, <2>3, <2>5, <2>6
  <1>9. shells' = [shells EXCEPT ![k] = s] /\ shells'[k] = s
    BY <1>5, <1>6, <1>7
  <1>10. at \in [Clients -> Places] /\ local \in [Clients -> LocalSet] /\ local[c] \in LocalSet
    BY DEF ShellTypes
  <1>11. PICK l : l = [local[c] EXCEPT !.remote = k]
    OBVIOUS
  <1>12. /\ l \in LocalSet /\ l.remote = k /\ l.wrtePayloads = <<>>
         /\ local' = [local EXCEPT ![c] = l] /\ local'[c] = l
    BY <1>1, <1>4, <1>5, <1>10, <1>11 DEF LocalSet
  <1>13. at'[c] = "okay" /\ "okay" \in Busy /\ "okay" # "recv" /\ "okay" # "done"
    BY <1>1, <1>10 DEF Busy
  <1>14. Answering(k, n)'
    BY <1>1, <1>4, <1>8, <1>9 DEF Answering
  <1>15. BusyInv(c, k)'
    <2>1. shells'[k].size = n /\ n > 0
      BY <1>8, <1>9
    <2> QED  BY <1>12, <1>13, <1>14, <2>1 DEF BusyInv
  <1> QED  BY <1>1, <1>2, <1>3, <1>8, <1>9, <1>12, <1>13, <1>15, BusyStep

LEMMA ExecOkayInv ==
  ASSUME ShellTypes, Conversation, NEW c \in Clients, ExecOkay(c)
  PROVE  ShellTypes' /\ Conversation'
  <1>1. /\ at[c] = "okay" /\ Expected("OKAY") /\ at' = [at EXCEPT ![c] = "write"]
        /\ inbox' = After(FirstOf("OKAY")) /\ UNCHANGED <<shellRemoteId, local, shells>>
    BY DEF ExecOkay, Goes
  <1>2. at[c] \in Busy /\ shells # <<>>
    BY <1>1 DEF Busy, Conversation
  <1>3. PICK k : k = Len(shells)
    OBVIOUS
  <1>4. PICK z : z = shells[k].size
    OBVIOUS
  <1>5. /\ local[c].remote = k /\ z > 0 /\ Answering(k, z) /\ local[c].wrtePayloads = <<>>
    BY <1>1, <1>2, <1>3, <1>4 DEF Conversation, BusyInv
  <1>6. shells[k] \in ShellSet /\ k \in Nat /\ z \in Nat
    BY <1>2, <1>3, <1>4, LastShell DEF ShellTypes
  <1>7. inbox # <<>>
    BY <1>1 DEF Expected
  <1>8. Writing(k, z)'
    <2>1. CASE inbox = <<Okay(k)>>
      <3>1. FirstOf("OKAY") = 1
        BY <2>1, FirstOne, Messages
      <3>2. inbox' = <<>>
        BY <1>1, <2>1, <3>1, AfterFirst DEF After
      <3>3. inbox # <<Okay(k), Wrte(k, z = 1)>>
        BY <2>1
      <3> QED  BY <1>1, <1>5, <1>7, <3>2, <3>3 DEF Writing, Answering
    <2>2. CASE inbox = <<Okay(k), Wrte(k, z = 1)>>
      <3>1. FirstOf("OKAY") = 1
        BY <2>2, FirstOne, Messages
      <3>2. inbox' = <<Wrte(k, z = 1)>>
        BY <1>1, <2>2, <3>1, AfterFirst DEF After
      <3>3. inbox # <<Okay(k)>>
        BY <2>2
      <3> QED  BY <1>1, <1>5, <1>7, <3>2, <3>3 DEF Writing, Answering
    <2> QED  BY <1>5, <1>7, <2>1, <2>2 DEF Answering
  <1>9. at \in [Clients -> Places] /\ local \in [Clients -> LocalSet] /\ local[c] \in LocalSet
    BY DEF ShellTypes
  <1>10. at'[c] = "write" /\ "write" \in Busy /\ "write" # "recv" /\ "write" # "done"
    BY <1>1, <1>9 DEF Busy
  <1>11. /\ local' = [local EXCEPT ![c] = local[c]] /\ local'[c] = local[c]
         /\ shells' = [shells EXCEPT ![k] = shells[k]] /\ shells'[k] = shells[k]
    BY <1>1, <1>6, <1>9 DEF ShellTypes
  <1>12. BusyInv(c, k)'
    <2>1. 0 < z /\ local'[c].wrtePayloads = Outputs(k, 0) /\ z - 0 = z
      BY <1>5, <1>6, <1>11, OutputsGrow
    <2>2. \E n \in Nat : /\ n < shells'[k].size /\ local'[c].wrtePayloads = Outputs(k, n)
                         /\ Writing(k, shells[k].size - n)'
      BY <1>4, <1>8, <1>11, <2>1
    <2> QED  BY <1>5, <1>10, <1>11, <2>2 DEF BusyInv
  <1>13. "write" \in Busy /\ "write" # "recv" /\ "write" # "done"
    BY <1>10
  <1>14. at' = [at EXCEPT ![c] = "write"] /\ local[c] \in LocalSet /\ shells[k] \in ShellSet
    BY <1>1, <1>6, <1>9
  <1>15. local' = [local EXCEPT ![c] = local[c]] /\ shells' = [shells EXCEPT ![k] = shells[k]]
    BY <1>11
  <1> QED  BY <1>2, <1>3, <1>12, <1>13, <1>14, <1>15, BusyStep

LEMMA ExecWriteInv ==
  ASSUME ShellTypes, Conversation, NEW c \in Clients, ExecWrite(c)
  PROVE  ShellTypes' /\ Conversation'
  <1>1. PICK m : m = inbox[FirstOf("WRTE")]
    OBVIOUS
  <1>2. /\ at[c] = "write" /\ Expected("WRTE") /\ inbox' = After(FirstOf("WRTE"))
        /\ local' = [local EXCEPT ![c].wrtePayloads = Append(@, m.arg0), ![c].result = m.prompt]
        /\ at' = [at EXCEPT ![c] = IF m.prompt THEN "done" ELSE "write"]
        /\ shells' = [shells EXCEPT ![local[c].remote].unacked = FALSE]
    BY <1>1 DEF ExecWrite, Goes, Prompt, Acknowledges, Acks
  <1>3. at[c] \in Busy /\ shells # <<>>
    BY <1>2 DEF Busy, Conversation
  <1>4. PICK k : k = Len(shells)
    OBVIOUS
  <1>5. PICK z : z = shells[k].size
    OBVIOUS
  <1>6. /\ local[c].remote = k
        /\ \E n \in Nat : /\ n < z /\ local[c].wrtePayloads = Outputs(k, n)
                          /\ Writing(k, z - n)
    BY <1>2, <1>3, <1>4, <1>5 DEF Conversation, BusyInv
  <1>7. PICK n \in Nat : /\ n < z /\ local[c].wrtePayloads = Outputs(k, n)
                         /\ Writing(k, z - n)
    BY <1>6
  <1>8. shells[k] \in ShellSet /\ k \in DOMAIN shells /\ k \in Nat /\ z \in Nat
    BY <1>3, <1>4, <1>5, LastShell DEF ShellTypes
  <1>9. inbox # <<>>
    BY <1>2 DEF Expected
  <1>10. /\ shells[k].okay = 0 /\ shells[k].left = z - n - 1
         /\ inbox = <<Wrte(k, z - n = 1)>>
    BY <1>7, <1>9 DEF Writing
  <1>11. m = Wrte(k, z - n = 1) /\ inbox' = <<>>
    <2>1. FirstOf("WRTE") = 1
      BY <1>10, FirstOne, Messages
    <2> QED  BY <1>1, <1>2, <1>10, <2>1, AfterFirst DEF After
  <1>12. m.arg0 = k /\ m.prompt = (z - n = 1)
    BY <1>11, Messages
  <1>13. PICK s : s = [shells[k] EXCEPT !.unacked = FALSE]
    OBVIOUS
  <1>14. s \in ShellSet /\ s.okay = 0 /\ s.left = z - n - 1 /\ ~s.unacked /\ s.size = z
    BY <1>5, <1>8, <1>10, <1>13 DEF ShellSet
  <1>15. shells' = [shells EXCEPT ![k] = s] /\ shells'[k] = s
    BY <1>2, <1>6, <1>8, <1>13
  <1>16. at \in [Clients -> Places] /\ local \in [Clients -> LocalSet] /\ local[c] \in LocalSet
    BY DEF ShellTypes
  <1>17. PICK l : l = [local[c] EXCEPT !.wrtePayloads = Append(@, k), !.result = (z - n = 1)]
    OBVIOUS
  <1>18. l.wrtePayloads = Outputs(k, n + 1) /\ Outputs(k, n + 1) \in Seq(Nat)
    <2>1. l.wrtePayloads = Append(local[c].wrtePayloads, k)
      BY <1>16, <1>17 DEF LocalSet
    <2>2. l.wrtePayloads = Append(Outputs(k, n), k)
      BY <1>7, <2>1
    <2>3. n + 1 \in Nat
      OBVIOUS
    <2> QED  BY <1>8, <2>2, <2>3, OutputsGrow
  <1>19. /\ l \in LocalSet /\ l.remote = k
         /\ local' = [local EXCEPT ![c] = l] /\ local'[c] = l
    BY <1>2, <1>6, <1>12, <1>16, <1>17, <1>18 DEF LocalSet
  <1>20. CASE z - n = 1
    <2>1. at' = [at EXCEPT ![c] = "done"]
      BY <1>2, <1>12, <1>20
    <2>2. "done" \notin Busy /\ "done" # "recv"
      BY DEF Busy
    <2>3. Quiet(k)' /\ n + 1 = s.size
      BY <1>7, <1>8, <1>14, <1>15, <1>20 DEF Quiet
    <2> QED
      BY <1>3, <1>4, <1>11, <1>14, <1>15, <1>18, <1>19, <2>1, <2>2, <2>3, BusyStep
  <1>21. CASE z - n # 1
    <2>1. at' = [at EXCEPT ![c] = "write"] /\ at'[c] = "write"
      BY <1>2, <1>12, <1>16, <1>21
    <2>2. "write" \in Busy /\ "write" # "done" /\ "write" # "recv"
      BY DEF Busy
    <2>3. n + 1 < z /\ z - (n + 1) = z - n - 1 /\ n + 1 \in Nat
      BY <1>7, <1>8, <1>21
    <2>4. Writing(k, z - (n + 1))'
      BY <1>11, <1>14, <1>15, <2>3 DEF Writing
    <2>5. \E i \in Nat : /\ i < shells'[k].size /\ local'[c].wrtePayloads = Outputs(k, i)
                         /\ Writing(k, shells[k].size - i)'
      BY <1>14, <1>15, <1>18, <1>19, <2>3, <2>4
    <2>6. BusyInv(c, k)'
      BY <1>19, <2>1, <2>5 DEF BusyInv
    <2> QED  BY <1>3, <1>4, <1>14, <1>15, <1>19, <2>1, <2>2, <2>6, BusyStep
  <1> QED  BY <1>20, <1>21

-----------------------------------------------------------------------------
\* The threads of the clients, and the theorems

(* A step that moves an idle thread and nothing else.                      *)
LEMMA MovesOn ==
  ASSUME ShellTypes, Conversation, NEW c \in Clients, NEW p \in IdlePlaces, at[c] \in IdlePlaces,
         at' = [at EXCEPT ![c] = p], UNCHANGED <<shellRemoteId, local, inbox, shells>>
  PROVE  ShellTypes' /\ Conversation'
  <1>1. local[c] = NoLocals /\ local \in [Clients -> LocalSet]
    BY DEF Conversation, IdlePlaces, ShellTypes
  <1>2. local' = [local EXCEPT ![c] = NoLocals]
    BY <1>1
  <1> QED  BY <1>2, IdleStep

LEMMA ShellStutters ==
  ASSUME ShellTypes, Conversation, UNCHANGED <<at, shellRemoteId, local, inbox, shells>>
  PROVE  ShellTypes' /\ Conversation'
  BY DEF ShellTypes, Conversation, NobodyBusy, Quiet, BusyInv, DoneInv, Answering, Writing

LEMMA ThreadInv ==
  ASSUME ShellTypes, Conversation, clean, NEW c \in Clients, Thread(c), clean'
  PROVE  ShellTypes' /\ Conversation'
  <1>1. CASE ReadMessage(c)
    <2>1. at[c] = "recv" /\ UNCHANGED <<shellRemoteId, local, inbox, shells>>
      BY <1>1 DEF ReadMessage
    <2>2. at' = [at EXCEPT ![c] = "parsed"] \/ at' = at
      BY <1>1 DEF ReadMessage, Goes
    <2> QED  BY <2>1, <2>2, MovesOn, ShellStutters DEF IdlePlaces
  <1>2. CASE Leave(c) \/ Connect(c)
    BY <1>2, MovesOn DEF Leave, Connect, Goes, IdlePlaces
  <1>3. CASE NoteCommand(c)
    BY <1>3, MovesOn DEF NoteCommand, Goes, IdlePlaces
  <1>4. CASE Execute(c)
    <2>1. at[c] = "execute" /\ UNCHANGED <<shellRemoteId, local, inbox, shells>>
      BY <1>4 DEF Execute
    <2>2. at' = [at EXCEPT ![c] = "open"] \/ at' = [at EXCEPT ![c] = "recv"]
      BY <1>4 DEF Execute, Goes
    <2> QED  BY <2>1, <2>2, MovesOn DEF IdlePlaces
  <1>5. CASE ExecDone(c)
    BY <1>5, IdleStep DEF ExecDone, Returns, Goes, IdlePlaces
  <1>6. CASE OpenGivesUp(c) \/ ExecGivesUp(c)
    BY <1>6 DEF OpenGivesUp, ExecGivesUp
  <1> QED
    BY <1>1, <1>2, <1>3, <1>4, <1>5, <1>6, OpenSendInv, OpenRecvInv, OpenAckInv, ExecSendInv,
       ExecOkayInv, ExecWriteInv DEF Thread, HandleClient, CommandHandler

LEMMA CleanStart ==
  ASSUME at = [c \in Clients |-> "recv"], local = [c \in Clients |-> NoLocals],
         inbox = <<>>, shells = <<>>
  PROVE  ShellTypes /\ Conversation
  <1>1. ShellTypes
    BY NoLocalsAre DEF ShellTypes, Places, IdlePlaces
  <1>2. NobodyBusy
    BY DEF NobodyBusy, Busy
  <1> QED  BY <1>1, <1>2 DEF Conversation, NobodyBusy

(* The process starts again as it started.                                 *)
LEMMA RestartInv ==
  ASSUME Restart
  PROVE  ShellTypes' /\ Conversation' /\ clean'
  <1>1. /\ at' = [c \in Clients |-> "recv"] /\ local' = [c \in Clients |-> NoLocals]
        /\ inbox' = <<>> /\ shells' = <<>> /\ clean'
    BY DEF Restart
  <1>2. ShellTypes'
    BY <1>1, NoLocalsAre DEF ShellTypes, Places, IdlePlaces
  <1>3. NobodyBusy'
    BY <1>1 DEF NobodyBusy, Busy
  <1> QED  BY <1>1, <1>2, <1>3 DEF Conversation, NobodyBusy

(* What was not clean is not clean again before the process is restarted.  *)
LEMMA CleanStep ==
  ASSUME clean \in BOOLEAN, [ClientNext]_threadVars, ~(terminated /\ Restart)
  PROVE  clean' \in BOOLEAN /\ (clean' => clean)
  <1>1. CASE \E c \in Clients : Thread(c)
    <2>1. PICK c \in Clients : Thread(c)
      BY <1>1
    <2>2. CASE OpenSend(c)
      <3>1. PICK alone \in BOOLEAN : clean' = (clean /\ alone)
        <4>1. (\A d \in Clients \ {c} : at[d] \notin InHandler) \in BOOLEAN
          OBVIOUS
        <4> QED  BY <2>2, <4>1, Zenon DEF OpenSend
      <3> QED  BY <3>1
    <2>3. CASE OpenGivesUp(c) \/ ExecGivesUp(c)
      BY <2>3 DEF OpenGivesUp, ExecGivesUp
    <2>4. CASE UNCHANGED clean
      BY <2>4
    <2>5. OpenSend(c) \/ OpenGivesUp(c) \/ ExecGivesUp(c) \/ UNCHANGED clean
      BY <2>1, Zenon DEF Thread, HandleClient, CommandHandler, ReadMessage, Leave, Connect,
         NoteCommand, Execute, OpenRecv, OpenAck, ExecSend, ExecOkay, ExecWrite, ExecDone
    <2> QED  BY <2>2, <2>3, <2>4, <2>5
  <1>2. CASE Device
    <2>1. PICK k \in DOMAIN shells : DeviceOkay(k) \/ DeviceWrite(k)
      BY <1>2 DEF Device
    <2>2. CASE DeviceOkay(k)
      BY <2>2 DEF DeviceOkay
    <2>3. CASE DeviceWrite(k)
      <3>1. PICK last \in BOOLEAN : clean' = (clean /\ last)
        <4>1. PICK looks \in BOOLEAN : clean' = (clean /\ (looks <=> shells[k].left = 1))
          BY <2>3, Zenon DEF DeviceWrite
        <4>2. (looks <=> shells[k].left = 1) \in BOOLEAN
          OBVIOUS
        <4> QED  BY <4>1, <4>2, Zenon
      <3> QED  BY <3>1
    <2> QED  BY <2>1, <2>2, <2>3
  <1>3. CASE UNCHANGED threadVars
    BY <1>3 DEF threadVars, shellVars
  <1> QED  BY <1>1, <1>2, <1>3 DEF ClientNext

LEMMA ShellInvStep == ShellInv /\ [ClientNext]_threadVars => ShellInv'
  <1> SUFFICES ASSUME ShellInv, [ClientNext]_threadVars PROVE ShellInv'
    OBVIOUS
  <1>1. CASE terminated /\ Restart
    <2>1. clean' \in BOOLEAN
      BY <1>1 DEF Restart
    <2> QED  BY <1>1, <2>1, RestartInv DEF ShellInv
  <1>2. CASE ~(terminated /\ Restart)
    <2>1. clean' \in BOOLEAN /\ (clean' => clean)
      BY <1>2, CleanStep DEF ShellInv
    <2> SUFFICES ASSUME clean, clean', ShellTypes, Conversation PROVE ShellTypes' /\ Conversation'
      BY <2>1 DEF ShellInv
    <2>2. CASE \E c \in Clients : Thread(c)
      BY <2>2, ThreadInv
    <2>3. CASE Device
      BY <2>3, DeviceOkayInv, DeviceWriteInv DEF Device
    <2>4. CASE UNCHANGED threadVars
      BY <2>4, ShellStutters DEF threadVars, shellVars
    <2> QED  BY <1>2, <2>2, <2>3, <2>4 DEF ClientNext
  <1> QED  BY <1>1, <1>2

LEMMA ShellInvAlways == ClientSpec => []ShellInv
  <1>1. ClientInit => ShellInv
    BY CleanStart DEF ClientInit, ShellInit, ShellInv
  <1> QED  BY <1>1, ShellInvStep, PTL DEF ClientSpec

(* When execShell is over it has collected all of the device's output for  *)
(* its command and nothing else, for any number of clients, of commands    *)
(* and of WRTE, unless before that a wait gave up, two clients were in the *)
(* handler at once, or the last WRTE of an output was not the only one     *)
(* that looks like one with a prompt.                                      *)
THEOREM CollectsItsOutput == ClientSpec => []OwnOutput
  <1>1. ShellInv => OwnOutput
    BY DEF ShellInv, Conversation, DoneInv, Outputs, OwnOutput
  <1> QED  BY <1>1, ShellInvAlways, PTL

(* Between two commands every WRTE has its OKAY and no message is left     *)
(* over.                                                                   *)
THEOREM AcksEveryWrite == ClientSpec => []WritesAcked
  <1>1. ShellInv => WritesAcked
    BY DEF ShellInv, Conversation, NobodyBusy, Busy, InHandler, Quiet, WritesAcked
  <1> QED  BY <1>1, ShellInvAlways, PTL

-----------------------------------------------------------------------------
(***************************************************************************)
(* The key store                                                           *)
(***************************************************************************)
\* The inductive invariant of the key store

(* Nothing the program holds, the files hold or the run has sent is a key   *)
(* of another pair than p.                                                 *)
Only(p) ==
  /\ \A half \in Halves : /\ IsKey(key[half]) => key[half] = p
                          /\ IsKey(file[half]) => file[half] = p
  /\ IsKey(signature) => signature = p

(* Where the pair of a promise is, as the run comes along: in the files,   *)
(* then in memory, and while it is saved half of it in each.               *)
Promised ==
  promise > 0 =>
    /\ phase \in {"down", "loadPublic", "loadPrivate"} => file = Pair(promise)
    /\ phase = "loadPrivate" => key["public"] = promise
    /\ phase # "generate"
    /\ phase \in {"up", "savePrivate", "writePrivate"} => key = Pair(promise)
    /\ phase \in {"savePublic", "writePublic"} =>
         /\ key["private"] = Null /\ key["public"] = promise
         /\ file["private"] = promise
    /\ InUse /\ IsKey(signature) => signature = promise

(* Before the first fault there is no pair but the promised one, and after *)
(* it, until a new one is promised, there is one pair still; of a pair     *)
(* generated then, the old one may still be in the files.                  *)
OnePair ==
  /\ faults = 0 => Only(promise)
  /\ faults = 1 /\ promise = 0 => \E p \in Nat : Only(p)

KeyInv ==
  /\ KeyTypeOK /\ Promised /\ OnePair
  /\ phase \in Loading => signature = Null

-----------------------------------------------------------------------------
\* The types, and what the helpers do

LEMMA KeyTypes ==
  ASSUME KeyTypeOK
  PROVE  /\ made \in Nat /\ promise \in Nat /\ promise <= made
         /\ faults \in Nat /\ faults <= MaxFaults /\ signature \in Int
         /\ key \in [Halves -> Int] /\ file \in [Halves -> Int]
         /\ \A half \in Halves : /\ key[half] \in Null .. MaxKeys /\ key[half] <= made
                                 /\ file[half] \in Torn .. MaxKeys /\ file[half] <= made
  <1> USE KeyBoundsAssumption
  <1>1. made \in 0 .. MaxKeys /\ promise \in 0 .. made /\ faults \in 0 .. MaxFaults
    BY DEF KeyTypeOK
  <1>2. signature \in Null .. MaxKeys
    BY DEF KeyTypeOK
  <1>3. key \in [Halves -> Null .. MaxKeys] /\ file \in [Halves -> Torn .. MaxKeys]
    BY DEF KeyTypeOK
  <1>4. \A half \in Halves : key[half] <= made /\ file[half] <= made
    BY DEF KeyTypeOK
  <1>5. made \in Nat /\ promise \in Nat /\ promise <= made /\ faults \in Nat /\ faults <= MaxFaults
    BY <1>1
  <1>6. signature \in Int
    BY <1>2 DEF Null
  <1>7. key \in [Halves -> Int] /\ file \in [Halves -> Int]
    BY <1>3 DEF Null, Torn
  <1> QED  BY <1>3, <1>4, <1>5, <1>6, <1>7

LEMMA FaultDoes ==
  ASSUME KeyTypeOK, Fault
  PROVE  faults' \in 0 .. MaxFaults /\ faults' = faults + 1 /\ promise' = 0
  BY KeyBoundsAssumption, KeyTypes DEF Fault

LEMMA PairIs ==
  \A k : /\ Pair(k) = [half \in Halves |-> k]
         /\ Pair(k)["private"] = k /\ Pair(k)["public"] = k
  BY DEF Pair, Halves

LEMMA HalvesAre == "private" \in Halves /\ "public" \in Halves /\ "private" # "public"
  BY DEF Halves

(* What the first fault leaves is one pair, if there was one before it.     *)
LEMMA OnePairStays ==
  ASSUME KeyInv, UNCHANGED <<faults, promise>> \/ Fault,
         \A p : Only(p) => Only(p)'
  PROVE  OnePair'
  <1>1. KeyTypeOK /\ OnePair
    BY DEF KeyInv
  <1>2. promise \in Nat /\ faults \in Nat
    BY <1>1, KeyTypes
  <1>3. CASE UNCHANGED <<faults, promise>>
    BY <1>1, <1>3 DEF OnePair
  <1>4. CASE Fault
    <2>1. faults' = faults + 1 /\ promise' = 0
      BY <1>1, <1>4, FaultDoes
    <2>2. faults' = 1 => \E p \in Nat : Only(p)
      BY <1>1, <1>2, <2>1 DEF OnePair
    <2>3. faults' # 0
      BY <1>2, <2>1
    <2> QED  BY <2>2, <2>3 DEF OnePair
  <1> QED  BY <1>3, <1>4

-----------------------------------------------------------------------------
\* The constructor

LEMMA ConstructInv == KeyInv /\ Construct => KeyInv'
  <1> SUFFICES ASSUME KeyInv, Construct PROVE KeyInv'
    OBVIOUS
  <1>0. KeyTypeOK
    BY DEF KeyInv
  <1>1. /\ key' = [half \in Halves |-> Blank] /\ signature' = Null /\ phase' = "loadPublic"
        /\ UNCHANGED <<file, made, trusted, faults, promise>>
    BY PairIs DEF Construct
  <1>2. KeyTypeOK'
    <2>1. /\ key' \in [Halves -> Null .. MaxKeys] /\ \A half \in Halves : key'[half] <= made
          /\ signature' \in Null .. MaxKeys
      BY <1>0, <1>1, KeyTypes, KeyBoundsAssumption DEF Blank, Null
    <2> QED  BY <1>0, <1>1, <2>1 DEF KeyTypeOK, Loading
  <1>3. Promised'
    BY DEF KeyInv, Construct, Promised, InUse, Saving
  <1>4. OnePair'
    <2>1. \A half \in Halves : ~IsKey(key'[half])
      BY <1>1 DEF Blank, IsKey
    <2>2. ~IsKey(signature')
      BY <1>1 DEF Null, IsKey
    <2>3. \A p : Only(p) => Only(p)'
      BY <1>1, <2>1, <2>2 DEF Only
    <2> QED  BY <1>1, <2>3, OnePairStays
  <1> QED  BY <1>1, <1>2, <1>3, <1>4 DEF KeyInv

(* A half is loaded, is left alone, or becomes null, and the files stay.   *)
LEMMA LoadDoes ==
  ASSUME KeyTypeOK, NEW half \in Halves, NEW next, Load(half, next)
  PROVE  /\ UNCHANGED <<file, made, signature, trusted>>
         /\ \/ key' = [key EXCEPT ![half] = file[half]]
            \/ key' = [key EXCEPT ![half] = Null] \/ key' = key
         /\ \/ /\ phase' = next /\ UNCHANGED <<faults, promise>>
               /\ key' = [key EXCEPT ![half] = file[half]]
            \/ phase' = "generate" /\ UNCHANGED <<faults, promise>> /\ ~IsKey(file[half])
            \/ phase' = "generate" /\ Fault
  BY DEF Load, IsKey, Torn, Missing

(* To load keeps the types, and there is still one pair.                   *)
LEMMA LoadKeeps ==
  ASSUME KeyInv, NEW half \in Halves, NEW next \in {"loadPrivate", "up"}, Load(half, next)
  PROVE  KeyTypeOK' /\ OnePair'
  <1>1. KeyTypeOK
    BY DEF KeyInv
  <1>2. key' \in [Halves -> Null .. MaxKeys] /\ \A h \in Halves : key'[h] <= made
    <2>1. /\ file[half] \in Null .. MaxKeys /\ file[half] <= made
          /\ Null \in Null .. MaxKeys /\ Null <= made
      BY <1>1, KeyTypes, KeyBoundsAssumption DEF Null, Torn
    <2>2. key \in [Halves -> Null .. MaxKeys] /\ \A h \in Halves : key[h] <= made
      BY <1>1 DEF KeyTypeOK
    <2> QED  BY <1>1, <2>1, <2>2, LoadDoes
  <1>3. phase' \in {"down", "up"} \cup Loading \cup Saving
    BY <1>1, LoadDoes DEF Loading
  <1>4. faults' \in 0 .. MaxFaults /\ promise' \in 0 .. made
    <2>1. faults \in 0 .. MaxFaults /\ promise \in 0 .. made
      BY <1>1 DEF KeyTypeOK
    <2>2. 0 \in 0 .. made
      BY <1>1, KeyTypes
    <2> QED  BY <1>1, <2>1, <2>2, LoadDoes, FaultDoes
  <1>5. KeyTypeOK'
    BY <1>1, <1>2, <1>3, <1>4, LoadDoes DEF KeyTypeOK
  <1>6. \A p : Only(p) => Only(p)'
    <2>1. UNCHANGED <<file, signature>>
      BY <1>1, LoadDoes
    <2>2. \A h \in Halves : key'[h] \in {key[h], file[h], Null}
      BY <1>1, LoadDoes, KeyTypes
    <2>3. ~IsKey(Null)
      BY DEF IsKey, Null
    <2>4. \A h \in Halves : IsKey(key'[h]) => (IsKey(key[h]) /\ key'[h] = key[h])
                                                \/ (IsKey(file[h]) /\ key'[h] = file[h])
      BY <2>2, <2>3
    <2> QED  BY <2>1, <2>4 DEF Only
  <1>7. OnePair'
    BY <1>1, <1>6, LoadDoes, OnePairStays
  <1> QED  BY <1>5, <1>7

LEMMA LoadPublicInv == KeyInv /\ LoadPublicKey => KeyInv'
  <1> SUFFICES ASSUME KeyInv, phase = "loadPublic", Load("public", "loadPrivate") PROVE KeyInv'
    BY DEF LoadPublicKey
  <1>0. KeyTypeOK
    BY DEF KeyInv
  <1>1. KeyTypeOK' /\ OnePair'
    BY LoadKeeps, HalvesAre
  <1>2. Promised'
    <2> SUFFICES ASSUME promise' > 0 PROVE Promised'
      BY DEF Promised
    <2>1. ~Fault
      BY <1>0, FaultDoes
    <2>2. promise' = promise /\ file' = file /\ promise > 0
      BY <1>0, <2>1, LoadDoes, HalvesAre
    <2>3. file = Pair(promise) /\ IsKey(file["public"])
      BY <2>2, PairIs DEF KeyInv, Promised, IsKey
    <2>4. phase' = "loadPrivate" /\ key' = [key EXCEPT !["public"] = file["public"]]
      BY <1>0, <2>1, <2>3, LoadDoes, HalvesAre
    <2>5. key'["public"] = promise
      BY <1>0, <2>3, <2>4, HalvesAre, PairIs, KeyTypes
    <2> QED  BY <2>2, <2>3, <2>4, <2>5 DEF Promised, InUse, Saving
  <1>3. (phase \in Loading => signature = Null)'
    BY <1>0, LoadDoes, HalvesAre DEF KeyInv, Loading
  <1> QED  BY <1>1, <1>2, <1>3 DEF KeyInv

LEMMA LoadPrivateInv == KeyInv /\ LoadPrivateKey => KeyInv'
  <1> SUFFICES ASSUME KeyInv, phase = "loadPrivate", Load("private", "up") PROVE KeyInv'
    BY DEF LoadPrivateKey
  <1>0. KeyTypeOK
    BY DEF KeyInv
  <1>1. KeyTypeOK' /\ OnePair'
    BY LoadKeeps, HalvesAre
  <1>2. signature' = Null
    BY <1>0, LoadDoes, HalvesAre DEF KeyInv, Loading
  <1>3. Promised'
    <2> SUFFICES ASSUME promise' > 0 PROVE Promised'
      BY DEF Promised
    <2>1. ~Fault
      BY <1>0, FaultDoes
    <2>2. promise' = promise /\ file' = file /\ promise > 0
      BY <1>0, <2>1, LoadDoes, HalvesAre
    <2>3. file = Pair(promise) /\ IsKey(file["private"]) /\ key["public"] = promise
      BY <2>2, PairIs DEF KeyInv, Promised, IsKey
    <2>4. phase' = "up" /\ key' = [key EXCEPT !["private"] = file["private"]]
      BY <1>0, <2>1, <2>3, LoadDoes, HalvesAre
    <2>5. key' = [half \in Halves |-> promise]
      BY <1>0, <2>3, <2>4, PairIs, KeyTypes DEF Halves
    <2>6. ~IsKey(Null)
      BY DEF IsKey, Null
    <2> QED  BY <1>2, <2>2, <2>4, <2>5, <2>6, PairIs DEF Promised
  <1> QED  BY <1>1, <1>2, <1>3 DEF KeyInv

LEMMA GenerateInv == KeyInv /\ GenerateRsaKeys => KeyInv'
  <1> USE KeyBoundsAssumption
  <1> SUFFICES ASSUME KeyInv, GenerateRsaKeys PROVE KeyInv'
    OBVIOUS
  <1>1. KeyTypeOK'
    BY DEF KeyInv, KeyTypeOK, GenerateRsaKeys, Fault, Copy, Halves, Null, Torn, Loading, Saving
  <1>2. Promised'
    BY DEF KeyInv, KeyTypeOK, GenerateRsaKeys, Fault, Copy, Promised, InUse, Pair, IsKey,
           Halves, Loading, Saving, Null
  <1>3. OnePair'
    BY DEF KeyInv, KeyTypeOK, GenerateRsaKeys, Fault, Copy, Promised, OnePair, Only, Halves,
           Null, IsKey
  <1>4. (phase \in Loading => signature = Null)'
    BY DEF GenerateRsaKeys, Loading
  <1> QED  BY <1>1, <1>2, <1>3, <1>4 DEF KeyInv

-----------------------------------------------------------------------------
\* Handshakes, the destructor and crashes

LEMMA SignInv == KeyInv /\ Sign => KeyInv'
  <1> USE KeyBoundsAssumption
  <1> SUFFICES ASSUME KeyInv, Sign PROVE KeyInv'
    OBVIOUS
  <1>1. KeyTypeOK'
    BY DEF KeyInv, KeyTypeOK, Sign, Halves
  <1>2. Promised'
    <2>1. promise > 0 => key["private"] \in {promise, Null}
      BY PairIs DEF KeyInv, Promised, Sign, InUse, Saving
    <2> QED  BY <2>1 DEF KeyInv, Promised, Sign, InUse, IsKey, Null
  <1>3. OnePair'
    BY DEF KeyInv, KeyTypeOK, Sign, OnePair, Only, Halves
  <1>4. (phase \in Loading => signature = Null)'
    BY DEF Sign, InUse, Loading, Saving
  <1> QED  BY <1>1, <1>2, <1>3, <1>4 DEF KeyInv

LEMMA OfferInv == KeyInv /\ Offer => KeyInv'
  <1> SUFFICES ASSUME KeyInv, Offer PROVE KeyInv'
    OBVIOUS
  <1>1. KeyTypeOK'
    <2>1. key["public"] <= made /\ key["public"] \in Int /\ made \in Nat
      BY KeyBoundsAssumption, HalvesAre DEF KeyInv, KeyTypeOK, Null
    <2>2. {k \in {key["public"]} : IsKey(k)} \subseteq 1 .. made
      BY <2>1 DEF IsKey
    <2> QED  BY <2>2 DEF KeyInv, KeyTypeOK, Offer
  <1> QED  BY <1>1 DEF KeyInv, Offer, Promised, OnePair, Only, InUse

LEMMA ExitInv == KeyInv /\ Exit => KeyInv'
  <1> SUFFICES ASSUME KeyInv, Exit PROVE KeyInv'
    OBVIOUS
  <1>1. KeyTypeOK'
    BY DEF KeyInv, KeyTypeOK, Exit, Saving
  <1>2. Promised'
    BY DEF KeyInv, Exit, Promised, InUse, Saving
  <1>3. (phase \in Loading => signature = Null)'
    BY DEF Exit, Loading
  <1> QED  BY <1>1, <1>2, <1>3 DEF KeyInv, Exit, OnePair, Only

(* What saving a half may do to it and to the file.                        *)
LEMMA SaveDoes ==
  ASSUME KeyInv, NEW half \in Halves, NEW next \in {"down", "savePublic"},
         NEW write \in {"writePrivate", "writePublic"},
         Open(half, write, next) \/ Write(half, next)
  PROVE  /\ phase' \in {write, next} /\ UNCHANGED <<made, signature, trusted>>
         /\ key' = [key EXCEPT ![half] = Null] \/ key' = key
         /\ \/ file' = [file EXCEPT ![half] = key[half]]
            \/ file' = [file EXCEPT ![half] = Torn] \/ file' = file
         /\ UNCHANGED <<faults, promise>> \/ Fault
  BY DEF Open, Write

(* To save a half keeps the types, and there is still one pair.            *)
LEMMA SaveKeeps ==
  ASSUME KeyInv, NEW half \in Halves, NEW next \in {"down", "savePublic"},
         NEW write \in {"writePrivate", "writePublic"},
         Open(half, write, next) \/ Write(half, next)
  PROVE  KeyTypeOK' /\ OnePair'
  <1> USE KeyBoundsAssumption
  <1>1. KeyTypeOK /\ OnePair
    BY DEF KeyInv
  <1>0. /\ key \in [Halves -> Null .. MaxKeys] /\ \A h \in Halves : key[h] <= made
        /\ file \in [Halves -> Torn .. MaxKeys] /\ \A h \in Halves : file[h] <= made
        /\ made \in Nat
    BY <1>1 DEF KeyTypeOK
  <1>2. key' \in [Halves -> Null .. MaxKeys] /\ \A h \in Halves : key'[h] <= made
    BY <1>0, SaveDoes DEF Null
  <1>3. file' \in [Halves -> Torn .. MaxKeys] /\ \A h \in Halves : file'[h] <= made
    BY <1>0, SaveDoes DEF Null, Torn
  <1>4. phase' \in {"down", "up"} \cup Loading \cup Saving
    BY SaveDoes DEF Saving
  <1>5. faults' \in 0 .. MaxFaults /\ promise' \in 0 .. made
    <2>1. faults \in 0 .. MaxFaults /\ promise \in 0 .. made
      BY <1>1 DEF KeyTypeOK
    <2> QED  BY <1>0, <1>1, <2>1, SaveDoes, FaultDoes
  <1>6. KeyTypeOK'
    BY <1>1, <1>2, <1>3, <1>4, <1>5, SaveDoes DEF KeyTypeOK
  <1>7. \A p : Only(p) => Only(p)'
    <2>1. UNCHANGED signature
      BY SaveDoes
    <2>2. \A h \in Halves : key'[h] \in {key[h], Null} /\ file'[h] \in {key[h], file[h], Torn}
      BY <1>0, SaveDoes
    <2> QED  BY <2>1, <2>2 DEF Only, IsKey, Null, Torn
  <1>8. OnePair'
    BY <1>7, SaveDoes, OnePairStays
  <1> QED  BY <1>6, <1>8

LEMMA SavePrivateInv == KeyInv /\ SavePrivateKey => KeyInv'
  <1> SUFFICES ASSUME KeyInv, SavePrivateKey PROVE KeyInv'
    OBVIOUS
  <1>1. KeyTypeOK' /\ OnePair'
    BY SaveKeeps, HalvesAre DEF SavePrivateKey
  <1>2. Promised'
    <2> SUFFICES ASSUME promise' > 0 PROVE Promised'
      BY DEF Promised
    <2>1. ~Fault
      BY FaultDoes DEF KeyInv
    <2>2. /\ UNCHANGED <<promise, signature>>
          /\ IsKey(signature) => signature = promise
          /\ key = Pair(promise)
      BY <2>1 DEF KeyInv, Promised, SavePrivateKey, Open, Write, InUse, Saving
    <2>3. promise > 0 /\ IsKey(promise)
      BY <2>2 DEF IsKey
    <2>4. /\ key["private"] = promise /\ key["public"] = promise /\ key \in [Halves -> Int]
          /\ promise # Null /\ file \in [Halves -> Int]
      BY <2>2, <2>3, PairIs DEF KeyInv, KeyTypeOK, Null, Torn
    <2>5. \/ phase' = "writePrivate" /\ UNCHANGED key
          \/ /\ phase' = "savePublic" /\ key' = [key EXCEPT !["private"] = Null]
             /\ file' = [file EXCEPT !["private"] = promise]
      BY <2>1, <2>3, <2>4 DEF SavePrivateKey, Open, Write
    <2> QED  BY <2>2, <2>3, <2>4, <2>5, HalvesAre DEF Promised, InUse, Saving
  <1>3. (phase \in Loading => signature = Null)'
    BY DEF SavePrivateKey, Open, Write, Loading
  <1> QED  BY <1>1, <1>2, <1>3 DEF KeyInv

LEMMA SavePublicInv == KeyInv /\ SavePublicKey => KeyInv'
  <1> SUFFICES ASSUME KeyInv, SavePublicKey PROVE KeyInv'
    OBVIOUS
  <1>1. KeyTypeOK' /\ OnePair'
    BY SaveKeeps, HalvesAre DEF SavePublicKey
  <1>2. Promised'
    <2> SUFFICES ASSUME promise' > 0 PROVE Promised'
      BY DEF Promised
    <2>1. ~Fault
      BY FaultDoes DEF KeyInv
    <2>2. /\ UNCHANGED <<promise, signature>>
          /\ IsKey(signature) => signature = promise
          /\ key["private"] = Null /\ key["public"] = promise /\ file["private"] = promise
      BY <2>1 DEF KeyInv, Promised, SavePublicKey, Open, Write, InUse, Saving
    <2>3. promise > 0 /\ IsKey(promise)
      BY <2>2 DEF IsKey
    <2>4. key \in [Halves -> Int] /\ promise # Null /\ file \in [Halves -> Int]
      BY <2>2, <2>3 DEF KeyInv, KeyTypeOK, Null, Torn
    <2>5. \/ /\ phase' = "writePublic" /\ UNCHANGED key
             /\ file' = [file EXCEPT !["public"] = Torn]
          \/ phase' = "down" /\ file' = [file EXCEPT !["public"] = promise]
      BY <2>1, <2>2, <2>3, <2>4 DEF SavePublicKey, Open, Write
    <2>6. CASE phase' = "writePublic"
      BY <2>2, <2>3, <2>4, <2>5, <2>6, HalvesAre DEF Promised
    <2>7. CASE phase' = "down"
      <3>1. file' = [half \in Halves |-> promise]
        BY <2>2, <2>4, <2>5, <2>7 DEF Halves
      <3> QED  BY <2>2, <2>7, <3>1, PairIs DEF Promised, InUse, Saving
    <2> QED  BY <2>5, <2>6, <2>7
  <1>3. (phase \in Loading => signature = Null)'
    BY DEF SavePublicKey, Open, Write, Loading
  <1> QED  BY <1>1, <1>2, <1>3 DEF KeyInv

LEMMA CrashInv == KeyInv /\ Crash => KeyInv'
  <1> USE KeyBoundsAssumption
  <1> SUFFICES ASSUME KeyInv, Crash PROVE KeyInv'
    OBVIOUS
  <1>1. KeyTypeOK'
    BY DEF KeyInv, KeyTypeOK, Crash, Fault
  <1>2. Promised'
    BY DEF KeyInv, Crash, Fault, Promised
  <1>3. OnePair'
    BY DEF KeyInv, KeyTypeOK, Crash, Fault, OnePair, Only
  <1>4. (phase \in Loading => signature = Null)'
    BY DEF Crash, Loading
  <1> QED  BY <1>1, <1>2, <1>3, <1>4 DEF KeyInv

LEMMA KeyInvStutters == KeyInv /\ UNCHANGED keyVars => KeyInv'
  <1> SUFFICES ASSUME KeyInv, UNCHANGED keyVars PROVE KeyInv'
    OBVIOUS
  <1>1. KeyTypeOK'
    BY DEF KeyInv, KeyTypeOK, keyVars
  <1>2. Promised' /\ OnePair'
    BY DEF KeyInv, Promised, OnePair, Only, InUse, keyVars
  <1> QED  BY <1>1, <1>2 DEF KeyInv, keyVars

(* With one fault at most, the constructor and the destructor (CryptoUtils) *)
(* never leave the program with halves of two pairs: a device is offered   *)
(* the key that signed.                                                    *)
LEMMA PairMatchesHere == KeyInv => PairMatches
  <1> SUFFICES ASSUME KeyInv, faults <= 1, InUse, IsKey(signature), IsKey(key["public"])
               PROVE  signature = key["public"]
    BY DEF PairMatches
  <1>1. faults \in Nat /\ promise \in Nat
    BY DEF KeyInv, KeyTypeOK
  <1>2. CASE faults = 0 \/ promise = 0
    BY <1>1, <1>2, HalvesAre DEF KeyInv, OnePair, Only
  <1>3. CASE promise > 0
    <2>1. signature = promise /\ key["public"] = promise
      BY <1>3, PairIs DEF KeyInv, Promised, InUse, Saving
    <2> QED  BY <2>1
  <1> QED  BY <1>1, <1>2, <1>3

-----------------------------------------------------------------------------
\* The theorems

LEMMA KeyInvInit == KeyInit => KeyInv
  <1> USE KeyBoundsAssumption
  <1>1. KeyInit => KeyTypeOK
    BY DEF KeyInit, KeyTypeOK, Halves, Pair, Blank, Missing, Null, Torn, Loading, Saving
  <1>2. KeyInit => Promised /\ OnePair /\ (phase \in Loading => signature = Null)
    BY DEF KeyInit, Promised, OnePair, Only, Halves, Pair, Blank, Missing, Null, Torn,
           IsKey, Loading
  <1> QED  BY <1>1, <1>2 DEF KeyInv

LEMMA KeyInvStep == KeyInv /\ [KeyNext]_keyVars => KeyInv'
  BY KeyInvStutters, ConstructInv, LoadPublicInv, LoadPrivateInv, GenerateInv, SignInv, OfferInv,
     ExitInv, SavePrivateInv, SavePublicInv, CrashInv DEF KeyNext, Program

LEMMA KeyInvAlways == KeySpec => []KeyInv
  BY KeyInvInit, KeyInvStep, PTL DEF KeySpec

(* The variables of the key store keep their types, for every bound on the *)
(* pairs and on the faults.                                                *)
THEOREM KeyTypeCorrect == KeySpec => []KeyTypeOK
  BY KeyInvAlways, PTL DEF KeyInv

(* With one fault at most, the constructor and the destructor of           *)
(* CryptoUtils never leave the program with halves of two pairs: a device  *)
(* is offered the key that signed.                                         *)
THEOREM OffersWhatSigned == KeySpec => []PairMatches
  BY KeyInvAlways, PairMatchesHere, PTL

(* A run that met no failure since it has its pair leaves that pair in the *)
(* files, and the next one finds it, for any number of runs.               *)
THEOREM SameIdentity == KeySpec => []IdentityKept
  <1>1. KeyInv => IdentityKept
    BY DEF KeyInv, Promised, IdentityKept
  <1> QED  BY <1>1, KeyInvAlways, PTL

-----------------------------------------------------------------------------
(***************************************************************************)
(* The device grid                                                         *)
(***************************************************************************)
\* Min and Max of FiniteSetsExt are what they say.
LEMMA LeastOf ==
  ASSUME NEW S, S \subseteq Nat, S # {}
  PROVE  Min(S) \in S /\ \A n \in S : Min(S) <= n
<1> DEFINE R == OpToRel(<, Nat)
<1>1. IsWellFoundedOn(R, Nat)
  BY NatLessThanWellFounded
<1> HIDE DEF R
<1>2. \E m \in S : \A n \in S : ~(<<n, m>> \in R)
  BY <1>1, WFMin, Zenon
<1>3. PICK m \in S : \A n \in S : ~(<<n, m>> \in R)
  BY <1>2
<1>4. ASSUME NEW n \in S PROVE m <= n
  <2>1. ~(n < m)
    BY <1>3 DEF R, OpToRel
  <2> QED BY <2>1
<1> QED BY <1>3, <1>4 DEF Min

LEMMA GreatestOf ==
  ASSUME NEW S, S \subseteq Nat, S # {}, NEW b \in Nat, \A n \in S : n <= b
  PROVE  Max(S) \in S /\ \A n \in S : n <= Max(S)
<1> DEFINE T == {b - n : n \in S}
<1>1. T \subseteq Nat /\ T # {}
  <2>1. \A n \in S : n \in Nat /\ b - n \in Nat
    OBVIOUS
  <2> QED BY <2>1
<1>2. Min(T) \in T /\ \A n \in T : Min(T) <= n
  BY <1>1, LeastOf
<1>3. PICK m \in S : Min(T) = b - m
  BY <1>2
<1>4. \A n \in S : b - m <= b - n
  BY <1>2, <1>3
<1>5. \A n \in S : m >= n
  BY <1>4
<1> QED BY <1>3, <1>5 DEF Max

\* The entries before and after one of the table are neighbours of it.
LEMMA Table ==
  /\ (\A k \in Keys : k \in Nat /\ 1 <= k) /\ First = 1 /\ 1 \in Keys /\ Largest \in Nat
  /\ \A k \in Keys : k # 1 =>
       /\ PrevKey(k) \in Keys /\ PrevKey(k) < k
       /\ \A n \in Keys : n < k => n <= PrevKey(k)
  /\ \A k \in Keys : k < Largest =>
       /\ NextKey(k) \in Keys /\ k < NextKey(k)
       /\ \A n \in Keys : k < n => NextKey(k) <= n
<1>1. Keys \subseteq Nat \ {0} /\ 1 \in Keys /\ Keys # {} /\ Keys \subseteq Nat /\ Largest \in Nat
  BY KeysAssumption, FirstAssumption, LargestAssumption
<1>0. \A k \in Keys : k \in Nat /\ 1 <= k
  <2> TAKE k \in Keys
  <2>1. k \in Nat \ {0}
    BY <1>1
  <2> QED BY <2>1
<1>2. First = 1
  <2>1. First \in Keys /\ \A n \in Keys : First <= n
    BY <1>1, LeastOf DEF First
  <2>2. First <= 1 /\ First \in Nat /\ First # 0
    BY <1>1, <2>1
  <2> QED BY <2>2
<1>3. ASSUME NEW k \in Keys, k # 1
      PROVE  /\ PrevKey(k) \in Keys /\ PrevKey(k) < k
             /\ \A n \in Keys : n < k => n <= PrevKey(k)
  <2> DEFINE S == {n \in Keys : n < k}
  <2>0. k \in Nat /\ 1 < k /\ \A n \in Keys : n \in Nat
    BY <1>0, <1>3
  <2>1. 1 \in S /\ \A n \in S : n \in Nat /\ n <= k
    <3>1. 1 \in S
      BY <1>1, <2>0
    <3>2. ASSUME NEW n \in S PROVE n \in Nat /\ n <= k
      BY <2>0
    <3> QED BY <3>1, <3>2
  <2>2. Max(S) \in S /\ \A n \in S : n <= Max(S)
    <3> HIDE DEF S
    <3>1. S \subseteq Nat /\ S # {}
      BY <2>1
    <3> QED BY <2>0, <2>1, <3>1, GreatestOf
  <2>3. Max(S) = PrevKey(k)
    BY DEF PrevKey
  <2> HIDE DEF S
  <2>4. PrevKey(k) \in S /\ \A n \in S : n <= PrevKey(k)
    BY <2>2, <2>3
  <2> QED BY <2>4 DEF S
<1>4. ASSUME NEW k \in Keys, k < Largest
      PROVE  /\ NextKey(k) \in Keys /\ k < NextKey(k)
             /\ \A n \in Keys : k < n => NextKey(k) <= n
  <2> DEFINE S == {n \in Keys : n > k}
  <2>1. PICK m \in Keys : Largest <= m
    BY LargestAssumption
  <2>2. m \in S /\ \A n \in S : n \in Nat
    <3>1. k \in Nat /\ m \in Nat /\ m > k
      BY <1>0, <1>1, <1>4, <2>1
    <3>2. ASSUME NEW n \in S PROVE n \in Nat
      BY <1>0
    <3> QED BY <3>1, <3>2
  <2>3. Min(S) \in S /\ \A n \in S : Min(S) <= n
    <3> HIDE DEF S
    <3>1. S \subseteq Nat /\ S # {}
      BY <2>2
    <3> QED BY <3>1, LeastOf
  <2>4. Min(S) = NextKey(k)
    BY DEF NextKey
  <2> HIDE DEF S
  <2>5. NextKey(k) \in S /\ \A n \in S : NextKey(k) <= n
    BY <2>3, <2>4
  <2> QED BY <1>0, <2>5 DEF S
<1> QED BY <1>0, <1>1, <1>2, <1>3, <1>4

(* The bracket is that of an entry, or the empty one that ends there, and  *)
(* the grid is that of the bracket, or the first.                          *)
Bracket ==
  \/ min = max \/ (min = 0 /\ max = 1)
  \/ max # 1 /\ min = PrevKey(max)
Shape ==
  \/ min \in Keys /\ grid = [cols |-> min, rows |-> max]
  \/ min = 0 /\ max = 1 /\ grid = [cols |-> Columns, rows |-> Columns]
GridInv == max \in Keys /\ Bracket /\ Shape

\* Neither a step back nor one forward leaves the table.
InTable ==
  /\ max \in Keys
  /\ \A n \in 0 .. Largest : /\ MayShrink(n) => \E k \in Keys : k < max
                             /\ MayGrow(n) => \E k \in Keys : k > max

\* The layout has arrived at the bracket of k.
Fits(k) == max = k /\ (min < total \/ k = First) /\ total <= grid.cols * grid.rows

GridNears ==
  [][\A k \in Keys : total' # total /\ InBracket(k)' =>
       \/ Fits(k)'
       \/ max < k /\ max < max' /\ max' <= k
       \/ k < max /\ k <= max' /\ min' + max' < min + max]_gridVars

\* The ends of the bracket are numbers, in their order.
LEMMA MinKnown == ASSUME GridInv PROVE min \in Nat /\ max \in Nat /\ max >= 1 /\ min <= max
<1>1. max \in Keys /\ max \in Nat /\ 1 <= max
  BY Table DEF GridInv
<1>2. CASE min = max \/ (min = 0 /\ max = 1)
  BY <1>1, <1>2
<1>3. CASE max # 1 /\ min = PrevKey(max)
  <2>1. min \in Keys /\ min < max
    BY <1>1, <1>3, Table
  <2> QED BY <1>1, <2>1, Table
<1> QED BY <1>1, <1>2, <1>3 DEF GridInv, Bracket

\* A step back goes to the empty bracket, or from it to the entry below.
LEMMA ShrinkStep ==
  ASSUME GridInv, NEW n \in 0 .. Largest, MayShrink(n), Moves(PrevKey(max), min)
  PROVE  GridInv' /\ min \in Keys /\ max # 1
<1>1. max \in Keys /\ max # 1 /\ PrevKey(max) \in Keys
  BY Table DEF GridInv, MayShrink
<1>2. min \in Keys
  BY <1>1, Table DEF GridInv, Bracket
<1>3. min' \in Keys /\ max' \in Keys /\ grid' = [cols |-> min', rows |-> max']
  BY <1>1, <1>2 DEF Moves
<1>4. Bracket'
  BY <1>1, Table DEF GridInv, Bracket, Moves
<1> QED BY <1>1, <1>2, <1>3, <1>4 DEF GridInv, Shape

\* A step forward goes to the next entry, which is there.
LEMMA GrowStep ==
  ASSUME GridInv, NEW n \in 0 .. Largest, MayGrow(n), Moves(max, NextKey(max))
  PROVE  GridInv' /\ max < Largest
<1>1. max \in Keys /\ max \in Nat /\ max < Largest /\ n \in Nat
  BY Table DEF GridInv, MayGrow
<1>2. NextKey(max) \in Keys /\ max < NextKey(max) /\ \A m \in Keys : max < m => NextKey(max) <= m
  BY <1>1, Table
<1>3. min' = max /\ max' = NextKey(max) /\ grid' = [cols |-> min', rows |-> max']
  BY DEF Moves
<1>4. max' # 1 /\ max' \in Nat
  <2>1. 1 <= max /\ NextKey(max) \in Nat
    BY <1>1, <1>2, Table
  <2> QED BY <1>1, <1>2, <1>3, <2>1
<1>5. PrevKey(max') = max
  <2>1. PrevKey(max') \in Keys /\ PrevKey(max') < max' /\ max <= PrevKey(max')
    BY <1>1, <1>2, <1>3, <1>4, Table
  <2>2. PrevKey(max') \in Nat
    BY <2>1, Table
  <2> QED BY <1>1, <1>2, <1>3, <1>4, <2>1, <2>2
<1>6. Bracket'
  <2>1. PrevKey(max)' = PrevKey(max')
    BY DEF PrevKey
  <2> QED BY <1>3, <1>4, <1>5, <2>1 DEF Bracket
<1> QED BY <1>1, <1>2, <1>3, <1>6 DEF GridInv, Shape

LEMMA GridInvNext == GridInv /\ [GridNext]_gridVars => GridInv'
<1> SUFFICES ASSUME GridInv, [GridNext]_gridVars PROVE GridInv'
  OBVIOUS
<1>1. CASE UNCHANGED <<min, max, grid>>
  BY <1>1 DEF GridInv, Bracket, Shape, PrevKey
<1>2. ASSUME NEW n \in 0 .. Largest, updateTotal(n) PROVE GridInv'
  BY <1>1, <1>2, ShrinkStep, GrowStep DEF updateTotal, adjustLayout
<1> QED BY <1>1, <1>2 DEF GridNext, gridVars

LEMMA GridInvAlways == GridSpec => []GridInv /\ [][GridNext]_gridVars
<1>1. GridInit => GridInv
  BY FirstAssumption DEF GridInit, GridInv, Bracket, Shape
<1> QED BY <1>1, GridInvNext, PTL DEF GridSpec

(* With no more devices than the last entry has room for, adjustLayout     *)
(* finds the entry it looks for and its neighbours: it never reads beyond  *)
(* the ends of the table, whatever the numbers that follow each other.     *)
THEOREM TableSuffices == GridSpec => []InTable
<1>1. ASSUME GridInv PROVE InTable
  <2>1. max \in Keys /\ max \in Nat
    BY <1>1, Table DEF GridInv
  <2>2. ASSUME NEW n \in 0 .. Largest, MayShrink(n) PROVE \E k \in Keys : k < max
    BY <2>1, <2>2, Table DEF MayShrink
  <2>3. ASSUME NEW n \in 0 .. Largest, MayGrow(n) PROVE \E k \in Keys : k > max
    <3>1. max < Largest
      BY <2>1, <2>3, Table DEF MayGrow
    <3> QED BY <2>1, <3>1, LargestAssumption, Table
  <2> QED BY <2>1, <2>2, <2>3 DEF InTable
<1> QED BY <1>1, GridInvAlways, PTL

\* A cell for every device, once the bracket is the right one.
LEMMA Roomy ==
  ASSUME GridInv, NEW k \in Keys, InBracket(k), total \in Nat, max = k, min < total \/ k = First
  PROVE  Fits(k)
<1>1. max \in Nat /\ total <= max /\ min \in Nat
  BY MinKnown DEF InBracket
<1>2. CASE min \in Keys /\ grid = [cols |-> min, rows |-> max]
  <2>1. min \in Nat \ {0} /\ grid.cols = min /\ grid.rows = max
    BY <1>2, Table
  <2>2. max <= min * max
    BY <1>1, <2>1
  <2>3. min * max \in Nat
    BY <1>1, <2>1
  <2> QED BY <1>1, <2>1, <2>2, <2>3 DEF Fits
<1>3. CASE min = 0 /\ max = 1 /\ grid = [cols |-> Columns, rows |-> Columns]
  <2>1. Columns \in Nat \ {0} /\ grid.cols = Columns /\ grid.rows = Columns
    BY <1>3, ColumnsAssumption
  <2>2. 1 <= Columns * Columns /\ Columns * Columns \in Nat
    BY <2>1
  <2> QED BY <1>1, <1>3, <2>1, <2>2 DEF Fits
<1> QED BY <1>2, <1>3 DEF GridInv, Shape

AllRoomy ==
  \A k \in Keys :
    InBracket(k) /\ total \in Nat /\ max = k /\ (min < total \/ k = First) => Fits(k)

LEMMA RoomyNow == GridInv => AllRoomy
BY Roomy DEF AllRoomy

LEMMA RoomyAfter == GridInv' => AllRoomy'
BY RoomyNow, PTL

\* One change of the number, seen from the bracket it leads to.
LEMMA Nearer ==
  ASSUME GridInv, GridInv', NEW n \in 0 .. Largest, updateTotal(n), NEW k \in Keys, InBracket(k)'
  PROVE  \/ Fits(k)'
         \/ max < k /\ max < max' /\ max' <= k
         \/ k < max /\ k <= max' /\ min' + max' < min + max
<1>1. /\ total' = n /\ n \in Nat /\ n <= k /\ \A m \in Keys : m < k => n > m
      /\ k \in Nat /\ max \in Keys /\ max \in Nat /\ min \in Nat /\ min <= max /\ First = 1
  BY MinKnown, Table DEF updateTotal, InBracket, GridInv
<1>2. CASE max < k
  <2>1. MayGrow(n) /\ ~MayShrink(n) /\ max < Largest
    BY <1>1, <1>2, Table DEF MayGrow, MayShrink
  <2>2. max' = NextKey(max)
    BY <2>1 DEF updateTotal, adjustLayout, Moves
  <2>3. max < max' /\ max' <= k
    BY <1>1, <1>2, <2>1, <2>2, Table
  <2> QED BY <1>2, <2>3
<1>3. CASE max = k
  <2>1. ~MayGrow(n)
    BY <1>1, <1>3 DEF MayGrow
  <2>2. CASE MayShrink(n)
    <3>1. min' = PrevKey(max) /\ max' = min /\ max # 1
      BY <1>1, <2>1, <2>2 DEF updateTotal, adjustLayout, Moves, MayShrink
    <3>2. PrevKey(k) \in Keys /\ PrevKey(k) < k
      BY <1>3, <3>1, Table
    <3>3. n > PrevKey(k) /\ PrevKey(k) \in Nat
      BY <1>1, <3>2, Table
    <3>4. min = max
      BY <1>1, <1>3, <2>2, <3>1, <3>3 DEF GridInv, Bracket, MayShrink
    <3> QED BY <1>1, <1>3, <3>1, <3>3, <3>4, RoomyAfter DEF AllRoomy
  <2>3. CASE ~MayShrink(n)
    <3>1. min' = min /\ max' = max
      BY <2>1, <2>3 DEF updateTotal, adjustLayout
    <3>2. min < n \/ max = First
      BY <1>1, <2>3 DEF MayShrink
    <3> QED BY <1>1, <1>3, <3>1, <3>2, RoomyAfter DEF AllRoomy
  <2> QED BY <2>2, <2>3
<1>4. CASE k < max
  <2>1. max # 1 /\ k \in Nat \ {0}
    BY <1>1, <1>4, Table
  <2>2. PrevKey(max) \in Nat /\ PrevKey(max) < max /\ k <= PrevKey(max)
    BY <1>1, <1>4, <2>1, Table
  <2>3. k <= min /\ (min = max \/ min = PrevKey(max))
    BY <1>1, <1>4, <2>1, <2>2 DEF GridInv, Bracket
  <2>4. MayShrink(n) /\ ~MayGrow(n)
    BY <1>1, <2>1, <2>3 DEF MayShrink, MayGrow
  <2>5. min' = PrevKey(max) /\ max' = min
    BY <2>4 DEF updateTotal, adjustLayout, Moves
  <2> QED BY <1>1, <1>4, <2>2, <2>3, <2>5
<1> QED BY <1>1, <1>2, <1>3, <1>4

(* Whatever the numbers before: every change to a number of a bracket has  *)
(* the layout in that bracket, with a cell for every device, or an entry   *)
(* nearer to it from below, not beyond, or a step nearer from above.  The  *)
(* steps that are left are bounded by the table, and one that has arrived  *)
(* stays: the safety part of GridSettles.                                  *)
THEOREM GridGetsNearer == GridSpec => GridNears
<1>1. ASSUME GridInv, GridInv', [GridNext]_gridVars
      PROVE  [\A k \in Keys : total' # total /\ InBracket(k)' =>
                \/ Fits(k)'
                \/ max < k /\ max < max' /\ max' <= k
                \/ k < max /\ k <= max' /\ min' + max' < min + max]_gridVars
  BY <1>1, Nearer DEF GridNext, gridVars
<1> QED BY <1>1, GridInvAlways, PTL DEF GridNears
==============================================================================
