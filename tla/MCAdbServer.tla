----------------------------- MODULE MCAdbServer -----------------------------
\* AdbServer for TLC: its registry with the managers and the jobs, and the
\* threads of its clients with the shell handler.  The two share no variable of
\* the model: a behaviour is one of DeviceManager (part is "registry") or of
\* ClientThreads (part is "clients"), and the other part stays as it began.
\* Two devices and two jobs: a device is connected to twice, or next to another;
\* as many places for contexts as devices and jobs can hold.  Two clients and
\* two commands, one after the other or at the same time.
EXTENDS DeviceManager, ClientThreads

CONSTANTS d1, d2, c1, c2, c3, c4, a, b

MCDevices == {d1, d2}
MCContexts == {c1, c2, c3, c4}
MCClients == {a, b}

VARIABLE part

partVars == <<allVars, threadVars, part>>

PartInit == ManagerInit /\ ClientInit /\ part \in {"registry", "clients"}

RegistryStep(A) == part = "registry" /\ A /\ UNCHANGED <<threadVars, part>>
ClientStep(A) == part = "clients" /\ A /\ UNCHANGED <<allVars, part>>

PartNext == RegistryStep(ManagerNext) \/ ClientStep(ClientNext)

\* The fairness of ManagerSpec and of ClientSpec.
PartSpec ==
  /\ PartInit /\ [][PartNext]_partVars
  /\ WF_partVars(RegistryStep(Slots))
  /\ \A j \in 1 .. MaxJobs : WF_partVars(j \in DOMAIN jobs /\ RegistryStep(Job(j)))
  /\ \A c \in Clients : WF_partVars(~terminated /\ ClientStep(HandleClient(c)))
=============================================================================
