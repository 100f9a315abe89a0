----------------------------- MODULE ThreadPool -----------------------------
(***************************************************************************)
(* The pool of worker threads (utils/ThreadPool).  AdbServer submits its   *)
(* accept loop, which never returns, and a job for every device to connect *)
(* to; the destructor of the static instance shuts the pool down.          *)
(*                                                                         *)
(* What is done under the mutex is one step, but for condVar.wait: the     *)
(* worker holds the mutex from its look at the predicate until it sleeps.  *)
(* notify_one and notify_all come after the mutex was released.            *)
(***************************************************************************)
EXTENDS Naturals, Sequences, FiniteSets

CONSTANTS Threads,   \* std::thread::hardware_concurrency()
          Tasks,     \* what is submitted, each by a thread of its own
          Endless,   \* those that never return: acceptSocket
          Nobody     \* the owner of a free mutex

ASSUME ThreadsAssumption == Threads \in Nat
ASSUME TasksAssumption   == IsFiniteSet(Tasks) /\ Endless \subseteq Tasks
ASSUME NobodyAssumption  == Nobody \notin Nat /\ Nobody \notin Tasks

VARIABLES
  mutex,           \* the worker that holds it, or Nobody
  tasks,           \* the queue
  stopFlag,
  at,              \* at[w]: where workerLoop of w is
  job,             \* job[w]: the task w runs or ran last
  caller,          \* caller[t]: where submit(t) is
  owner,           \* where shutdown() is
  finished,        \* the tasks that returned
  early            \* the tasks queued before stopFlag was set

vars == <<mutex, tasks, stopFlag, at, job, caller, owner, finished, early>>

\* threadCount / 2 of them
Workers == 1 .. Threads \div 2

(* "lock": about to take the mutex.  "take": the predicate holds.  "doze": *)
(* it does not.  "asleep": in condVar.wait.  "gone": returned.             *)
At == {"lock", "take", "doze", "asleep", "run", "gone"}

Init ==
  /\ mutex = Nobody /\ tasks = <<>> /\ stopFlag = FALSE
  /\ at = [w \in Workers |-> "lock"] /\ job = [w \in Workers |-> Nobody]
  /\ caller = [t \in Tasks |-> "idle"] /\ owner = "up"
  /\ finished = {} /\ early = {}

Goes(w, there) == at' = [at EXCEPT ![w] = there]

Asleep == {w \in Workers : at[w] = "asleep"}

\* notify_one: one of the sleepers, if there is one.
NotifyOne ==
  \/ \E w \in Asleep : Goes(w, "lock")
  \/ Asleep = {} /\ UNCHANGED at

-----------------------------------------------------------------------------
\* submit

\* What-if: submit forgets the notification.
PushSilently(t) ==
  /\ caller[t] = "idle" /\ mutex = Nobody
  /\ tasks' = Append(tasks, t)
  /\ early' = IF stopFlag THEN early ELSE early \cup {t}
  /\ caller' = [caller EXCEPT ![t] = "over"]
  /\ UNCHANGED <<mutex, stopFlag, at, job, owner, finished>>

Push(t) ==
  /\ caller[t] = "idle" /\ mutex = Nobody
  /\ tasks' = Append(tasks, t)
  /\ early' = IF stopFlag THEN early ELSE early \cup {t}
  /\ caller' = [caller EXCEPT ![t] = "notify"]
  /\ UNCHANGED <<mutex, stopFlag, at, job, owner, finished>>

Notify(t) ==
  /\ caller[t] = "notify"
  /\ NotifyOne
  /\ caller' = [caller EXCEPT ![t] = "over"]
  /\ UNCHANGED <<mutex, tasks, stopFlag, job, owner, finished, early>>

-----------------------------------------------------------------------------
\* workerLoop

\* Lock, and look at the predicate.
Acquire(w) ==
  /\ at[w] = "lock" /\ mutex = Nobody
  /\ mutex' = w
  /\ Goes(w, IF stopFlag \/ tasks # <<>> THEN "take" ELSE "doze")
  /\ UNCHANGED <<tasks, stopFlag, job, caller, owner, finished, early>>

\* condVar.wait releases the mutex and sleeps.
Doze(w) ==
  /\ at[w] = "doze"
  /\ mutex' = Nobody
  /\ Goes(w, "asleep")
  /\ UNCHANGED <<tasks, stopFlag, job, caller, owner, finished, early>>

\* A wait may end for no reason.
SpuriousWakeUp(w) ==
  /\ at[w] = "asleep"
  /\ Goes(w, "lock")
  /\ UNCHANGED <<mutex, tasks, stopFlag, job, caller, owner, finished, early>>

\* What-if: a worker that sees the flag leaves at once.
MayLeaveAtOnce ==
  stopFlag

\* stopFlag && tasks.empty()
MayLeave ==
  stopFlag /\ tasks = <<>>

Leave(w) ==
  /\ at[w] = "take" /\ MayLeave
  /\ mutex' = Nobody
  /\ Goes(w, "gone")
  /\ UNCHANGED <<tasks, stopFlag, job, caller, owner, finished, early>>

\* What-if: the front is taken but stays in the queue.
TakeCopy(w) ==
  /\ at[w] = "take" /\ ~MayLeave /\ tasks # <<>>
  /\ mutex' = Nobody
  /\ job' = [job EXCEPT ![w] = Head(tasks)]
  /\ Goes(w, "run")
  /\ UNCHANGED <<tasks, stopFlag, caller, owner, finished, early>>

Take(w) ==
  /\ at[w] = "take" /\ ~MayLeave
  /\ mutex' = Nobody
  /\ job' = [job EXCEPT ![w] = Head(tasks)] /\ tasks' = Tail(tasks)
  /\ Goes(w, "run")
  /\ UNCHANGED <<stopFlag, caller, owner, finished, early>>

\* task() returns.
Return(w) ==
  /\ at[w] = "run" /\ job[w] \notin Endless
  /\ finished' = finished \cup {job[w]}
  /\ Goes(w, "lock")
  /\ UNCHANGED <<mutex, tasks, stopFlag, job, caller, owner, early>>

Work(w) == Acquire(w) \/ Doze(w) \/ Leave(w) \/ Take(w) \/ Return(w)

-----------------------------------------------------------------------------
\* shutdown

\* What-if: the flag is set without the mutex, and notify_all falls between
\* a worker's look at it and its sleep.
SetFlagUnlocked ==
  /\ owner = "up"
  /\ stopFlag' = TRUE /\ owner' = "notify"
  /\ UNCHANGED <<mutex, tasks, at, job, caller, finished, early>>

SetFlag ==
  /\ owner = "up" /\ mutex = Nobody
  /\ stopFlag' = TRUE /\ owner' = "notify"
  /\ UNCHANGED <<mutex, tasks, at, job, caller, finished, early>>

NotifyAll ==
  /\ owner = "notify"
  /\ at' = [w \in Workers |-> IF w \in Asleep THEN "lock" ELSE at[w]]
  /\ owner' = "join"
  /\ UNCHANGED <<mutex, tasks, stopFlag, job, caller, finished, early>>

Join ==
  /\ owner = "join" /\ \A w \in Workers : at[w] = "gone"
  /\ owner' = "down"
  /\ UNCHANGED <<mutex, tasks, stopFlag, at, job, caller, finished, early>>

Owner == SetFlag \/ NotifyAll \/ Join

Next ==
  \/ \E t \in Tasks : Push(t) \/ Notify(t)
  \/ \E w \in Workers : Work(w) \/ SpuriousWakeUp(w)
  \/ Owner

(* A thread that can run runs, a mutex that is free again and again is got *)
(* in the end, and a task that is not endless returns.  Nobody has to      *)
(* submit anything or to shut the pool down.                               *)
Spec ==
  /\ Init /\ [][Next]_vars
  /\ \A t \in Tasks : WF_vars(Notify(t))
  /\ \A w \in Workers : SF_vars(Work(w))
  /\ WF_vars(NotifyAll) /\ WF_vars(Join)

-----------------------------------------------------------------------------
\* Properties

Queued == {tasks[i] : i \in DOMAIN tasks}
RunsEndless(w) == at[w] = "run" /\ job[w] \in Endless

TypeOK ==
  /\ mutex \in Workers \cup {Nobody} /\ tasks \in Seq(Tasks) /\ stopFlag \in BOOLEAN
  /\ at \in [Workers -> At] /\ job \in [Workers -> Tasks \cup {Nobody}]
  /\ caller \in [Tasks -> {"idle", "notify", "over"}]
  /\ owner \in {"up", "notify", "join", "down"}
  /\ finished \subseteq Tasks /\ early \subseteq Tasks
  /\ \A i, j \in DOMAIN tasks : tasks[i] = tasks[j] => i = j
  /\ \A w \in Workers : at[w] = "run" => job[w] \in Tasks \ (Queued \cup finished)

Notifying == {t \in Tasks : caller[t] = "notify"}
OnTheWay == {w \in Workers : at[w] \in {"lock", "take"}}

(* No wake-up is lost: while a worker sleeps, every queued task has a      *)
(* notification to come or a worker on its way to the queue, and none      *)
(* sleeps after the last notification of shutdown.                         *)
WakeUpsSuffice ==
  Asleep # {} =>
    /\ Len(tasks) <= Cardinality(Notifying) + Cardinality(OnTheWay)
    /\ owner \in {"up", "notify"}

(* When shutdown() returns, or a worker has left, every task submitted     *)
(* before it has been taken, and when it returns each of them is over.     *)
DrainedBeforeExit ==
  /\ (\E w \in Workers : at[w] = "gone") => Queued \cap early = {}
  /\ owner = "down" /\ Workers # {} => early \subseteq finished

(* Every task submitted before shutdown() is run, unless there is no       *)
(* worker that is not occupied for ever.                                   *)
EveryTaskRuns ==
  \A t \in Tasks : t \in early ~> \/ \E w \in Workers : job[w] = t
                                  \/ t \in finished
                                  \/ \A w \in Workers : RunsEndless(w)

(* shutdown() returns, unless a worker runs a task that never does.        *)
ShutdownReturns == stopFlag ~> owner = "down" \/ \E w \in Workers : RunsEndless(w)
=============================================================================
