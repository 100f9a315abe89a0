------------------------- MODULE ThreadPool_proofs -------------------------
(***************************************************************************)
(* The safety of the pool, for every number of workers and every set of    *)
(* tasks.                                                                  *)
(***************************************************************************)
EXTENDS ThreadPool, FiniteSetTheorems, TLAPS

Running == {w \in Workers : at[w] = "run"}

MutexHeld == \A w \in Workers : at[w] \in {"take", "doze"} <=> mutex = w

\* The mutex is held from the look at the predicate to what follows from it.
PredicateStands ==
  \A w \in Workers : /\ at[w] = "doze" => ~stopFlag /\ tasks = <<>>
                     /\ at[w] = "take" => stopFlag \/ tasks # <<>>

FlagFirst ==
  /\ owner = "up" <=> ~stopFlag
  /\ \A w \in Workers : (at[w] = "gone" => stopFlag) /\ (owner = "down" => at[w] = "gone")

\* A task is in one place at a time.
OnePlace ==
  /\ Queued \cap finished = {}
  /\ \A w \in Running : job[w] \in Tasks \ (Queued \cup finished)
  /\ \A v, w \in Running : job[v] = job[w] => v = w
  /\ \A t \in Tasks : caller[t] = "idle" => t \notin Queued \cup finished \cup early
                                         /\ \A w \in Running : job[w] # t

\* What was queued before the flag is waiting, running or over.
EarlyKept == early \subseteq Queued \cup finished \cup {job[w] : w \in Running}

IInv == /\ TypeOK /\ MutexHeld /\ PredicateStands /\ FlagFirst
        /\ OnePlace /\ EarlyKept /\ WakeUpsSuffice /\ DrainedBeforeExit

-----------------------------------------------------------------------------
\* The queue

LEMMA Pushed ==
  ASSUME NEW t \in Tasks, tasks \in Seq(Tasks), tasks' = Append(tasks, t)
  PROVE  /\ tasks' \in Seq(Tasks)
         /\ Len(tasks') = Len(tasks) + 1
         /\ Queued' = Queued \cup {t}
         /\ (t \notin Queued /\ \A i, j \in DOMAIN tasks : tasks[i] = tasks[j] => i = j)
              => \A i, j \in DOMAIN tasks' : tasks'[i] = tasks'[j] => i = j
<1>1. tasks' \in Seq(Tasks) /\ Len(tasks') = Len(tasks) + 1 /\ Len(tasks) \in Nat
  OBVIOUS
<1>2. DOMAIN tasks = 1 .. Len(tasks) /\ DOMAIN tasks' = 1 .. Len(tasks) + 1
  BY <1>1
<1>3. \A i \in 1 .. Len(tasks) : tasks'[i] = tasks[i]
  OBVIOUS
<1>4. tasks'[Len(tasks) + 1] = t
  OBVIOUS
<1>5. 1 .. Len(tasks) + 1 = 1 .. Len(tasks) \cup {Len(tasks) + 1}
  BY <1>1
<1>6. Queued' = Queued \cup {t}
  <2>1. \A i \in DOMAIN tasks' : i \in DOMAIN tasks \/ i = Len(tasks) + 1
    BY <1>2, <1>5
  <2>2. \A i \in DOMAIN tasks : i \in DOMAIN tasks' /\ tasks'[i] = tasks[i]
    BY <1>2, <1>3, <1>5
  <2>3. Len(tasks) + 1 \in DOMAIN tasks'
    BY <1>2, <1>5
  <2>4. ASSUME NEW x \in Queued' PROVE x \in Queued \cup {t}
    <3>1. PICK i \in DOMAIN tasks' : x = tasks'[i]
      BY <2>4 DEF Queued
    <3> QED BY <3>1, <2>1, <2>2, <1>4, Zenon DEF Queued
  <2>5. ASSUME NEW x \in Queued \cup {t} PROVE x \in Queued'
    <3>1. CASE x = t
      BY <3>1, <2>3, <1>4, Zenon DEF Queued
    <3>2. CASE x \in Queued
      <4>1. PICK i \in DOMAIN tasks : x = tasks[i]
        BY <3>2 DEF Queued
      <4> QED BY <4>1, <2>2, Zenon DEF Queued
    <3> QED BY <2>5, <3>1, <3>2
  <2> QED BY <2>4, <2>5
<1>7. ASSUME t \notin Queued, \A i, j \in DOMAIN tasks : tasks[i] = tasks[j] => i = j,
             NEW i \in DOMAIN tasks', NEW j \in DOMAIN tasks', tasks'[i] = tasks'[j]
      PROVE  i = j
  <2>1. \A k \in 1 .. Len(tasks) : tasks[k] # t
    BY <1>2, <1>7 DEF Queued
  <2>2. i \in 1 .. Len(tasks) \cup {Len(tasks) + 1} /\ j \in 1 .. Len(tasks) \cup {Len(tasks) + 1}
    BY <1>2, <1>5, <1>7
  <2> QED BY <2>1, <2>2, <1>2, <1>3, <1>4, <1>7, Zenon
<1> QED BY <1>1, <1>6, <1>7

LEMMA Popped ==
  ASSUME tasks \in Seq(Tasks), tasks # <<>>, tasks' = Tail(tasks),
         \A i, j \in DOMAIN tasks : tasks[i] = tasks[j] => i = j
  PROVE  /\ tasks' \in Seq(Tasks)
         /\ Len(tasks) = Len(tasks') + 1
         /\ Head(tasks) \in Queued /\ Head(tasks) \in Tasks
         /\ Queued' = Queued \ {Head(tasks)}
         /\ \A i, j \in DOMAIN tasks' : tasks'[i] = tasks'[j] => i = j
<1>1. tasks' \in Seq(Tasks) /\ Len(tasks) = Len(tasks') + 1 /\ Len(tasks') \in Nat
  OBVIOUS
<1>2. DOMAIN tasks = 1 .. Len(tasks') + 1 /\ DOMAIN tasks' = 1 .. Len(tasks')
  BY <1>1
<1>3. \A i \in 1 .. Len(tasks') : tasks'[i] = tasks[i + 1]
  OBVIOUS
<1>4. Head(tasks) = tasks[1] /\ Head(tasks) \in Tasks
  OBVIOUS
<1>5. 1 \in DOMAIN tasks
  BY <1>1, <1>2
<1>6. \A i \in DOMAIN tasks' : i + 1 \in DOMAIN tasks /\ i + 1 # 1
  BY <1>1, <1>2
<1>7. \A i \in DOMAIN tasks : i = 1 \/ \E k \in DOMAIN tasks' : i = k + 1
  <2> SUFFICES ASSUME NEW i \in DOMAIN tasks, i # 1
               PROVE  i - 1 \in DOMAIN tasks' /\ i = (i - 1) + 1
    OBVIOUS
  <2> QED BY <1>1, <1>2
<1>8. Queued' = Queued \ {Head(tasks)}
  <2>1. ASSUME NEW x \in Queued' PROVE x \in Queued \ {Head(tasks)}
    <3>1. PICK i \in DOMAIN tasks' : x = tasks[i + 1]
      BY <2>1, <1>2, <1>3 DEF Queued
    <3> QED BY <3>1, <1>4, <1>5, <1>6 DEF Queued
  <2>2. ASSUME NEW x \in Queued \ {Head(tasks)} PROVE x \in Queued'
    <3>1. PICK i \in DOMAIN tasks : x = tasks[i] /\ i # 1
      BY <2>2, <1>4 DEF Queued
    <3>2. PICK k \in DOMAIN tasks' : i = k + 1
      BY <3>1, <1>7
    <3> QED BY <3>1, <3>2, <1>2, <1>3 DEF Queued
  <2> QED BY <2>1, <2>2
<1>9. ASSUME NEW i \in DOMAIN tasks', NEW j \in DOMAIN tasks', tasks'[i] = tasks'[j]
      PROVE  i = j
  <2>1. i + 1 = j + 1
    BY <1>2, <1>3, <1>6, <1>9
  <2> QED BY <2>1, <1>1, <1>2
<1> QED BY <1>1, <1>4, <1>5, <1>8, <1>9 DEF Queued

-----------------------------------------------------------------------------
\* The workers

LEMMA WorkersAreFinite == IsFiniteSet(Workers) /\ Nobody \notin Workers /\ Workers \subseteq Nat
<1>1. Threads \div 2 \in Int
  BY ThreadsAssumption
<1> QED BY <1>1, FS_Interval, ThreadsAssumption, NobodyAssumption DEF Workers

\* One more or one less sleeper, notification or worker on its way.
LEMMA Counted ==
  ASSUME NEW S, NEW T, NEW x, IsFiniteSet(S)
  PROVE  /\ IsFiniteSet(S) /\ Cardinality(S) \in Nat
         /\ (T = S \cup {x} /\ x \notin S) => Cardinality(T) = Cardinality(S) + 1
         /\ (T = S \ {x} /\ x \in S) => Cardinality(T) = Cardinality(S) - 1
         /\ T = S \ {x} => Cardinality(T) \in Nat
BY FS_AddElement, FS_RemoveElement, FS_CardinalityType

LEMMA Countable ==
  ASSUME TypeOK
  PROVE  /\ IsFiniteSet(Notifying) /\ IsFiniteSet(OnTheWay)
         /\ Cardinality(Notifying) \in Nat /\ Cardinality(OnTheWay) \in Nat
<1>1. Notifying \in SUBSET Tasks /\ OnTheWay \in SUBSET Workers
  BY DEF Notifying, OnTheWay
<1>2. IsFiniteSet(Notifying) /\ IsFiniteSet(OnTheWay)
  BY <1>1, WorkersAreFinite, TasksAssumption, FS_Subset
<1> QED BY <1>2, FS_CardinalityType

\* A worker moves on: the others stay where they are.
LEMMA Moves ==
  ASSUME TypeOK, NEW w \in Workers, NEW there \in At, Goes(w, there)
  PROVE  /\ at' \in [Workers -> At] /\ at'[w] = there
         /\ \A v \in Workers : v # w => at'[v] = at[v]
BY DEF TypeOK, Goes

LEMMA InitInv == Init => IInv
<1> SUFFICES ASSUME Init PROVE IInv
  OBVIOUS
<1>1. tasks \in Seq(Tasks) /\ DOMAIN tasks = {} /\ Queued = {}
  BY DEF Init, Queued
<1>2. \A w \in Workers : at[w] = "lock"
  BY DEF Init
<1>3. Asleep = {} /\ Running = {}
  BY <1>2 DEF Asleep, Running
<1>4. TypeOK
  BY <1>1, <1>2 DEF Init, TypeOK, At
<1>5. MutexHeld
  BY <1>2, WorkersAreFinite DEF Init, MutexHeld
<1>6. PredicateStands /\ FlagFirst
  BY <1>2 DEF Init, PredicateStands, FlagFirst
<1>7. OnePlace /\ EarlyKept
  BY <1>1, <1>3 DEF Init, OnePlace, EarlyKept
<1>8. WakeUpsSuffice /\ DrainedBeforeExit
  BY <1>2, <1>3 DEF Init, WakeUpsSuffice, DrainedBeforeExit
<1> QED BY <1>4, <1>5, <1>6, <1>7, <1>8 DEF IInv

LEMMA PushStep ==
  ASSUME IInv, NEW t \in Tasks, Push(t) PROVE IInv'
<1> USE DEF Push
<1>1. t \notin Queued \cup finished \cup early /\ \A w \in Running : job[w] # t
  BY DEF IInv, OnePlace
<1>2. /\ tasks' \in Seq(Tasks) /\ Len(tasks') = Len(tasks) + 1 /\ Queued' = Queued \cup {t}
      /\ \A i, j \in DOMAIN tasks' : tasks'[i] = tasks'[j] => i = j
  BY <1>1, Pushed DEF IInv, TypeOK
<1>3. caller' \in [Tasks -> {"idle", "notify", "over"}] /\ caller'[t] = "notify"
      /\ \A s \in Tasks : s # t => caller'[s] = caller[s]
  BY DEF IInv, TypeOK
<1>4. Running' = Running /\ Asleep' = Asleep /\ OnTheWay' = OnTheWay
  BY DEF Running, Asleep, OnTheWay
<1>5. early' \subseteq early \cup {t} /\ early' \subseteq Tasks
  BY DEF IInv, TypeOK
<1>6. TypeOK'
  BY <1>1, <1>2, <1>3, <1>5 DEF IInv, TypeOK, Running
<1>7. tasks' # <<>>
  BY <1>2 DEF IInv, TypeOK
<1>8. MutexHeld' /\ PredicateStands' /\ FlagFirst'
  <2>1. \A w \in Workers : at[w] # "doze"
    BY WorkersAreFinite DEF IInv, MutexHeld
  <2> QED BY <2>1, <1>7 DEF IInv, MutexHeld, PredicateStands, FlagFirst
<1>9. OnePlace'
  BY <1>1, <1>2, <1>3, <1>4, <1>5 DEF IInv, OnePlace
<1>10. EarlyKept'
  BY <1>2, <1>4, <1>5 DEF IInv, EarlyKept
<1>11. WakeUpsSuffice'
  <2>1. Notifying' = Notifying \cup {t} /\ t \notin Notifying
    BY <1>3 DEF Notifying
  <2>2. Cardinality(Notifying') = Cardinality(Notifying) + 1
    BY <2>1, Countable, Counted DEF IInv
  <2> QED BY <2>2, <1>2, <1>4, Countable DEF IInv, WakeUpsSuffice, TypeOK
<1>12. DrainedBeforeExit'
  <2>1. CASE stopFlag
    BY <2>1, <1>1, <1>2 DEF IInv, DrainedBeforeExit
  <2>2. CASE ~stopFlag
    BY <2>2 DEF IInv, DrainedBeforeExit, FlagFirst
  <2> QED BY <2>1, <2>2
<1> QED BY <1>6, <1>8, <1>9, <1>10, <1>11, <1>12 DEF IInv

\* A worker that slept is on its way again.
LEMMA Woken ==
  ASSUME IInv, NEW w \in Workers, at[w] = "asleep", Goes(w, "lock"),
         UNCHANGED <<mutex, tasks, stopFlag, job, owner, finished, early>>
  PROVE  /\ at' \in [Workers -> At]
         /\ Running' = Running /\ Queued' = Queued
         /\ MutexHeld' /\ PredicateStands' /\ FlagFirst' /\ DrainedBeforeExit' /\ EarlyKept'
         /\ Asleep' \subseteq Asleep
         /\ Cardinality(OnTheWay') = Cardinality(OnTheWay) + 1
<1>1. /\ at' \in [Workers -> At] /\ at'[w] = "lock"
      /\ \A v \in Workers : v # w => at'[v] = at[v]
  BY Moves DEF IInv, At
<1>2. Running' = Running /\ Queued' = Queued /\ Asleep' \subseteq Asleep
  BY <1>1 DEF Running, Queued, Asleep
<1>3. MutexHeld' /\ PredicateStands'
  BY <1>1 DEF IInv, MutexHeld, PredicateStands
<1>4. FlagFirst' /\ DrainedBeforeExit' /\ EarlyKept'
  BY <1>1, <1>2 DEF IInv, FlagFirst, DrainedBeforeExit, EarlyKept
<1>5. OnTheWay' = OnTheWay \cup {w} /\ w \notin OnTheWay
  BY <1>1 DEF OnTheWay
<1>6. Cardinality(OnTheWay') = Cardinality(OnTheWay) + 1
  BY <1>5, Countable, Counted DEF IInv
<1> QED BY <1>1, <1>2, <1>3, <1>4, <1>6

LEMMA NotifyStep ==
  ASSUME IInv, NEW t \in Tasks, Notify(t) PROVE IInv'
<1> USE DEF Notify
<1>1. caller' \in [Tasks -> {"idle", "notify", "over"}] /\ caller'[t] = "over"
      /\ \A s \in Tasks : s # t => caller'[s] = caller[s]
  BY DEF IInv, TypeOK
<1>2. Notifying' = Notifying \ {t} /\ t \in Notifying
  BY <1>1 DEF Notifying
<1>3. Cardinality(Notifying') = Cardinality(Notifying) - 1
  BY <1>2, Countable, Counted DEF IInv
<1>4. ASSUME at' \in [Workers -> At], Running' = Running, Queued' = Queued
      PROVE  TypeOK' /\ OnePlace'
  <2>1. OnePlace'
    BY <1>1, <1>4 DEF IInv, OnePlace
  <2>2. TypeOK'
    BY <1>1, <1>4, <2>1 DEF IInv, TypeOK, OnePlace, Running
  <2> QED BY <2>1, <2>2
<1>5. CASE \E w \in Asleep : Goes(w, "lock")
  <2>1. PICK w \in Workers : at[w] = "asleep" /\ Goes(w, "lock")
    BY <1>5 DEF Asleep
  <2>2. /\ at' \in [Workers -> At] /\ Running' = Running /\ Queued' = Queued
        /\ MutexHeld' /\ PredicateStands' /\ FlagFirst' /\ DrainedBeforeExit' /\ EarlyKept'
        /\ Asleep' \subseteq Asleep
        /\ Cardinality(OnTheWay') = Cardinality(OnTheWay) + 1
    BY <2>1, Woken
  <2>3. WakeUpsSuffice'
    BY <1>3, <2>2, Countable DEF IInv, WakeUpsSuffice, TypeOK
  <2> QED BY <1>4, <2>2, <2>3 DEF IInv
<1>6. CASE Asleep = {} /\ UNCHANGED at
  <2>1. at' \in [Workers -> At] /\ Running' = Running /\ Queued' = Queued /\ Asleep' = {}
    BY <1>6 DEF IInv, TypeOK, Running, Queued, Asleep
  <2>2. MutexHeld' /\ PredicateStands' /\ FlagFirst' /\ DrainedBeforeExit' /\ EarlyKept'
    BY <1>6, <2>1 DEF IInv, MutexHeld, PredicateStands, FlagFirst, DrainedBeforeExit, EarlyKept
  <2> QED BY <1>4, <2>1, <2>2 DEF IInv, WakeUpsSuffice
<1> QED BY <1>5, <1>6 DEF NotifyOne

LEMMA SpuriousStep ==
  ASSUME IInv, NEW w \in Workers, SpuriousWakeUp(w) PROVE IInv'
<1> USE DEF SpuriousWakeUp
<1>1. /\ at' \in [Workers -> At] /\ Running' = Running /\ Queued' = Queued
      /\ MutexHeld' /\ PredicateStands' /\ FlagFirst' /\ DrainedBeforeExit' /\ EarlyKept'
      /\ Asleep' \subseteq Asleep
      /\ Cardinality(OnTheWay') = Cardinality(OnTheWay) + 1
  BY Woken
<1>2. OnePlace'
  BY <1>1 DEF IInv, OnePlace
<1>3. TypeOK'
  BY <1>1, <1>2 DEF IInv, TypeOK, OnePlace, Running
<1>4. WakeUpsSuffice'
  <2>1. Notifying' = Notifying
    BY DEF Notifying
  <2> QED BY <1>1, <2>1, Countable DEF IInv, WakeUpsSuffice, TypeOK
<1> QED BY <1>1, <1>2, <1>3, <1>4 DEF IInv
LEMMA AcquireStep ==
  ASSUME IInv, NEW w \in Workers, Acquire(w) PROVE IInv'
<1> USE DEF Acquire
<1>1. /\ at' \in [Workers -> At] /\ \A v \in Workers : v # w => at'[v] = at[v]
      /\ at'[w] = IF stopFlag \/ tasks # <<>> THEN "take" ELSE "doze"
  BY Moves DEF IInv, At
<1>2. Running' = Running /\ Asleep' = Asleep /\ Queued' = Queued
  BY <1>1 DEF Running, Asleep, Queued
<1>3. OnePlace' /\ EarlyKept'
  BY <1>2 DEF IInv, OnePlace, EarlyKept
<1>4. TypeOK'
  BY <1>1, <1>2, <1>3 DEF IInv, TypeOK, OnePlace, Running
<1>5. MutexHeld' /\ PredicateStands' /\ FlagFirst'
  BY <1>1, WorkersAreFinite DEF IInv, MutexHeld, PredicateStands, FlagFirst
<1>6. WakeUpsSuffice'
  <2>1. Notifying' = Notifying
    BY DEF Notifying
  <2>2. CASE stopFlag \/ tasks # <<>>
    <3>1. OnTheWay' = OnTheWay
      BY <1>1, <2>2 DEF OnTheWay
    <3> QED BY <1>2, <2>1, <3>1 DEF IInv, WakeUpsSuffice
  <2>3. CASE ~stopFlag /\ tasks = <<>>
    <3>1. Len(tasks') = 0 /\ owner' = "up"
      BY <2>3 DEF IInv, FlagFirst
    <3>2. OnTheWay' = OnTheWay \ {w}
      BY <1>1, <2>3 DEF OnTheWay
    <3>3. Cardinality(OnTheWay') \in Nat
      BY <3>2, Countable, Counted DEF IInv
    <3> QED BY <2>1, <3>1, <3>3, Countable DEF IInv, WakeUpsSuffice
  <2> QED BY <2>2, <2>3
<1>7. DrainedBeforeExit'
  BY <1>1, <1>2 DEF IInv, DrainedBeforeExit
<1> QED BY <1>3, <1>4, <1>5, <1>6, <1>7 DEF IInv

LEMMA DozeStep ==
  ASSUME IInv, NEW w \in Workers, Doze(w) PROVE IInv'
<1> USE DEF Doze
<1>1. /\ at' \in [Workers -> At] /\ \A v \in Workers : v # w => at'[v] = at[v]
      /\ at'[w] = "asleep"
  BY Moves DEF IInv, At
<1>2. Running' = Running /\ Queued' = Queued
  BY <1>1 DEF Running, Queued
<1>3. OnePlace' /\ EarlyKept'
  BY <1>2 DEF IInv, OnePlace, EarlyKept
<1>4. TypeOK'
  BY <1>1, <1>2, <1>3 DEF IInv, TypeOK, OnePlace, Running
<1>5. MutexHeld' /\ PredicateStands' /\ FlagFirst'
  BY <1>1, WorkersAreFinite DEF IInv, MutexHeld, PredicateStands, FlagFirst
<1>6. WakeUpsSuffice'
  <2>1. tasks = <<>> /\ owner = "up"
    BY DEF IInv, PredicateStands, FlagFirst
  <2>2. Notifying' = Notifying /\ OnTheWay' = OnTheWay
    BY <1>1 DEF Notifying, OnTheWay
  <2> QED BY <2>1, <2>2, Countable DEF IInv, WakeUpsSuffice
<1>7. DrainedBeforeExit'
  BY <1>1, <1>2 DEF IInv, DrainedBeforeExit
<1> QED BY <1>3, <1>4, <1>5, <1>6, <1>7 DEF IInv

LEMMA LeaveStep ==
  ASSUME IInv, NEW w \in Workers, Leave(w) PROVE IInv'
<1> USE DEF Leave, MayLeave
<1>1. /\ at' \in [Workers -> At] /\ \A v \in Workers : v # w => at'[v] = at[v]
      /\ at'[w] = "gone"
  BY Moves DEF IInv, At
<1>2. Running' = Running /\ Asleep' = Asleep /\ Queued' = Queued /\ Queued = {}
  BY <1>1 DEF Running, Asleep, Queued
<1>3. OnePlace' /\ EarlyKept'
  BY <1>2 DEF IInv, OnePlace, EarlyKept
<1>4. TypeOK'
  BY <1>1, <1>2, <1>3 DEF IInv, TypeOK, OnePlace, Running
<1>5. MutexHeld' /\ PredicateStands' /\ FlagFirst'
  BY <1>1, WorkersAreFinite DEF IInv, MutexHeld, PredicateStands, FlagFirst
<1>6. WakeUpsSuffice'
  <2>1. OnTheWay' = OnTheWay \ {w} /\ Notifying' = Notifying /\ Len(tasks') = 0
    BY <1>1 DEF OnTheWay, Notifying
  <2>2. Cardinality(OnTheWay') \in Nat
    BY <2>1, Countable, Counted DEF IInv
  <2> QED BY <2>1, <2>2, <1>2, Countable DEF IInv, WakeUpsSuffice
<1>7. DrainedBeforeExit'
  BY <1>1, <1>2 DEF IInv, DrainedBeforeExit, FlagFirst
<1> QED BY <1>3, <1>4, <1>5, <1>6, <1>7 DEF IInv

LEMMA TakeStep ==
  ASSUME IInv, NEW w \in Workers, Take(w) PROVE IInv'
<1> USE DEF Take, MayLeave
<1> DEFINE t == Head(tasks)
<1>1. /\ at' \in [Workers -> At] /\ \A v \in Workers : v # w => at'[v] = at[v]
      /\ at'[w] = "run"
  BY Moves DEF IInv, At
<1>2. tasks # <<>>
  BY DEF IInv, PredicateStands
<1>3. /\ tasks' \in Seq(Tasks) /\ Len(tasks) = Len(tasks') + 1
      /\ t \in Queued /\ t \in Tasks /\ Queued' = Queued \ {t}
      /\ \A i, j \in DOMAIN tasks' : tasks'[i] = tasks'[j] => i = j
  BY <1>2, Popped DEF IInv, TypeOK
<1>4. job' \in [Workers -> Tasks \cup {Nobody}] /\ job'[w] = t
      /\ \A v \in Workers : v # w => job'[v] = job[v]
  BY <1>3 DEF IInv, TypeOK
<1>5. Running' = Running \cup {w} /\ w \notin Running /\ Asleep' = Asleep
  BY <1>1 DEF Running, Asleep
<1> HIDE DEF t
<1>6. \A v \in Running : v \in Workers /\ v # w /\ job'[v] = job[v] /\ job[v] # t
  BY <1>3, <1>4, <1>5 DEF IInv, OnePlace, Running
<1>7. OnePlace'
  <2>1. Queued' \cap finished' = {} /\ t \notin Queued' \cup finished'
    BY <1>3 DEF IInv, OnePlace
  <2>2. \A v \in Running' : job'[v] \in Tasks \ (Queued' \cup finished')
    BY <2>1, <1>3, <1>4, <1>5, <1>6 DEF IInv, OnePlace
  <2>3. \A u, v \in Running' : job'[u] = job'[v] => u = v
    BY <1>4, <1>5, <1>6 DEF IInv, OnePlace
  <2>4. \A s \in Tasks : caller'[s] = "idle" => s \notin Queued' \cup finished' \cup early'
                                                /\ \A v \in Running' : job'[v] # s
    BY <1>3, <1>4, <1>5, <1>6 DEF IInv, OnePlace
  <2> QED BY <2>1, <2>2, <2>3, <2>4 DEF OnePlace
<1>8. EarlyKept'
  <2>1. {job[v] : v \in Running} \subseteq {job'[v] : v \in Running'} /\ t \in {job'[v] : v \in Running'}
    BY <1>4, <1>5, <1>6
  <2> QED BY <2>1, <1>3 DEF IInv, EarlyKept
<1>9. TypeOK'
  BY <1>1, <1>3, <1>4, <1>7, WorkersAreFinite DEF IInv, TypeOK, OnePlace, Running
<1>10. MutexHeld' /\ PredicateStands' /\ FlagFirst'
  <2>1. \A v \in Workers : at'[v] \notin {"take", "doze"}
    BY <1>1 DEF IInv, MutexHeld
  <2> QED BY <1>1, <2>1, WorkersAreFinite DEF IInv, MutexHeld, PredicateStands, FlagFirst
<1>11. WakeUpsSuffice'
  <2>1. OnTheWay' = OnTheWay \ {w} /\ w \in OnTheWay /\ Notifying' = Notifying
    BY <1>1 DEF OnTheWay, Notifying
  <2>2. Cardinality(OnTheWay') = Cardinality(OnTheWay) - 1
    BY <2>1, Countable, Counted DEF IInv
  <2> QED BY <2>1, <2>2, <1>3, <1>5, <1>9, Countable DEF IInv, WakeUpsSuffice, TypeOK
<1>12. DrainedBeforeExit'
  BY <1>1, <1>3 DEF IInv, DrainedBeforeExit, FlagFirst
<1> QED BY <1>7, <1>8, <1>9, <1>10, <1>11, <1>12 DEF IInv

LEMMA ReturnStep ==
  ASSUME IInv, NEW w \in Workers, Return(w) PROVE IInv'
<1> USE DEF Return
<1>1. /\ at' \in [Workers -> At] /\ \A v \in Workers : v # w => at'[v] = at[v]
      /\ at'[w] = "lock"
  BY Moves DEF IInv, At
<1>2. Running' = Running \ {w} /\ w \in Running /\ Asleep' = Asleep /\ Queued' = Queued
  BY <1>1 DEF Running, Asleep, Queued
<1>3. job[w] \in Tasks \ Queued /\ \A v \in Running' : v \in Running /\ job[v] # job[w]
  BY <1>2 DEF IInv, OnePlace
<1>4. OnePlace'
  BY <1>2, <1>3 DEF IInv, OnePlace
<1>5. EarlyKept'
  BY <1>2 DEF IInv, EarlyKept
<1>6. TypeOK'
  BY <1>1, <1>2, <1>3, <1>4 DEF IInv, TypeOK, OnePlace, Running
<1>7. MutexHeld' /\ PredicateStands' /\ FlagFirst'
  BY <1>1 DEF IInv, MutexHeld, PredicateStands, FlagFirst
<1>8. WakeUpsSuffice'
  <2>1. OnTheWay' = OnTheWay \cup {w} /\ w \notin OnTheWay /\ Notifying' = Notifying
    BY <1>1 DEF OnTheWay, Notifying
  <2>2. Cardinality(OnTheWay') = Cardinality(OnTheWay) + 1
    BY <2>1, Countable, Counted DEF IInv
  <2> QED BY <2>1, <2>2, <1>2, Countable DEF IInv, WakeUpsSuffice, TypeOK
<1>9. DrainedBeforeExit'
  BY <1>1, <1>2 DEF IInv, DrainedBeforeExit
<1> QED BY <1>4, <1>5, <1>6, <1>7, <1>8, <1>9 DEF IInv

-----------------------------------------------------------------------------
\* shutdown

LEMMA SetFlagStep ==
  ASSUME IInv, SetFlag PROVE IInv'
<1> USE DEF SetFlag
<1>1. Running' = Running /\ Asleep' = Asleep /\ OnTheWay' = OnTheWay /\ Queued' = Queued
      /\ Notifying' = Notifying
  BY DEF Running, Asleep, OnTheWay, Queued, Notifying
<1>2. OnePlace' /\ EarlyKept' /\ DrainedBeforeExit' /\ WakeUpsSuffice'
  BY <1>1 DEF IInv, OnePlace, EarlyKept, DrainedBeforeExit, WakeUpsSuffice
<1>3. TypeOK' /\ MutexHeld' /\ FlagFirst'
  BY <1>1 DEF IInv, TypeOK, MutexHeld, FlagFirst
<1>4. PredicateStands'
  BY WorkersAreFinite DEF IInv, MutexHeld, PredicateStands
<1> QED BY <1>2, <1>3, <1>4 DEF IInv

LEMMA NotifyAllStep ==
  ASSUME IInv, NotifyAll PROVE IInv'
<1> USE DEF NotifyAll
<1>1. /\ at' \in [Workers -> At]
      /\ \A w \in Workers : at'[w] = at[w] \/ (at[w] = "asleep" /\ at'[w] = "lock")
  <2>1. at \in [Workers -> At] /\ "lock" \in At
    BY DEF IInv, TypeOK, At
  <2> QED BY <2>1 DEF Asleep
<1>2. Asleep' = {}
  BY DEF Asleep
<1>3. Running' = Running /\ Queued' = Queued
  BY <1>1 DEF Running, Queued
<1>4. OnePlace' /\ EarlyKept'
  BY <1>3 DEF IInv, OnePlace, EarlyKept
<1>5. TypeOK'
  BY <1>1, <1>3, <1>4 DEF IInv, TypeOK, OnePlace, Running
<1>6. MutexHeld' /\ PredicateStands' /\ FlagFirst'
  BY <1>1 DEF IInv, MutexHeld, PredicateStands, FlagFirst
<1>7. WakeUpsSuffice' /\ DrainedBeforeExit'
  BY <1>1, <1>2, <1>3 DEF IInv, WakeUpsSuffice, DrainedBeforeExit
<1> QED BY <1>4, <1>5, <1>6, <1>7 DEF IInv

LEMMA JoinStep ==
  ASSUME IInv, Join PROVE IInv'
<1> USE DEF Join
<1>1. Running' = Running /\ Running = {} /\ Asleep' = Asleep /\ Asleep = {} /\ Queued' = Queued
  BY DEF Running, Asleep, Queued
<1>2. OnePlace' /\ EarlyKept' /\ WakeUpsSuffice'
  BY <1>1 DEF IInv, OnePlace, EarlyKept, WakeUpsSuffice
<1>3. TypeOK' /\ MutexHeld' /\ PredicateStands' /\ FlagFirst'
  BY <1>1 DEF IInv, TypeOK, MutexHeld, PredicateStands, FlagFirst
<1>4. DrainedBeforeExit'
  BY <1>1 DEF IInv, DrainedBeforeExit, EarlyKept
<1> QED BY <1>2, <1>3, <1>4 DEF IInv

LEMMA StutterStep ==
  ASSUME IInv, UNCHANGED vars PROVE IInv'
BY DEF vars, IInv, TypeOK, MutexHeld, PredicateStands, FlagFirst, OnePlace, EarlyKept,
       WakeUpsSuffice, DrainedBeforeExit, Running, Asleep, OnTheWay, Notifying, Queued

LEMMA NextInv == IInv /\ [Next]_vars => IInv'
<1> SUFFICES ASSUME IInv, [Next]_vars PROVE IInv'
  OBVIOUS
<1>1. CASE \E t \in Tasks : Push(t) \/ Notify(t)
  BY <1>1, PushStep, NotifyStep
<1>2. CASE \E w \in Workers : Work(w) \/ SpuriousWakeUp(w)
  BY <1>2, AcquireStep, DozeStep, LeaveStep, TakeStep, ReturnStep, SpuriousStep DEF Work
<1>3. CASE Owner
  BY <1>3, SetFlagStep, NotifyAllStep, JoinStep DEF Owner
<1>4. CASE UNCHANGED vars
  BY <1>4, StutterStep
<1> QED BY <1>1, <1>2, <1>3, <1>4 DEF Next

-----------------------------------------------------------------------------
\* The theorems

LEMMA SafetyInv == Spec => []IInv
BY InitInv, NextInv, PTL DEF Spec

(* A task is queued at most once and taken at most once: what a worker of  *)
(* workerLoop runs is neither in the queue nor over.                       *)
THEOREM TypeCorrect == Spec => []TypeOK
<1>1. IInv => TypeOK
  BY DEF IInv
<1> QED BY <1>1, SafetyInv, PTL

(* submit() and shutdown() notify after they let go of the mutex, and a    *)
(* wake-up may find nothing to do: still no worker sleeps over a task or   *)
(* over the end of the pool.                                               *)
THEOREM NoLostWakeUp == Spec => []WakeUpsSuffice
<1>1. IInv => WakeUpsSuffice
  BY DEF IInv
<1> QED BY <1>1, SafetyInv, PTL

(* No worker leaves while a task that was submitted before shutdown() is   *)
(* in the queue, and all of them are over when it returns.                 *)
THEOREM Drains == Spec => []DrainedBeforeExit
<1>1. IInv => DrainedBeforeExit
  BY DEF IInv
<1> QED BY <1>1, SafetyInv, PTL
=============================================================================
